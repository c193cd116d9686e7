---------------------------- MODULE StateDBProofs ---------------------------
(***************************************************************************)
(* StateDB keeps its promises for any addresses, keys, values and bounds:  *)
(* snapshots and reverts preserve RevertInv, so it is an invariant; so is  *)
(* Held beside it; and the theorems follow from the two.                   *)
(***************************************************************************)
EXTENDS StateDBSteps, StateDBLoads, StateDBRefines

-----------------------------------------------------------------------------
(* Snapshots and reverts *)

\* Snapshot keeps the invariant.
LEMMA SnapshotInv ==
  ASSUME Safe, Snapshot
  PROVE  Safe'
<1>0. RevertInv
  BY SafeIs
<1> USE <1>0
<1>1. /\ phase = "running" /\ Unfinished /\ Upto = Len(validRevisions)
      /\ UNCHANGED <<store, native, stateObjects, journal, dirties, refund, logs, nativeEvents,
                     transientStorage, accessList, err, phase, target>>
  BY DEF Snapshot, Unfinished, Upto, journalVars, sideVars, controlVars
<1>2. PICK n : n = Len(validRevisions)
  BY ZenonT(60)
<1>3. TypeOK /\ n \in Nat /\ validRevisions \in Seq(Revision) /\ nextRevisionID \in Nat /\ Len(journal) \in Nat
  BY <1>2, InvJournal DEF RevertInv, TypeOK
<1>4. PICK rev : rev = [id |-> nextRevisionID, journalIndex |-> Len(journal)]
  BY ZenonT(60)
<1>5. rev \in Revision
  BY <1>3, <1>4 DEF Revision
<1>6. PICK revs : revs = Append(validRevisions, rev)
  BY ZenonT(60)
<1>7. /\ revs \in Seq(Revision) /\ Len(revs) = n + 1 /\ revs[n + 1] = rev
      /\ \A r \in 1..n : revs[r] = validRevisions[r]
  BY ONLY <1>2, <1>3, <1>5, <1>6
<1>8. validRevisions' = revs /\ nextRevisionID' = nextRevisionID + 1
  BY <1>4, <1>6 DEF Snapshot
<1>9. /\ DOMAIN saved' = 1..(n + 1) /\ saved'[n + 1].view = View
      /\ \A r \in 1..n : saved'[r] = saved[r]
  <2>1. PICK v : v = [view |-> View, exist |-> {a \in Addr : Exist(a)}]
    BY ZenonT(60)
  <2>2. saved' = [i \in 1..(n + 1) |-> IF i <= n THEN saved[i] ELSE v]
    BY <1>2, <2>1 DEF Snapshot
  <2>3. v.view = View
    BY <2>1
  <2>4. QED  BY <1>3, <2>2, <2>3
<1>10. View' = View
  BY <1>1, ViewIs
<1>11. Rewindable(journal, View, store, revs, saved', n + 1)
  <2>1. Rewindable(journal, View, store, validRevisions, saved, n)
    BY ZenonT(30), <1>1, <1>2, InvData
  <2>2. revs[n + 1].journalIndex = Len(journal)
    BY <1>4, <1>7
  <2>3. PICK sv : sv = saved'
    OBVIOUS
  <2>4. sv[n + 1].view = View /\ \A r \in 1..n : revs[r] = validRevisions[r] /\ sv[r] = saved[r]
    BY ZenonT(30), <1>7, <1>9, <2>3
  <2>5. Rewindable(journal, View, store, revs, sv, n + 1)
    <3>1. journal \in Seq(Entry) /\ n \in Nat
      BY <1>3, InvJournal
    <3>2. QED  BY ONLY SMTT(30), Z3T(30), <2>1, <2>2, <2>4, <3>1, ChainMarks
  <2>6. QED  BY <2>3, <2>5
<1>12. Upto' = n + 1
  BY Zenon, <1>1, <1>7, <1>8 DEF Upto
<1>13. TypeOK'
  <2>1. target' \in 0..(n + 1) /\ nextRevisionID' \in Nat
    BY ONLY SMTT(30), Z3T(30), <1>1, <1>2, <1>3, <1>8 DEF TypeOK
  <2>2. QED  BY ZenonT(30), <1>1, <1>3, <1>7, <1>8, <1>9, <2>1 DEF TypeOK
<1>14. RevisionsOrdered'
  <2>1. \A i \in 1..n : /\ validRevisions[i].id \in Nat /\ validRevisions[i].journalIndex \in Nat
                         /\ validRevisions[i].id < nextRevisionID
                         /\ validRevisions[i].journalIndex <= Len(journal)
    BY ZenonT(30), <1>1, <1>2, <1>3, RevisionFields DEF RevertInv, RevisionsOrdered
  <2>2. rev.id = nextRevisionID /\ rev.journalIndex = Len(journal)
    BY <1>4
  <2>3. ASSUME NEW i \in 1..(n + 1), NEW j \in 1..(n + 1), i < j
        PROVE  revs[i].id < revs[j].id /\ revs[i].journalIndex <= revs[j].journalIndex
    <3>1. i \in 1..n
      BY ONLY <1>3, <2>3
    <3>2. CASE j = n + 1
      BY ZenonT(30), <1>7, <2>1, <2>2, <3>1, <3>2
    <3>3. CASE j # n + 1
      <4>1. j \in 1..n
        BY ONLY <1>3, <3>3
      <4>2. validRevisions[i].id < validRevisions[j].id /\ validRevisions[i].journalIndex <= validRevisions[j].journalIndex
        BY ZenonT(30), <1>2, <2>3, <3>1, <4>1 DEF RevertInv, RevisionsOrdered
      <4>3. QED  BY ZenonT(30), <1>7, <3>1, <4>1, <4>2
    <3>4. QED  BY Zenon, <3>2, <3>3
  <2>4. ASSUME NEW i \in 1..(n + 1)
        PROVE  revs[i].id < nextRevisionID + 1 /\ revs[i].journalIndex <= Len(journal)
    <3>1. CASE i = n + 1
      BY ONLY SMTT(30), Z3T(30), <1>3, <1>7, <2>2, <3>1
    <3>2. CASE i # n + 1
      <4>1. i \in 1..n
        BY ONLY <1>3, <3>2
      <4>2. QED  BY ONLY SMTT(30), Z3T(30), <1>3, <1>7, <2>1, <4>1
    <3>3. QED  BY Zenon, <3>1, <3>2
  <2>5. QED  BY ZenonT(30), <1>1, <1>7, <1>8, <2>3, <2>4 DEF RevisionsOrdered
<1>15. Bookkeeping(journal, dirties, stateObjects)'
  BY <1>1 DEF RevertInv
<1>16. Rewindable(journal, View, store, validRevisions, saved, Upto)'
  BY ZenonT(30), <1>1, <1>8, <1>10, <1>11, <1>12
<1>17. QED  BY ZenonT(30), SafeIs, <1>1, <1>13, <1>14, <1>15, <1>16 DEF RevertInv

\* RevertToSnapshot keeps the invariant.
LEMMA RevertToSnapshotInv ==
  ASSUME Safe, NEW revid, RevertToSnapshot(revid)
  PROVE  Safe'
<1>0. RevertInv
  BY Zenon, SafeIs
<1> USE <1>0
<1>1. /\ phase = "running" /\ phase' = "reverting" /\ Unfinished /\ Upto = Len(validRevisions)
      /\ UNCHANGED <<store, native, stateObjects, journal, dirties, refund, logs, nativeEvents,
                     transientStorage, accessList, err, validRevisions, nextRevisionID, saved>>
  BY DEF RevertToSnapshot, Unfinished, Upto, journalVars, sideVars, revisionVars
<1>2. target' \in 1..Len(validRevisions)
  BY SearchFinds DEF RevertToSnapshot
<1>3. Len(validRevisions) \in Nat /\ journal \in Seq(Entry)
  BY Zenon, InvJournal
<1>4. validRevisions[target'].journalIndex <= Len(journal)
  BY <1>1, <1>2 DEF RevertInv, RevisionsOrdered
<1>5. View' = View
  BY Zenon, <1>1, ViewIs
<1>6. Rewindable(journal, View, store, validRevisions, saved, target')
  <2>1. Rewindable(journal, View, store, validRevisions, saved, Len(validRevisions))
    BY <1>1, InvData
  <2>2. PICK t : t = target'
    OBVIOUS
  <2>3. t \in 0..Len(validRevisions)
    BY ONLY <1>2, <1>3, <2>2
  <2>4. Rewindable(journal, View, store, validRevisions, saved, t)
    BY ZenonT(30), <1>3, <2>1, <2>3, ChainForgets
  <2>5. QED  BY Zenon, <2>2, <2>4
<1>7. TypeOK'
  <2>1. target' \in 0..Len(validRevisions)
    BY ONLY SMTT(30), Z3T(30), <1>2, <1>3
  <2>2. QED  BY <1>1, <2>1 DEF RevertInv, TypeOK
<1>8. RevisionsOrdered'
  BY ZenonT(30), <1>1 DEF RevertInv, RevisionsOrdered
<1>9. Bookkeeping(journal, dirties, stateObjects)'
  BY <1>1 DEF RevertInv
<1>10. Rewindable(journal, View, store, validRevisions, saved, Upto)'
  BY ZenonT(30), <1>1, <1>5, <1>6 DEF Upto
<1>11. QED  BY ZenonT(30), SafeIs, <1>1, <1>2, <1>4, <1>7, <1>8, <1>9, <1>10 DEF RevertInv

\* The bookkeeping after the last entry was undone.
LEMMA BookShrinks ==
  ASSUME NEW j, NEW d, NEW objs, Bookkeeping(j, d, objs), Len(j) > 0, NEW objs2, NEW d2 \in [Addr -> Nat],
         \A a \in Addr : objs[a] # Nil /\ objs2[a] = Nil =>
            j[Len(j)].op = "createObject" /\ j[Len(j)].account = a /\ d2[a] = 0,
         \A a \in Addr : d2[a] # 0 => d[a] # 0
  PROVE  Bookkeeping(SubSeq(j, 1, Len(j) - 1), d2, objs2)
<1>1. PICK n \in Nat : n = Len(j)
  BY DEF Bookkeeping
<1>2. PICK l : l = SubSeq(j, 1, n - 1)
  BY ZenonT(60)
<1>3. n - 1 \in 0..Len(j) /\ j \in Seq(Entry)
  BY <1>1 DEF Bookkeeping
<1>4. l \in Seq(Entry) /\ Len(l) = n - 1 /\ \A i \in 1..(n - 1) : l[i] = j[i]
  BY ONLY SMTT(30), Z3T(30), <1>2, <1>3, PrefixOfSeq
<1>5. \A a \in Addr : d2[a] # 0 => objs2[a] # Nil
  BY Zenon DEF Bookkeeping
<1>6. ASSUME NEW i \in 1..(n - 1), j[i].op \in ObjectOps
      PROVE  objs2[j[i].account] # Nil
  <2>1. i \in 1..n /\ n \in 1..Len(j) /\ i \in 1..(n - 1) /\ i \in 1..Len(j)
    BY ONLY <1>1, <1>3
  <2>2. objs[j[i].account] # Nil
    BY Zenon, <1>6, <2>1 DEF Bookkeeping
  <2>3. j[i] \in Entry
    BY ONLY <1>3, <2>1
  <2>4. j[i].account \in Addr
    BY Zenon, <1>6, <2>3, EntryElim
  <2>5. j[n].op = "createObject" => j[i].account # j[n].account
    BY Zenon, <1>6, <2>1 DEF Bookkeeping
  <2>6. QED  BY ZenonT(30), <1>1, <2>2, <2>4, <2>5
<1>7. ASSUME NEW i \in 1..(n - 1), NEW h \in 1..(i - 1), j[i].op = "createObject", j[h].op \in ObjectOps
      PROVE  j[h].account # j[i].account
  <2>1. i \in 1..Len(j)
    BY <1>1
  <2>2. QED  BY Zenon, <1>7, <2>1 DEF Bookkeeping
<1>8. \A i \in 1..(n - 1) : \A h \in 1..(i - 1) : l[i] = j[i] /\ l[h] = j[h]
  BY ONLY SMTT(30), Z3T(30), <1>4
<1>9. QED  BY ONLY Z3T(60), SMTT(60), <1>1, <1>2, <1>4, <1>5, <1>6, <1>7, <1>8 DEF Bookkeeping

\* A step of Revert that leads to the undone view keeps the invariant.
LEMMA RevertStepRest ==
  ASSUME Safe, phase = "reverting", Unfinished, TypeOK, journal \in Seq(Entry), Len(journal) > 0,
         target \in 1..Len(validRevisions),
         UNCHANGED <<store, validRevisions, nextRevisionID, saved, err, phase, target>>,
         \A r \in 1..target : validRevisions[r].journalIndex < Len(journal),
         validRevisions[target].journalIndex \in Nat,
         NEW e \in Entry, e = journal[Len(journal)],
         journal' = SubSeq(journal, 1, Len(journal) - 1), dirties' = Drop(dirties, e),
         Rewindable(SubSeq(journal, 1, Len(journal) - 1), View', store, validRevisions, saved, target),
         GoodView(View', store), e.op = "createObject" => View'.dirties[e.account] = 0,
         stateObjects' \in [Addr -> StateObject \cup {Nil}], refund' \in Nat,
         transientStorage' \in [Addr -> [Key -> Val]],
         \A a \in Addr : stateObjects[a] # Nil /\ stateObjects'[a] = Nil => e.op = "createObject" /\ e.account = a
  PROVE  Safe'
<1>0. RevertInv
  BY Zenon, SafeIs
<1> USE <1>0
<1>1. /\ native' \in Native /\ dirties' \in [Addr -> Nat] /\ logs' \in Nat /\ nativeEvents' \in Nat
      /\ accessList' \in [addresses : SUBSET Addr, slots : SUBSET (Addr \X Key)]
      /\ View'.dirties = dirties'
  BY Zenon DEF GoodView, View, NativeOK
<1>2. PICK n \in Nat : n = Len(journal)
  <2>1. Len(journal) \in Nat
    BY ONLY SMTT(30), Z3T(30), journal \in Seq(Entry)
  <2>2. QED  BY ONLY Zenon, <2>1
<1>3. journal' \in Seq(Entry) /\ Len(journal') = n - 1
  <2>1. n - 1 \in 0..Len(journal)
    BY SMTT(30), Z3T(30), <1>2
  <2>2. QED  BY ZenonT(30), <1>2, <2>1, PrefixOfSeq
<1>4. TypeOK'
  BY Zenon, <1>1, <1>3 DEF TypeOK
<1>5. RevisionsOrdered'
  BY ZenonT(60) DEF RevertInv, RevisionsOrdered
<1>6. Bookkeeping(journal', dirties', stateObjects')
  <2>1. Bookkeeping(journal, dirties, stateObjects)
    BY Zenon DEF RevertInv
  <2>2. \A a \in Addr : dirties'[a] # 0 => dirties[a] # 0
    BY SMTT(30), Z3T(30), <1>1 DEF Drop, TypeOK
  <2>3. \A a \in Addr : stateObjects[a] # Nil /\ stateObjects'[a] = Nil =>
          journal[Len(journal)].op = "createObject" /\ journal[Len(journal)].account = a /\ dirties'[a] = 0
    <3>1. e.op = "createObject" => dirties'[e.account] = 0
      BY Zenon, <1>1
    <3>2. SUFFICES ASSUME NEW a \in Addr, stateObjects[a] # Nil, stateObjects'[a] = Nil
                   PROVE  e.op = "createObject" /\ e.account = a /\ dirties'[a] = 0
      BY Zenon
    <3>3. e.op = "createObject" /\ e.account = a
      BY Zenon, <3>2
    <3>4. QED  BY Zenon, <3>1, <3>3
  <2>4. PICK objs2, d2 : objs2 = stateObjects' /\ d2 = dirties'
    OBVIOUS
  <2>5. Bookkeeping(SubSeq(journal, 1, Len(journal) - 1), d2, objs2)
    <3>1. /\ d2 \in [Addr -> Nat]
          /\ \A a \in Addr : d2[a] # 0 => dirties[a] # 0
          /\ \A a \in Addr : stateObjects[a] # Nil /\ objs2[a] = Nil =>
               journal[Len(journal)].op = "createObject" /\ journal[Len(journal)].account = a /\ d2[a] = 0
      BY ZenonT(30), <1>1, <2>2, <2>3, <2>4
    <3>2. QED  BY ZenonT(60), <2>1, <3>1, BookShrinks
  <2>6. QED  BY Zenon, <2>4, <2>5
<1>7. Rewindable(journal, View, store, validRevisions, saved, Upto)'
  BY Zenon DEF Upto
<1>8. validRevisions[target].journalIndex <= n - 1
  <2>1. target \in 1..target
    BY InvJournal
  <2>2. QED  BY SMTT(30), Z3T(30), <1>2, <2>1
<1>9. QED  BY ZenonT(30), SafeIs, <1>3, <1>4, <1>5, <1>6, <1>7, <1>8 DEF RevertInv

\* One turn of the loop of journal.Revert keeps the invariant.
LEMMA RevertStepInv ==
  ASSUME Safe, RevertStep
  PROVE  Safe'
<1>0. RevertInv
  BY SafeIs
<1> USE <1>0
<1>1. /\ phase = "reverting" /\ Unfinished /\ Upto = target
      /\ UNCHANGED <<store, validRevisions, nextRevisionID, saved, err, phase, target>>
      /\ Len(journal) > validRevisions[target].journalIndex
  BY Zenon DEF RevertStep, Unfinished, Upto, revisionVars, controlVars
<1>2. /\ TypeOK /\ journal \in Seq(Entry) /\ Len(validRevisions) \in Nat /\ DataOK
      /\ target \in 1..Len(validRevisions) /\ validRevisions \in Seq(Revision) /\ Len(journal) \in Nat
      /\ Bookkeeping(journal, dirties, stateObjects)
  <2>1. TypeOK /\ target \in 1..Len(validRevisions) /\ Bookkeeping(journal, dirties, stateObjects)
    BY <1>1 DEF RevertInv
  <2>2. QED  BY SMTT(30), Z3T(30), <1>1, <2>1, InvData, InvJournal DEF TypeOK
<1>3. \A r \in 1..Len(validRevisions) : validRevisions[r].journalIndex \in Nat
  BY Zenon, <1>2, RevisionFields
<1>4. Len(journal) > 0
  BY ONLY <1>1, <1>2, <1>3
<1>5. PICK e \in Entry : e = journal[Len(journal)]
  BY ONLY <1>2, <1>4
<1>6. \A r \in 1..target : validRevisions[r].journalIndex < Len(journal)
  <2>1. SUFFICES ASSUME NEW r \in 1..target
                 PROVE  validRevisions[r].journalIndex < Len(journal)
    OBVIOUS
  <2>2. r \in 1..Len(validRevisions) /\ (r = target \/ r < target)
    BY ONLY <1>2
  <2>3. validRevisions[r].journalIndex <= validRevisions[target].journalIndex
    BY SMTT(30), Z3T(30), <1>2, <1>3, <2>2 DEF RevertInv, RevisionsOrdered
  <2>4. QED  BY ONLY SMTT(30), Z3T(30), <1>1, <1>2, <1>3, <2>2, <2>3
<1>7. Rewindable(journal, View, store, validRevisions, saved, target)
  BY <1>1, InvData
<1>8. PICK W : W = UndoView(e, View, store)
  BY Zenon
<1>9. /\ Rewindable(SubSeq(journal, 1, Len(journal) - 1), W, store, validRevisions, saved, target)
      /\ GoodView(W, store)
      /\ e.op = "createObject" => W.dirties[e.account] = 0
  <2>1. target \in Nat \ {0}
    BY ONLY <1>2
  <2>2. QED  BY ZenonT(30), <1>2, <1>5, <1>6, <1>7, <1>8, <2>1, ChainShrinks
<1>10. RevertEntry(e) /\ dirties' = Drop(dirties, e) /\ journal' = SubSeq(journal, 1, Len(journal) - 1)
  BY Zenon, <1>5 DEF RevertStep
<1>11. e.op \in ObjectOps => e.account \in Addr /\ stateObjects[e.account] # Nil /\ stateObjects[e.account] \in StateObject
  <2>1. e.op \in ObjectOps => e.account \in Addr /\ stateObjects[e.account] # Nil
    <3>1. Len(journal) \in 1..Len(journal)
      BY ONLY SMTT(30), Z3T(30), <1>2, <1>4
    <3>2. QED  BY ZenonT(30), <1>2, <1>5, <3>1, EntryElim DEF Bookkeeping
  <2>2. QED  BY Zenon, <1>2, <2>1 DEF TypeOK
<1>12. CASE e.op \in ObjectOps
  <2>1. PICK o : o = RevertedObject(e, stateObjects[e.account])
    OBVIOUS
  <2>2. /\ stateObjects' = [stateObjects EXCEPT ![e.account] = o]
        /\ UNCHANGED <<native, refund, logs, nativeEvents, transientStorage, accessList>>
    <3>1. GetStateObject(e.account) = stateObjects[e.account]
      BY <1>11, <1>12 DEF GetStateObject
    <3>2. e.op \notin {"native", "refund", "addLog", "transient", "accessListAddAccount", "accessListAddSlot"}
      BY <1>12 DEF ObjectOps
    <3>3. QED  BY ZenonT(30), <1>10, <1>12, <2>1, <3>1, <3>2 DEF RevertEntry
  <2>3. stateObjects \in [Addr -> StateObject \cup {Nil}] /\ store \in Store
    BY Zenon, <1>2 DEF TypeOK
  <2>4. o \in StateObject \cup {Nil} /\ (o = Nil => e.op = "createObject")
    BY ZenonT(30), <1>11, <1>12, <2>1, RevertedType, ConstantsAssumption
  <2>5. Replaces(stateObjects', stateObjects, e.account, o)
    BY ZenonT(30), <2>2 DEF Replaces
  <2>6. View' = W
    <3>1. UndoView(e, ViewOf(stateObjects, store, dirties, native, refund, logs, nativeEvents,
                             transientStorage, accessList), store)
          = ViewOf(stateObjects', store, Drop(dirties, e), native, refund, logs, nativeEvents,
                   transientStorage, accessList)
      BY ONLY SMTT(30), Z3T(30), <1>11, <1>12, <2>1, <2>3, <2>5, UndoObject
    <3>2. QED  BY ZenonT(30), <1>1, <1>8, <1>10, <2>2, <3>1, ViewIs
  <2>7. stateObjects' \in [Addr -> StateObject \cup {Nil}]
    BY ZenonT(60), <2>2, <2>3, <2>4
  <2>8. \A a \in Addr : stateObjects[a] # Nil /\ stateObjects'[a] = Nil => e.op = "createObject" /\ e.account = a
    BY ZenonT(30), <1>11, <1>12, <2>2, <2>3, <2>4
  <2>9. refund' \in Nat /\ transientStorage' \in [Addr -> [Key -> Val]]
    BY Zenon, <1>2, <2>2 DEF TypeOK
  <2>10. QED  BY ZenonT(30), <1>1, <1>2, <1>3, <1>4, <1>5, <1>6, <1>9, <1>10, <2>6, <2>7, <2>8, <2>9, RevertStepRest
<1>13. CASE e.op \notin ObjectOps
  <2>1. stateObjects' = stateObjects
    BY Zenon, <1>10, <1>13 DEF RevertEntry
  <2>2. View' = W
    <3>1. e.op \notin {"createObject", "resetObject", "createContract", "selfDestruct", "nonce", "code", "storage"}
      BY <1>13 DEF ObjectOps
    <3>2. PICK V : V = ViewOf(stateObjects, store, dirties, native, refund, logs, nativeEvents,
                              transientStorage, accessList)
      OBVIOUS
    <3>3. UndoView(e, V, store) = ViewOf(stateObjects, store, Drop(dirties, e), native', refund', logs',
                                         nativeEvents', transientStorage', accessList')
      BY ZenonT(60), <1>10, <3>1, <3>2 DEF UndoView, ViewOf, RevertEntry
    <3>4. QED  BY ZenonT(30), <1>1, <1>8, <1>10, <2>1, <3>2, <3>3, ViewIs
  <2>3. refund' \in Nat
    BY ZenonT(30), <1>2, <1>10, EntryElim DEF RevertEntry, TypeOK
  <2>4. transientStorage' \in [Addr -> [Key -> Val]]
    BY ZenonT(30), <1>2, <1>10, EntryElim DEF RevertEntry, TypeOK
  <2>5. stateObjects' \in [Addr -> StateObject \cup {Nil}]
    BY <1>2, <2>1 DEF TypeOK
  <2>6. \A a \in Addr : stateObjects[a] # Nil /\ stateObjects'[a] = Nil => e.op = "createObject" /\ e.account = a
    BY Zenon, <2>1
  <2>7. QED  BY ZenonT(30), <1>1, <1>2, <1>3, <1>4, <1>5, <1>6, <1>9, <1>10, <2>2, <2>3, <2>4, <2>5, <2>6, RevertStepRest
<1>14. QED  BY ZenonT(30), <1>12, <1>13

\* RevertToSnapshot's last step drops the revision and all later ones.
LEMMA RevertDoneInv ==
  ASSUME Safe, RevertDone
  PROVE  Safe'
<1>0. RevertInv
  BY SafeIs
<1> USE <1>0
<1>1. /\ phase = "reverting" /\ phase' = "running" /\ target' = 0 /\ Unfinished /\ Upto = target
      /\ Len(journal) = validRevisions[target].journalIndex
      /\ UNCHANGED <<store, native, stateObjects, journal, dirties, refund, logs, nativeEvents,
                     transientStorage, accessList, err, nextRevisionID>>
  BY Zenon DEF RevertDone, Unfinished, Upto, journalVars, sideVars
<1>2. /\ TypeOK /\ journal \in Seq(Entry) /\ validRevisions \in Seq(Revision)
      /\ Len(validRevisions) \in Nat /\ target \in 1..Len(validRevisions)
  BY Zenon, <1>1, InvJournal DEF RevertInv, TypeOK
<1>3. PICK k \in Nat : k = target - 1
  BY <1>2
<1>4. PICK revs, sv : revs = SubSeq(validRevisions, 1, k) /\ sv = [i \in 1..k |-> saved[i]]
  BY ZenonT(60)
<1>5. validRevisions' = revs /\ saved' = sv
  BY ZenonT(30), <1>3, <1>4 DEF RevertDone
<1>6. revs \in Seq(Revision) /\ Len(revs) = k /\ \A i \in 1..k : revs[i] = validRevisions[i] /\ sv[i] = saved[i]
  <2>1. k \in 0..Len(validRevisions)
    BY ONLY <1>2, <1>3
  <2>2. QED  BY ZenonT(30), <1>2, <1>4, <2>1, PrefixOfSeq
<1>7. View' = View
  BY Zenon, <1>1, ViewIs
<1>8. Rewindable(journal, View, store, revs, sv, k)
  <2>1. Rewindable(journal, View, store, validRevisions, saved, target)
    BY <1>1, InvData
  <2>2. target \in Nat /\ k \in 0..target
    BY ONLY SMTT(30), Z3T(30), <1>2, <1>3
  <2>3. QED  BY ZenonT(30), <1>2, <1>6, <2>1, <2>2, ChainForgets
<1>9. TypeOK'
  <2>1. DOMAIN sv = 1..k /\ 0 \in 0..k
    BY ONLY SMTT(30), Z3T(30), <1>4
  <2>2. QED  BY ZenonT(30), <1>1, <1>2, <1>5, <1>6, <2>1 DEF TypeOK
<1>10. RevisionsOrdered'
  <2>1. \A i \in 1..k : i \in 1..Len(validRevisions) /\ i < target
    BY ONLY SMTT(30), Z3T(30), <1>2, <1>3
  <2>2. \A i, j \in 1..k : i < j => /\ revs[i].id < revs[j].id
                                    /\ revs[i].journalIndex <= revs[j].journalIndex
    BY ZenonT(30), <1>6, <2>1 DEF RevertInv, RevisionsOrdered
  <2>3. \A i \in 1..k : revs[i].id < nextRevisionID /\ revs[i].journalIndex <= Len(journal)
    BY ZenonT(30), <1>1, <1>2, <1>6, <2>1 DEF RevertInv, RevisionsOrdered
  <2>4. QED  BY ZenonT(30), <1>1, <1>5, <1>6, <2>2, <2>3 DEF RevisionsOrdered
<1>11. Bookkeeping(journal, dirties, stateObjects)'
  BY Zenon, <1>1 DEF RevertInv
<1>12. Rewindable(journal, View, store, validRevisions, saved, Upto)'
  <2>1. Upto' = k
    BY ZenonT(30), <1>1, <1>5, <1>6 DEF Upto
  <2>2. QED  BY ZenonT(30), <1>1, <1>5, <1>7, <1>8, <2>1
<1>13. QED  BY ZenonT(30), SafeIs, <1>1, <1>9, <1>10, <1>11, <1>12 DEF RevertInv

-----------------------------------------------------------------------------
(* The theorems *)

\* A message starts with an empty journal.
LEMMA InitInv ==
  ASSUME Init
  PROVE  RevertInv
<1>1. store \in Store
  BY InitStoresAssumption DEF Init
<1>2. native \in Native
  BY <1>1 DEF Init, Store
<1>3. journal \in Seq(Entry) /\ Len(journal) = 0 /\ validRevisions \in Seq(Revision) /\ Len(validRevisions) = 0
  BY DEF Init
<1>4. DOMAIN saved = 1..Len(validRevisions)
  BY DEF Init
<1>5. TypeOK
  <2>1. /\ stateObjects \in [Addr -> StateObject \cup {Nil}] /\ dirties \in [Addr -> Nat]
        /\ transientStorage \in [Addr -> [Key -> Val]]
        /\ accessList \in [addresses : SUBSET Addr, slots : SUBSET (Addr \X Key)]
    BY ConstantsAssumption DEF Init
  <2>2. err \in BOOLEAN
    BY ZenonT(60) DEF Init
  <2>3. /\ nextRevisionID \in Nat /\ refund \in Nat /\ logs \in Nat /\ nativeEvents \in Nat
        /\ phase \in {"setup", "running", "reverting", "committed", "failed"}
        /\ target \in 0..Len(validRevisions)
    BY <1>3 DEF Init
  <2>4. QED  BY ZenonT(30), <1>1, <1>2, <1>3, <1>4, <2>1, <2>2, <2>3 DEF TypeOK
<1>6. RevisionsOrdered
  BY ONLY <1>3 DEF RevisionsOrdered
<1>7. Bookkeeping(journal, dirties, stateObjects)
  BY SMTT(30), Z3T(30), <1>3 DEF Init, Bookkeeping
<1>8. GoodView(View, store)
  BY Zenon, <1>2 DEF Init, GoodView, NativeOK, View
<1>9. Rewindable(journal, View, store, validRevisions, saved, 0)
  <2>1. CleanView(View, store)
    <3>1. SUFFICES ASSUME NEW a \in Addr
                   PROVE  CleanAt(View, store, a)
      BY Zenon DEF CleanView
    <3>2. PICK o : o = NewObject(GetAccount(store.native, a))
      BY Zenon
    <3>3. Seen(a) = o /\ store.stor[a] \in [Key -> Val]
      BY Zenon, <1>1, <3>2 DEF Init, Seen, Store
    <3>4. \A k \in Key : Current(o, store.stor[a], k) = store.stor[a][k]
      <4>1. GetAccount(store.native, a) \in Account \cup {Nil}
        BY Zenon, <1>1, <1>2, GetAccountType DEF Init
      <4>2. QED  BY Zenon, <3>2, <4>1, NewObjectType
    <3>5. o.selfDestructed = FALSE
      BY Zenon, <3>2 DEF NewObject
    <3>6. [k \in Key |-> Current(o, store.stor[a], k)] = store.stor[a]
      BY Zenon, <3>3, <3>4
    <3>7. QED
      BY ZenonT(30), <3>2, <3>3, <3>5, <3>6 DEF CleanAt, View, ViewNonce, ViewCode, ViewStor, ViewDestructed
  <2>2. QED  BY ZenonT(60), <1>3, <1>8, <2>1, ChainStarts
<1>10. phase = "setup" /\ Upto = 0 /\ validRevisions = <<>>
  BY <1>3 DEF Init, Upto
<1>11. QED  BY ZenonT(30), <1>5, <1>6, <1>7, <1>9, <1>10 DEF RevertInv

\* Every step keeps the invariant.
LEMMA NextInv ==
  ASSUME Safe, [Next]_vars
  PROVE  Safe'
<1>0. RevertInv
  BY ZenonT(30), SafeIs
<1> USE <1>0
<1>1. CASE ObjectStep
  <2>1. PICK a \in Addr :
          \/ Touch(a) \/ (\E k \in Key : GetState(a, k)) \/ CreateAccount(a) \/ CreateContract(a)
          \/ (\E n \in 0..MaxNonce : SetNonce(a, n)) \/ (\E c \in Code : SetCode(a, c))
          \/ (\E k \in Key, v \in Val : SetState(a, k, v)) \/ (\E storage \in [Key -> Val] : SetStorage(a, storage))
          \/ SelfDestruct(a)
    BY <1>1 DEF ObjectStep, Selfdestruct6780
  <2>2. QED  BY SMTT(30), Z3T(30), <2>1, TouchInv, GetStateInv, CreateAccountInv, CreateContractInv, SetNonceInv, SetCodeInv,
                SetStateInv, SetStorageInv, SelfDestructInv
<1>2. CASE BalanceStep
  <2>1. PICK a \in Addr, x \in 0..MaxAmount :
          \/ (\E to \in Addr : Transfer(a, to, x)) \/ AddBalance(a, x) \/ SubBalance(a, x) \/ SetBalance(a, x)
          \/ (\E to \in Addr, fails, converted \in BOOLEAN : RunPrecompile(a, to, x, fails, converted))
    BY <1>2 DEF BalanceStep
  <2>2. x \in Nat
    BY ConstantsAssumption
  <2>3. QED  BY ZenonT(30), <2>1, <2>2, BalanceInv, RunPrecompileInv
<1>3. CASE SideStep
  BY ZenonT(30), <1>3, RefundInv, AddLogInv, SetTransientStateInv, AddAddressInv, AddSlotInv, PrepareInv DEF SideStep
<1>4. CASE RevisionStep
  BY ZenonT(30), <1>4, SnapshotInv, RevertToSnapshotInv, RevertStepInv, RevertDoneInv DEF RevisionStep
<1>5. CASE CommitStep
  BY ZenonT(30), <1>5, CommitInv
<1>6. CASE UNCHANGED vars
  <2>1. UNCHANGED <<store, native, stateObjects, journal, dirties, validRevisions, nextRevisionID, refund, logs,
                    nativeEvents, transientStorage, accessList, err, phase, target, saved>>
    BY <1>6 DEF vars
  <2>2. View' = View /\ Upto' = Upto
    BY ZenonT(30), <2>1, ViewIs DEF Upto
  <2>3. TypeOK' /\ RevisionsOrdered'
    BY ZenonT(30), <2>1 DEF RevertInv, TypeOK, RevisionsOrdered
  <2>4. QED  BY ZenonT(30), <2>1, <2>2, <2>3, SafeIs DEF RevertInv, Unfinished
<1>7. QED  BY ZenonT(30), <1>1, <1>2, <1>3, <1>4, <1>5, <1>6 DEF Next

\* The inductive invariant: the journal leads back, one undo at a time, through
\* good views to what was saved for each valid revision, and the bookkeeping
\* that journal.append and journal.Revert keep agrees with the live objects.
THEOREM Invariance == Spec => []RevertInv
<1>1. Init => RevertInv
  BY InitInv
<1>2. RevertInv /\ [Next]_vars => RevertInv'
  BY NextInv, SafeIs
<1>3. QED  BY <1>1, <1>2, PTL DEF Spec

\* The fields of the StateDB keep their types; no count that Revert decrements
\* (dirties, logs, native events) becomes negative.
THEOREM TypeCorrect == Spec => []TypeOK
<1>1. RevertInv => TypeOK
  BY ZenonT(30) DEF RevertInv
<1>2. QED  BY <1>1, Invariance, PTL

\* RevertToSnapshot restores everything the EVM could observe when the
\* snapshot was taken, whatever was executed, loaded or reverted in between.
THEOREM RevertRestores == Spec => []RevertRestoresView
<1>1. RevertInv => RevertRestoresView
  <2>1. SUFFICES ASSUME RevertInv, phase = "reverting", Len(journal) = validRevisions[target].journalIndex
                 PROVE  View = saved[target].view
    BY DEF RevertRestoresView
  <2>2. Rewindable(journal, View, store, validRevisions, saved, target)
    BY Zenon, <2>1, SafeIs, InvData DEF Unfinished, Upto
  <2>3. target \in 1..Len(validRevisions) /\ Len(validRevisions) \in Nat /\ journal \in Seq(Entry)
    BY Zenon, <2>1, SafeIs, InvJournal DEF RevertInv
  <2>4. target \in Nat \ {0} /\ target \in 1..target
    BY ONLY SMTT(30), Z3T(30), <2>3
  <2>5. QED  BY ONLY <2>1, <2>2, <2>3, <2>4, ChainEnds
<1>2. QED  BY <1>1, Invariance, PTL

\* The revision list stays sorted by id and by journal position, so that
\* RevertToSnapshot's binary search is right and no revert cuts too deep.
THEOREM RevisionsStayOrdered == Spec => []RevisionsOrdered
<1>1. RevertInv => RevisionsOrdered
  BY ZenonT(30) DEF RevertInv
<1>2. QED  BY <1>1, Invariance, PTL

\* Neither Commit nor Revert ever dereferences a missing state object.
THEOREM ObjectsAreLive == Spec => []NoNilObject
<1>1. RevertInv => NoNilObject
  BY DEF RevertInv, Bookkeeping, NoNilObject
<1>2. QED  BY <1>1, Invariance, PTL

-----------------------------------------------------------------------------
(* The refinement of Revertible *)

\* A function from 1..n is a sequence of length n.
LEMMA AsSequence ==
  ASSUME NEW n \in Nat, NEW X, NEW S \in [1..n -> X]
  PROVE  S \in Seq(X) /\ Len(S) = n
<1>1. S \in Seq(X)
  OBVIOUS
<1>2. QED  BY <1>1

\* Pushing an element.
LEMMA StackAppend ==
  ASSUME NEW n \in Nat, NEW X, NEW S \in [1..n -> X], NEW T \in [1..(n + 1) -> X],
         \A i \in 1..n : T[i] = S[i]
  PROVE  T = Append(S, T[n + 1])
<1>1. S \in Seq(X) /\ Len(S) = n /\ T \in Seq(X) /\ Len(T) = n + 1 /\ T[n + 1] \in X
  BY AsSequence
<1>2. QED  BY <1>1

\* Dropping elements from the top.
LEMMA StackPrefix ==
  ASSUME NEW n \in Nat, NEW X, NEW S \in [1..n -> X], NEW k \in 0..n, NEW T \in [1..k -> X],
         \A i \in 1..k : T[i] = S[i]
  PROVE  T = SubSeq(S, 1, k)
<1>1. T \in Seq(X) /\ Len(T) = k /\ S \in Seq(X) /\ Len(S) = n /\ k \in Nat
  BY AsSequence
<1>2. QED  BY <1>1

\* The stack of copies depends on the revisions below Copies only.
LEMMA SameStack ==
  ASSUME Copies' = Copies,
         \A i \in 1..Copies : validRevisions'[i] = validRevisions[i] /\ saved'[i] = saved[i]
  PROVE  CopyStack' = CopyStack
BY DEF CopyStack

\* No operation of the EVM other than Snapshot and RevertToSnapshot touches
\* the revisions, and none runs during a revert; nor does Commit.
LEMMA OtherSteps ==
  ASSUME ObjectStep \/ BalanceStep \/ SideStep \/ CommitStep
  PROVE  ~ Reverting /\ ~ Reverting' /\ UNCHANGED revisionVars
<1>1. CASE ObjectStep
  BY ZenonT(60), <1>1 DEF ObjectStep, Touch, GetState, CreateAccount, CreateContract, SetNonce, SetCode, SetState, SetStorage,
              SelfDestruct, Selfdestruct6780, Running, Overriding, Reverting, controlVars
<1>2. CASE BalanceStep
  <2>1. ASSUME NEW result, BalanceAction(result)
        PROVE  UNCHANGED revisionVars /\ phase' = phase
    BY <2>1 DEF BalanceAction, controlVars
  <2>2. ASSUME NEW from, NEW to, NEW x, NEW fails, NEW converted, RunPrecompile(from, to, x, fails, converted)
        PROVE  UNCHANGED revisionVars /\ phase' = phase /\ phase = "running"
    BY SMTT(30), Z3T(30), <2>2 DEF RunPrecompile, Running, controlVars
  <2>3. UNCHANGED revisionVars /\ phase' = phase /\ phase \in {"setup", "running"}
    BY ZenonT(30), <1>2, <2>1, <2>2 DEF BalanceStep, Transfer, AddBalance, SubBalance, SetBalance, Running, Overriding
  <2>4. QED  BY <2>3 DEF Reverting
<1>3. CASE SideStep
  BY ZenonT(30), <1>3 DEF SideStep, AddRefund, SubRefund, AddLog, SetTransientState, AddAddressToAccessList,
              AddSlotToAccessList, Prepare, Running, Reverting, controlVars
<1>4. CASE CommitStep
  BY <1>4 DEF CommitStep, Commit, CommitFailsHalfWay, CommitReturnsErr, Reverting
<1>5. QED  BY ZenonT(30), <1>1, <1>2, <1>3, <1>4

\* Snapshot pushes a copy of what the EVM sees.
LEMMA SnapshotCopies ==
  ASSUME Safe, Snapshot
  PROVE  Abstract!Snapshot
<1>0. RevertInv
  BY SafeIs
<1>1. /\ phase = "running" /\ phase' = "running" /\ nextRevisionID' = nextRevisionID + 1
      /\ UNCHANGED <<store, native, stateObjects, journal, dirties, refund, logs, nativeEvents,
                     transientStorage, accessList>>
  BY DEF Snapshot, journalVars, sideVars, controlVars
<1>2. View' = View
  BY <1>1, ViewIs
<1>3. ~ Reverting /\ ~ Reverting' /\ CopiedState = View /\ CopiedState' = View
  BY <1>1, <1>2 DEF Reverting, CopiedState
<1>4. PICK n : n = Len(validRevisions)
  BY ZenonT(60)
<1>5. n \in Nat /\ validRevisions \in Seq(Revision) /\ nextRevisionID \in Nat
  BY <1>0, <1>4, InvJournal DEF RevertInv, TypeOK
<1>6. PICK rev : rev = [id |-> nextRevisionID, journalIndex |-> Len(journal)]
  BY ZenonT(60)
<1>7. rev \in Revision /\ rev.id = nextRevisionID
  BY ONLY <1>0, <1>5, <1>6, InvJournal DEF Revision
<1>8. /\ Len(validRevisions') = n + 1 /\ validRevisions'[n + 1].id = nextRevisionID
      /\ \A i \in 1..n : validRevisions'[i] = validRevisions[i]
  <2>1. validRevisions' = Append(validRevisions, rev)
    BY <1>6 DEF Snapshot
  <2>2. QED  BY ONLY SMTT(30), Z3T(30), <1>4, <1>5, <1>7, <2>1
<1>9. saved'[n + 1].view = View /\ \A i \in 1..n : saved'[i] = saved[i]
  <2>1. PICK v : v = [view |-> View, exist |-> {a \in Addr : Exist(a)}]
    BY ZenonT(60)
  <2>2. saved' = [i \in 1..(n + 1) |-> IF i <= n THEN saved[i] ELSE v]
    BY Zenon, <1>4, <2>1 DEF Snapshot
  <2>3. v.view = View
    BY <2>1
  <2>4. QED  BY ONLY <1>5, <2>2, <2>3
<1>10. Copies = n /\ Copies' = n + 1
  BY Zenon, <1>3, <1>4, <1>8 DEF Copies
<1>11. CopyStack' = Append(CopyStack, [id |-> nextRevisionID, state |-> CopiedState])
  <2>1. PICK S, T, c : S = CopyStack /\ T = CopyStack' /\ c = [id |-> nextRevisionID, state |-> View]
    BY ZenonT(60)
  <2>2. S = [i \in 1..n |-> [id |-> validRevisions[i].id, state |-> saved[i].view]]
    BY <1>10, <2>1 DEF CopyStack
  <2>3. T = [i \in 1..(n + 1) |-> [id |-> validRevisions'[i].id, state |-> saved'[i].view]]
    BY ZenonT(30), <1>10, <2>1 DEF CopyStack
  <2>4. T[n + 1] = c /\ \A i \in 1..n : T[i] = S[i]
    BY ONLY <1>5, <1>8, <1>9, <2>1, <2>2, <2>3
  <2>5. PICK X : X = {T[i] : i \in 1..(n + 1)}
    BY ZenonT(60)
  <2>6. T \in [1..(n + 1) -> X]
    BY Zenon, <2>3, <2>5
  <2>7. S \in [1..n -> X]
    BY ONLY <1>5, <2>2, <2>4, <2>6
  <2>8. T = Append(S, c)
    BY ZenonT(30), <1>5, <2>4, <2>6, <2>7, StackAppend
  <2>9. QED  BY Zenon, <1>3, <2>1, <2>8
<1>12. UNCHANGED Reverting
  BY ZenonT(30), <1>1 DEF Reverting
<1>13. QED  BY ZenonT(30), <1>1, <1>3, <1>11, <1>12 DEF Abstract!Snapshot

\* RevertToSnapshot puts a copy back and drops it with those above it.
LEMMA RevertPutsBack ==
  ASSUME Safe, NEW revid \in 0..MaxRevisions, RevertToSnapshot(revid)
  PROVE  Abstract!Revert
<1>0. RevertInv
  BY ZenonT(30), SafeIs
<1>1. phase = "running" /\ phase' = "reverting" /\ UNCHANGED <<validRevisions, nextRevisionID, saved>>
  BY DEF RevertToSnapshot, revisionVars
<1>2. ~ Reverting /\ Reverting' = TRUE /\ CopiedState' = saved[target'].view
  BY <1>1 DEF Reverting, CopiedState
<1>3. PICK n : n = Len(validRevisions)
  BY ZenonT(60)
<1>4. PICK i \in 1..n : n \in Nat /\ target' = i
  <2>1. target' = SearchRevision(revid) /\ \E i \in 1..Len(validRevisions) : validRevisions[i].id = revid
    BY DEF RevertToSnapshot
  <2>2. QED  BY ZenonT(30), <1>0, <1>3, <2>1, SearchFinds, InvJournal
<1>5. PICK k \in 0..n : k = i - 1 /\ k \in Nat
  BY <1>4
<1>6. Copies = n /\ Copies' = k
  BY ZenonT(30), <1>1, <1>2, <1>3, <1>4, <1>5 DEF Copies
<1>7. PICK S, T : S = CopyStack /\ T = CopyStack'
  BY ZenonT(60)
<1>8. S = [l \in 1..n |-> [id |-> validRevisions[l].id, state |-> saved[l].view]]
  BY ZenonT(30), <1>6, <1>7 DEF CopyStack
<1>9. T = [l \in 1..k |-> [id |-> validRevisions[l].id, state |-> saved[l].view]]
  BY ZenonT(30), <1>1, <1>6, <1>7 DEF CopyStack
<1>10. PICK X : X = {S[l] : l \in 1..n}
  BY ZenonT(60)
<1>11. S \in [1..n -> X]
  BY ZenonT(30), <1>8, <1>10
<1>12. \A j \in 1..k : j \in 1..n /\ T[j] = S[j] /\ S[j] \in X
  BY ONLY SMTT(30), Z3T(30), <1>4, <1>5, <1>8, <1>9, <1>11
<1>13. T \in [1..k -> X]
  BY Zenon, <1>9, <1>12
<1>14. T = SubSeq(S, 1, k)
  BY ONLY <1>4, <1>5, <1>11, <1>12, <1>13, StackPrefix
<1>15. Len(S) = n
  BY Zenon, <1>4, <1>11, AsSequence
<1>16. S[i].state = saved[i].view
  BY Zenon, <1>4, <1>8
<1>17. \E j \in 1..Len(CopyStack) : CopiedState' = CopyStack[j].state /\ CopyStack' = SubSeq(CopyStack, 1, j - 1)
  BY ZenonT(30), <1>2, <1>4, <1>5, <1>7, <1>14, <1>15, <1>16
<1>18. QED  BY ZenonT(30), <1>1, <1>2, <1>17 DEF Abstract!Revert

\* When RevertToSnapshot returns the journal has led to the copy.
LEMMA RevertReturns ==
  ASSUME Safe, RevertRestoresView, RevertDone
  PROVE  Abstract!Return
<1>0. RevertInv
  BY SafeIs
<1>1. /\ phase = "reverting" /\ phase' = "running" /\ nextRevisionID' = nextRevisionID
      /\ Len(journal) = validRevisions[target].journalIndex
      /\ UNCHANGED <<store, native, stateObjects, journal, dirties, refund, logs, nativeEvents,
                     transientStorage, accessList>>
  BY DEF RevertDone, journalVars, sideVars
<1>2. Reverting = TRUE /\ Reverting' = FALSE
  BY <1>1 DEF Reverting
<1>3. View' = View
  BY ZenonT(30), <1>1, ViewIs
<1>4. CopiedState' = CopiedState
  BY ZenonT(30), <1>1, <1>2, <1>3 DEF CopiedState, RevertRestoresView
<1>5. /\ TypeOK /\ validRevisions \in Seq(Revision) /\ Len(validRevisions) \in Nat
      /\ target \in 1..Len(validRevisions)
  BY ZenonT(30), <1>0, <1>1, InvJournal DEF RevertInv, TypeOK
<1>6. PICK k \in 0..Len(validRevisions) : k = target - 1
  BY <1>5
<1>7. validRevisions' = SubSeq(validRevisions, 1, k) /\ saved' = [i \in 1..k |-> saved[i]]
  BY <1>6 DEF RevertDone
<1>8. Len(validRevisions') = k /\ \A i \in 1..k : validRevisions'[i] = validRevisions[i]
  BY ZenonT(30), <1>5, <1>6, <1>7, PrefixOfSeq
<1>9. Copies = k /\ Copies' = k /\ \A i \in 1..k : saved'[i] = saved[i]
  BY ZenonT(30), <1>2, <1>6, <1>7, <1>8 DEF Copies
<1>10. CopyStack' = CopyStack
  BY ZenonT(30), <1>8, <1>9, SameStack
<1>11. QED  BY ZenonT(30), <1>1, <1>2, <1>4, <1>10 DEF Abstract!Return

\* StateDB implements the snapshots that vm.StateDB promises to the EVM, for
\* any accounts, keys, codes and committed state: Snapshot and
\* RevertToSnapshot act as if the whole state were copied and put back.
THEOREM JournalImplementsCopies == Spec => ImplementsRevertible
<1>1. Init => Abstract!Init
  <2>1. SUFFICES ASSUME Init
                 PROVE  CopyStack = <<>> /\ nextRevisionID = 0 /\ Reverting = FALSE
    BY DEF Abstract!Init
  <2>2. phase = "setup" /\ nextRevisionID = 0 /\ validRevisions = <<>>
    BY <2>1 DEF Init
  <2>3. Len(validRevisions) = 0
    BY <2>2
  <2>4. Reverting = FALSE /\ Copies = 0
    BY <2>2, <2>3 DEF Reverting, Copies
  <2>5. QED  BY <2>2, <2>4 DEF CopyStack
<1>2. RevertInv /\ RevertRestoresView /\ [Next]_vars => [Abstract!Next]_Abstract!vars
  <2>1. SUFFICES ASSUME RevertInv, RevertRestoresView, [Next]_vars
                 PROVE  Abstract!Next \/ UNCHANGED <<CopiedState, CopyStack, nextRevisionID, Reverting>>
    BY DEF Abstract!vars
  <2>2. CASE ObjectStep \/ BalanceStep \/ SideStep \/ CommitStep
    <3>1. ~ Reverting /\ ~ Reverting' /\ UNCHANGED <<validRevisions, nextRevisionID, saved>>
      BY ZenonT(30), <2>2, OtherSteps DEF revisionVars
    <3>2. Copies' = Copies /\ UNCHANGED Reverting
      BY <3>1 DEF Copies, Reverting
    <3>3. CopyStack' = CopyStack
      BY ZenonT(30), <3>1, <3>2, SameStack
    <3>4. QED  BY ZenonT(30), <3>1, <3>2, <3>3 DEF Abstract!Next, Abstract!Modify
  <2>3. CASE Snapshot
    BY ZenonT(30), <2>1, <2>3, SafeIs, SnapshotCopies DEF Abstract!Next
  <2>4. CASE \E revid \in 0..MaxRevisions : RevertToSnapshot(revid)
    BY ZenonT(30), <2>1, <2>4, SafeIs, RevertPutsBack DEF Abstract!Next
  <2>5. CASE RevertStep
    <3>1. phase = "reverting" /\ UNCHANGED <<validRevisions, nextRevisionID, saved, phase, target>>
      BY <2>5 DEF RevertStep, revisionVars, controlVars
    <3>2. UNCHANGED <<Reverting, Copies, CopiedState>>
      BY <3>1 DEF Reverting, Copies, CopiedState
    <3>3. QED  BY ZenonT(30), <3>1, <3>2, SameStack
  <2>6. CASE RevertDone
    BY ZenonT(30), <2>1, <2>6, SafeIs, RevertReturns DEF Abstract!Next
  <2>7. CASE UNCHANGED vars
    <3>1. UNCHANGED <<store, native, stateObjects, dirties, refund, logs, nativeEvents, transientStorage, accessList,
                      validRevisions, nextRevisionID, saved, phase, target>>
      BY <2>7 DEF vars
    <3>2. View' = View
      BY ZenonT(30), <3>1, ViewIs
    <3>3. UNCHANGED <<Reverting, Copies, CopiedState>>
      BY <3>1, <3>2 DEF Reverting, Copies, CopiedState
    <3>4. QED  BY ZenonT(30), <3>1, <3>3, SameStack
  <2>8. QED  BY ZenonT(30), <2>1, <2>2, <2>3, <2>4, <2>5, <2>6, <2>7 DEF Next, RevisionStep
<1>3. QED  BY <1>1, <1>2, Invariance, RevertRestores, PTL DEF Spec, ImplementsRevertible, Abstract!Spec

-----------------------------------------------------------------------------
(* What Commit writes, and which accounts a revert leaves *)

\* Snapshot saves that, and only RevertToSnapshot forgets it.
LEMMA KnownNext ==
  ASSUME Safe, Known, [Next]_vars
  PROVE  Known'
<1>1. CASE UNCHANGED <<validRevisions, saved>>
  BY Zenon, <1>1 DEF Known
<1>2. CASE Snapshot
  <2>1. PICK n \in Nat : n = Len(validRevisions)
    BY Zenon, InvJournal
  <2>2. PICK v : v = [view |-> View, exist |-> {a \in Addr : Exist(a)}]
    BY Zenon
  <2>3. PICK rev : rev = [id |-> nextRevisionID, journalIndex |-> Len(journal)]
    BY Zenon
  <2>4. validRevisions \in Seq(Revision) /\ rev \in Revision
    <3>1. TypeOK
      BY Zenon, SafeIs DEF RevertInv
    <3>2. validRevisions \in Seq(Revision) /\ nextRevisionID \in Nat /\ Len(journal) \in Nat
      BY <3>1 DEF TypeOK
    <3>3. QED  BY ONLY <2>3, <3>2 DEF Revision
  <2>5. validRevisions' = Append(validRevisions, rev) /\ saved' = [i \in 1..(n + 1) |-> IF i <= n THEN saved[i] ELSE v]
    BY ZenonT(30), <1>2, <2>1, <2>2, <2>3 DEF Snapshot
  <2>6. Len(validRevisions') = n + 1
    BY ONLY <2>1, <2>4, <2>5
  <2>7. v.exist \subseteq Addr
    BY Zenon, <2>2
  <2>8. \A r \in 1..(n + 1) : saved'[r] = v \/ (r \in 1..n /\ saved'[r] = saved[r])
    BY ONLY <2>1, <2>5
  <2>9. QED  BY ZenonT(30), <2>1, <2>6, <2>7, <2>8 DEF Known
<1>3. CASE RevertDone
  <2>1. validRevisions \in Seq(Revision) /\ Len(validRevisions) \in Nat /\ target \in 1..Len(validRevisions)
    BY ZenonT(30), <1>3, SafeIs, InvJournal DEF RevertDone, RevertInv, TypeOK
  <2>2. PICK k \in 0..Len(validRevisions) : k = target - 1
    BY ONLY <2>1
  <2>3. validRevisions' = SubSeq(validRevisions, 1, k) /\ saved' = [i \in 1..k |-> saved[i]]
    BY Zenon, <1>3, <2>2 DEF RevertDone
  <2>4. Len(validRevisions') = k
    BY ZenonT(30), <2>1, <2>3, PrefixOfSeq
  <2>5. \A r \in 1..k : r \in 1..Len(validRevisions) /\ saved'[r] = saved[r]
    BY ONLY <2>1, <2>2, <2>3
  <2>6. QED  BY Zenon, <2>4, <2>5 DEF Known
<1>4. CASE (\E revid \in 0..MaxRevisions : RevertToSnapshot(revid)) \/ RevertStep
  BY Zenon, <1>1, <1>4 DEF RevertToSnapshot, RevertStep, revisionVars
<1>5. CASE ObjectStep \/ BalanceStep \/ SideStep \/ CommitStep
  BY Zenon, <1>1, <1>5, OtherSteps DEF revisionVars
<1>6. CASE UNCHANGED vars
  BY Zenon, <1>1, <1>6 DEF vars
<1>7. QED  BY ZenonT(30), <1>2, <1>3, <1>4, <1>5, <1>6 DEF Next, RevisionStep

\* The inductive invariant of the two theorems below.  It says what objects
\* have loaded, which CommitPersistsView needs because Commit compares an
\* object with what it loaded, and which entries made an object that did not
\* exist at a revision, which RevertRestoresExist needs because loads leave
\* no entry.
THEOREM ObjectsAreTracked == Spec => [](Held /\ Known)
<1>1. Init => Held /\ Known
  <2>1. Init => Known
    BY DEF Init, Known
  <2>2. QED  BY ZenonT(30), <2>1, HeldInit
<1>2. RevertInv /\ Held /\ Known /\ [Next]_vars => Held' /\ Known'
  BY ZenonT(30), HeldNext, KnownNext, SafeIs
<1>3. QED  BY <1>1, <1>2, Invariance, PTL DEF Spec

\* RevertToSnapshot restores which accounts exist: none is lost, and one that
\* did not exist is live only if it was loaded from the branch.
THEOREM RevertRestoresAccounts == Spec => []RevertRestoresExist
<1>1. RevertInv /\ Held /\ Known /\ RevertRestoresView => RevertRestoresExist
  BY Zenon, ExistRestored, SafeIs
<1>2. QED  BY <1>1, Invariance, ObjectsAreTracked, RevertRestores, PTL

\* A successful Commit persists what the EVM last saw of every account: the
\* dirty ones are written, and the others are what the parent holds.
THEOREM CommitPersists == Spec => CommitPersistsView
<1>1. ASSUME RevertInv, Held, Commit
      PROVE  /\ store'.native.bal = native.bal
             /\ \A a \in Addr : PersistedAccount(a)
  <2>1. Safe /\ Unfinished /\ store' = StoreAfter(DirtyAddrs) /\ TypeOK
    BY Zenon, <1>1, SafeIs DEF Commit, Unfinished, RevertInv
  <2>2. store'.native.bal = native.bal
    <3>1. PICK f : store'.native = [native EXCEPT !.acct = f]
      BY Zenon, <2>1 DEF StoreAfter
    <3>2. native \in Native
      BY Zenon, <2>1 DEF TypeOK
    <3>3. QED  BY ONLY ZenonT(30), <3>1, <3>2 DEF Native
  <2>3. ASSUME NEW a \in Addr
        PROVE  PersistedAccount(a)
    <3>1. Persisted(store', a, Seen(a))
      <4>1. PICK s : s = store'
        BY Zenon
      <4>2. Persisted(s, a, Seen(a))
        BY ZenonT(30), <1>1, <2>1, <4>1, CleanPersisted, DirtyPersisted
      <4>3. QED  BY Zenon, <4>1, <4>2
    <3>2. QED  BY Zenon, <3>1, PersistedIs
  <2>4. QED  BY Zenon, <2>2, <2>3
<1>2. RevertInv /\ Held /\ Known /\ [Next]_vars =>
        [Commit => /\ store'.native.bal = native.bal
                   /\ \A a \in Addr : PersistedAccount(a)]_vars
  BY <1>1
<1>3. QED  BY <1>2, Invariance, ObjectsAreTracked, PTL DEF Spec, CommitPersistsView
=============================================================================
