---------------------------- MODULE StateDBSteps ----------------------------
(***************************************************************************)
(* The operations between Prepare and Commit, and Commit itself, keep      *)
(* RevertInv: those on state objects, for each of which undoing the        *)
(* entries that it appends leads back to the view before it, and then      *)
(* balance operations, precompiles, self-destruction, refund, logs,        *)
(* transient storage and access list, for which the same holds.            *)
(***************************************************************************)
EXTENDS StateDBViews

-----------------------------------------------------------------------------
(* Operations on state objects *)

\* Undoing an entry drops the dirty count it induced.
LEMMA DropBump ==
  ASSUME NEW d \in [Addr -> Nat], NEW e
  PROVE  Drop(Bump(d, e), e) = d /\ Bump(d, e) \in [Addr -> Nat]
BY DEF Drop, Bump

\* Objects that show the same, over the same rest, give the same view.
LEMMA SameViewOf ==
  ASSUME NEW objs, NEW objs2, NEW st,
         \A a \in Addr : SameShown(SeenIn(objs, st, a), SeenIn(objs2, st, a), st.stor[a]),
         NEW d, NEW n, NEW r, NEW l, NEW ev, NEW t, NEW al
  PROVE  ViewOf(objs, st, d, n, r, l, ev, t, al) = ViewOf(objs2, st, d, n, r, l, ev, t, al)
BY SameView DEF ViewOf

\* Replacing an object by one that shows the same.
LEMMA ReplaceSame ==
  ASSUME NEW objs \in [Addr -> StateObject \cup {Nil}], NEW st, NEW a \in Addr, NEW o, NEW objs2,
         Replaces(objs2, objs, a, o),
         SameShown(Reloaded(o, st, a), SeenIn(objs, st, a), st.stor[a]),
         NEW d, NEW n, NEW r, NEW l, NEW ev, NEW t, NEW al
  PROVE  ViewOf(objs2, st, d, n, r, l, ev, t, al) = ViewOf(objs, st, d, n, r, l, ev, t, al)
<1>1. ASSUME NEW b \in Addr
      PROVE  SameShown(SeenIn(objs2, st, b), SeenIn(objs, st, b), st.stor[b])
  <2>1. CASE b = a
    <3>1. SeenIn(objs2, st, b) = Reloaded(o, st, a)
      BY <2>1 DEF Replaces, Reloaded, SeenIn
    <3>2. QED  BY <2>1, <3>1
  <2>2. CASE b # a
    <3>1. SeenIn(objs2, st, b) = SeenIn(objs, st, b)
      BY <2>2 DEF Replaces, SeenIn
    <3>2. QED  BY <3>1 DEF SameShown
  <2>3. QED  BY <2>1, <2>2
<1>2. QED  BY ONLY <1>1, SameViewOf, SMTT(60), Z3T(60)

\* Undoing the creation of an object of which only the creation is left.
LEMMA UndoCreate ==
  ASSUME NEW objs \in [Addr -> StateObject \cup {Nil}], NEW st \in Store, NEW a \in Addr, objs[a] = Nil,
         NEW e, e = [op |-> "createObject", account |-> a],
         NEW d \in [Addr -> Nat], NEW n, NEW r, NEW l, NEW ev, NEW t, NEW al
  PROVE  UndoView(e, ViewOf(objs, st, Bump(d, e), n, r, l, ev, t, al), st) =
         ViewOf(objs, st, d, n, r, l, ev, t, al)
<1>1. PICK o : o = NewObject(GetAccount(st.native, a))
  OBVIOUS
<1>2. o \in StateObject /\ o # Nil
  BY <1>1, GetAccountType, NewObjectType DEF Store
<1>3. PICK objs2 : Replaces(objs2, objs, a, o)
  BY ZenonT(60) DEF Replaces
<1>4. SameShown(Reloaded(o, st, a), SeenIn(objs, st, a), st.stor[a])
  BY <1>1, <1>2 DEF Reloaded, SeenIn, SameShown
<1>5. ViewOf(objs2, st, Bump(d, e), n, r, l, ev, t, al) = ViewOf(objs, st, Bump(d, e), n, r, l, ev, t, al)
  BY ONLY objs \in [Addr -> StateObject \cup {Nil}], a \in Addr, <1>3, <1>4, ReplaceSame, SMTT(60), Z3T(60)
<1>6. objs2 \in [Addr -> StateObject \cup {Nil}] /\ objs2[a] # Nil
  BY <1>2, <1>3 DEF Replaces
<1>7. e \in Entry /\ e.op \in ObjectOps /\ e.account = a
  BY DEF Entry, ObjectOps
<1>8. Replaces(objs, objs2, a, RevertedObject(e, objs2[a]))
  BY ZenonT(60), <1>3, <1>6 DEF RevertedObject, Replaces
<1>9. UndoView(e, ViewOf(objs2, st, Bump(d, e), n, r, l, ev, t, al), st) =
      ViewOf(objs, st, Drop(Bump(d, e), e), n, r, l, ev, t, al)
  BY ONLY st \in Store, <1>6, <1>7, <1>8, UndoObject, SMTT(60), Z3T(60)
<1>10. QED  BY <1>5, <1>9, DropBump

\* Undoing an entry gives the view back in which the object showed what it
\* shows once it is reverted.
LEMMA UndoPut ==
  ASSUME NEW objs \in [Addr -> StateObject \cup {Nil}], NEW st \in Store, NEW a \in Addr,
         NEW o \in StateObject, NEW objs2, Replaces(objs2, objs, a, o),
         NEW e \in Entry, e.op \in ObjectOps, e.account = a, RevertedObject(e, o) # Nil,
         SameShown(RevertedObject(e, o), SeenIn(objs, st, a), st.stor[a]),
         NEW d \in [Addr -> Nat], NEW n, NEW r, NEW l, NEW ev, NEW t, NEW al
  PROVE  UndoView(e, ViewOf(objs2, st, Bump(d, e), n, r, l, ev, t, al), st) =
         ViewOf(objs, st, d, n, r, l, ev, t, al)
<1>1. /\ objs2 \in [Addr -> StateObject \cup {Nil}]
      /\ objs2[e.account] # Nil /\ objs2[e.account] = o
  BY ConstantsAssumption DEF Replaces
<1>2. PICK objs3 : Replaces(objs3, objs2, a, RevertedObject(e, o))
  BY ZenonT(60) DEF Replaces
<1>3. Replaces(objs3, objs2, e.account, RevertedObject(e, objs2[e.account]))
  BY <1>1, <1>2
<1>4. UndoView(e, ViewOf(objs2, st, Bump(d, e), n, r, l, ev, t, al), st) =
      ViewOf(objs3, st, Drop(Bump(d, e), e), n, r, l, ev, t, al)
  BY ONLY st \in Store, e \in Entry, e.op \in ObjectOps, <1>1, <1>3, UndoObject, SMTT(60), Z3T(60)
<1>5. Replaces(objs3, objs, a, RevertedObject(e, o))
  BY ZenonT(60), <1>2 DEF Replaces
<1>6. Reloaded(RevertedObject(e, o), st, a) = RevertedObject(e, o)
  BY DEF Reloaded
<1>7. SameShown(Reloaded(RevertedObject(e, o), st, a), SeenIn(objs, st, a), st.stor[a])
  BY <1>6
<1>8. ViewOf(objs3, st, d, n, r, l, ev, t, al) = ViewOf(objs, st, d, n, r, l, ev, t, al)
  BY ONLY objs \in [Addr -> StateObject \cup {Nil}], a \in Addr, <1>5, <1>7, ReplaceSame, SMTT(60), Z3T(60)
<1>9. QED  BY <1>4, <1>8, DropBump

\* The same for the object of a as it stands, whatever the counters d of the dirty set are.
LEMMA UndoPutNow ==
  ASSUME stateObjects \in [Addr -> StateObject \cup {Nil}], store \in Store, NEW a \in Addr,
         NEW o \in StateObject, Replaces(stateObjects', stateObjects, a, o),
         NEW e \in Entry, e.op \in ObjectOps, e.account = a, RevertedObject(e, o) # Nil,
         SameShown(RevertedObject(e, o), SeenIn(stateObjects, store, a), store.stor[a]),
         NEW d \in [Addr -> Nat]
  PROVE  UndoView(e, ViewOf(stateObjects', store, Bump(d, e), native, refund, logs, nativeEvents,
                            transientStorage, accessList), store)
         = ViewOf(stateObjects, store, d, native, refund, logs, nativeEvents, transientStorage, accessList)
BY UndoPut, SMTT(90), Z3T(90)

\* A step that replaces the object of a, and changes nothing else but the journal and err.
Puts(a, o) ==
  /\ phase \in {"setup", "running"}
  /\ o \in StateObject
  /\ stateObjects' = [stateObjects EXCEPT ![a] = o]
  /\ err' \in BOOLEAN \cup {err}
  /\ UNCHANGED <<store, native, revisionVars, sideVars, controlVars>>

\* What such a step leaves in order.
LEMMA PutsData ==
  ASSUME Safe, NEW a \in Addr, NEW o, Puts(a, o)
  PROVE  /\ UNCHANGED Control /\ DataOK' /\ Unfinished
         /\ o # Nil /\ stateObjects'[a] = o
         /\ Replaces(stateObjects', stateObjects, a, o)
         /\ stateObjects \in [Addr -> StateObject \cup {Nil}]
         /\ stateObjects' \in [Addr -> StateObject \cup {Nil}]
         /\ \A b \in Addr : stateObjects[b] # Nil => stateObjects'[b] # Nil
         /\ store \in Store /\ dirties \in [Addr -> Nat]
         /\ \A d : ViewOf(stateObjects', store', d, native', refund', logs', nativeEvents',
                            transientStorage', accessList') =
                     ViewOf(stateObjects', store, d, native, refund, logs, nativeEvents,
                            transientStorage, accessList)
<1>0. RevertInv
  BY SafeIs
<1> USE <1>0
<1>1. Unfinished
  BY DEF Puts, Unfinished
<1>2. UNCHANGED Control
  BY DEF Puts, Control, revisionVars, controlVars
<1>3. DataOK /\ TypeOK
  BY <1>1, InvData DEF RevertInv
<1>4. UNCHANGED <<store, native, refund, logs, nativeEvents, transientStorage, accessList>>
  BY Zenon DEF Puts, sideVars
<1>5. stateObjects' \in [Addr -> StateObject \cup {Nil}] /\ stateObjects'[a] = o /\ o # Nil
  BY Zenon, <1>3, ConstantsAssumption DEF DataOK, Puts
<1>6. DataOK'
  BY Zenon, <1>3, <1>4, <1>5 DEF DataOK, Puts
<1>7. \A b \in Addr : stateObjects[b] # Nil => stateObjects'[b] # Nil
  BY Zenon, <1>3, <1>5 DEF DataOK, Puts
<1>8. Replaces(stateObjects', stateObjects, a, o)
  BY DEF Puts, Replaces
<1>9. QED  BY ZenonT(30), <1>1, <1>2, <1>3, <1>4, <1>5, <1>6, <1>7, <1>8 DEF DataOK, TypeOK

\* What an account that is not dirty shows after it was replaced.
LEMMA PutsClean ==
  ASSUME Safe, NEW a \in Addr, NEW o, Puts(a, o), dirties' = dirties,
         dirties[a] = 0 => /\ o.nonce = View.nonce[a] /\ o.code = View.code[a] /\ o.selfDestructed = FALSE
                           /\ HasOverride(o) \/ ShownSlots(o, store.stor[a]) = store.stor[a]
  PROVE  CleanView(View', store)
<1>1. CleanView(View, store) /\ store' = store /\ View.dirties = dirties /\ View'.dirties = dirties
  BY Zenon, PutsData, InvData DEF Puts, View
<1>2. ASSUME NEW b \in Addr, b # a
      PROVE  /\ View'.nonce[b] = View.nonce[b] /\ View'.code[b] = View.code[b]
             /\ View'.destructed[b] = View.destructed[b] /\ View'.overridden[b] = View.overridden[b]
             /\ View'.stor[b] = View.stor[b]
  <2>1. Seen(b)' = Seen(b)
    <3>1. stateObjects'[b] = stateObjects[b]
      BY Zenon, <1>2, PutsData DEF Replaces
    <3>2. QED  BY Zenon, <1>1, <3>1 DEF Seen
  <2>2. QED
    BY Zenon, <1>1, <1>2, <2>1 DEF View, ViewNonce, ViewCode, ViewStor, ViewDestructed, ViewOverridden
<1>3. /\ View'.nonce[a] = o.nonce /\ View'.code[a] = o.code /\ View'.destructed[a] = o.selfDestructed
      /\ View'.overridden[a] = HasOverride(o) /\ View'.stor[a] = ShownSlots(o, store.stor[a])
  <2>1. Seen(a)' = o
    BY Zenon, PutsData DEF Seen
  <2>2. QED
    BY Zenon, <1>1, <2>1
       DEF View, ViewNonce, ViewCode, ViewStor, ViewDestructed, ViewOverridden, ShownSlots, HasOverride
<1>4. ASSUME NEW b \in Addr, dirties[b] = 0
      PROVE  CleanAt(View', store, b)
  <2>1. CleanAt(View, store, b)
    BY Zenon, <1>1, <1>4 DEF CleanView
  <2>2. CASE b = a
    BY Zenon, <1>3, <1>4, <2>1, <2>2 DEF CleanAt
  <2>3. CASE b # a
    BY Zenon, <1>2, <2>1, <2>3 DEF CleanAt
  <2>4. QED  BY <2>2, <2>3
<1>5. QED  BY Zenon, <1>1, <1>4 DEF CleanView

\* An object is replaced by one that shows the same.
LEMMA ObjectLoads ==
  ASSUME Safe, NEW a \in Addr, NEW o, Puts(a, o), UNCHANGED journalVars,
         SameShown(o, Seen(a), store.stor[a])
  PROVE  Safe'
<1>0. RevertInv
  BY Zenon, SafeIs
<1> USE <1>0
<1>1. Reloaded(o, store, a) = o /\ SeenIn(stateObjects, store, a) = Seen(a)
  BY PutsData DEF Reloaded, SeenIn, Seen
<1>2. UNCHANGED <<journal, dirties>>
  BY DEF journalVars
<1>3. View' = View
  <2>1. View' = ViewOf(stateObjects', store, dirties, native, refund, logs, nativeEvents,
                       transientStorage, accessList)
    BY Zenon, <1>2, ViewIs, PutsData
  <2>2. /\ Replaces(stateObjects', stateObjects, a, o)
        /\ stateObjects \in [Addr -> StateObject \cup {Nil}]
    BY PutsData
  <2>3. SameShown(Reloaded(o, store, a), SeenIn(stateObjects, store, a), store.stor[a])
    BY Zenon, <1>1
  <2>4. ViewOf(stateObjects', store, dirties, native, refund, logs, nativeEvents, transientStorage, accessList)
        = ViewOf(stateObjects, store, dirties, native, refund, logs, nativeEvents, transientStorage, accessList)
    BY ONLY a \in Addr, <2>2, <2>3, ReplaceSame, SMTT(60), Z3T(60)
  <2>5. QED  BY Zenon, <2>1, <2>4, ViewIs
<1>4. QED  BY ZenonT(60), <1>2, <1>3, PutsData, StepStays DEF Puts

\* An object is created where none was.
LEMMA ObjectCreates ==
  ASSUME Safe, NEW a \in Addr, NEW o, Puts(a, o), stateObjects[a] = Nil,
         Append1([op |-> "createObject", account |-> a])
  PROVE  Safe'
<1>0. RevertInv
  BY SafeIs
<1> USE <1>0
<1>1. PICK e : e = [op |-> "createObject", account |-> a]
  OBVIOUS
<1>2. e \in Entry /\ e.op = "createObject" /\ e.op # "resetObject" /\ e.op \in ObjectOps /\ e.account = a
  BY <1>1 DEF Entry, ObjectOps
<1>3. journal' = Append(journal, e) /\ dirties' = Bump(dirties, e)
  BY <1>1 DEF Append1
<1>4. Replaces(stateObjects, stateObjects', e.account, RevertedObject(e, stateObjects'[e.account]))
  BY <1>2, PutsData DEF RevertedObject, Replaces
<1>5. UndoView(e, View', store) = View
  <2>1. View' = ViewOf(stateObjects', store, dirties', native, refund, logs, nativeEvents,
                       transientStorage, accessList)
    BY ZenonT(30), ViewIs, PutsData
  <2>2. UndoView(e, View', store) =
          ViewOf(stateObjects, store, Drop(dirties', e), native, refund, logs, nativeEvents,
                 transientStorage, accessList)
    BY <1>2, <1>4, <2>1, PutsData, UndoObject, SMTT(60), Z3T(60)
  <2>3. QED  BY Zenon, <1>3, <2>2, ViewIs, PutsData, DropBump
<1>6. QED  BY ZenonT(60), <1>2, <1>3, <1>5, PutsData, StepAppends DEF Puts

\* An object is changed, after it was created if there was none.
LEMMA ObjectAppends ==
  ASSUME Safe, NEW a \in Addr, NEW o, Puts(a, o), NEW e \in Entry,
         e.op \in ObjectOps, e.op # "createObject", e.account = a,
         RevertedObject(e, o) # Nil, SameShown(RevertedObject(e, o), Seen(a), store.stor[a]),
         e.op = "resetObject" => Exist(a) /\ CleanView(View', store),
         AppendAfterGetOrNew(a, e)
  PROVE  Safe'
<1>0. RevertInv
  BY Zenon, SafeIs
<1> USE <1>0
<1>1. SeenIn(stateObjects, store, a) = Seen(a)
  BY Zenon DEF SeenIn, Seen
<1>2. ASSUME NEW d \in [Addr -> Nat], dirties' = Bump(d, e)
      PROVE  UndoView(e, View', store) = ViewOf(stateObjects, store, d, native, refund, logs,
                                                nativeEvents, transientStorage, accessList)
  <2>1. View' = ViewOf(stateObjects', store, Bump(d, e), native, refund, logs, nativeEvents,
                       transientStorage, accessList)
    BY <1>2, ViewIs, PutsData
  <2>2. /\ stateObjects \in [Addr -> StateObject \cup {Nil}] /\ store \in Store /\ o \in StateObject
        /\ Replaces(stateObjects', stateObjects, a, o)
    BY ZenonT(60), PutsData DEF Puts
  <2>3. SameShown(RevertedObject(e, o), SeenIn(stateObjects, store, a), store.stor[a])
    BY Zenon, <1>1
  <2>4. UndoView(e, ViewOf(stateObjects', store, Bump(d, e), native, refund, logs, nativeEvents,
                           transientStorage, accessList), store)
        = ViewOf(stateObjects, store, d, native, refund, logs, nativeEvents, transientStorage, accessList)
    BY Zenon, <2>2, <2>3, UndoPutNow
  <2>5. QED  BY ZenonT(30), <2>1, <2>4
<1>3. CASE Exist(a)
  <2>1. journal' = Append(journal, e) /\ dirties' = Bump(dirties, e)
    BY ZenonT(30), <1>3 DEF AppendAfterGetOrNew, Append1
  <2>2. UndoView(e, View', store) = View
    BY <1>2, <2>1, ViewIs, PutsData
  <2>3. QED  BY ZenonT(60), <2>1, <2>2, PutsData, StepAppends DEF Puts
<1>4. CASE ~ Exist(a)
  <2>1. PICK c : c = [op |-> "createObject", account |-> a]
    BY ZenonT(60)
  <2>2. journal' = Append(Append(journal, c), e) /\ dirties' = Bump(Bump(dirties, c), e)
    BY Zenon, <1>4, <2>1 DEF AppendAfterGetOrNew, Append2
  <2>3. stateObjects[a] = Nil
    BY Zenon, <1>4 DEF Exist, GetStateObject
  <2>4. c \in Entry /\ c.op \in ObjectOps /\ c.account = a /\ c.op # "resetObject" /\ e.op # "resetObject"
    BY Zenon, <1>4, <2>1 DEF Entry, ObjectOps
  <2>5. PICK W : W = ViewOf(stateObjects, store, Bump(dirties, c), native, refund, logs,
                            nativeEvents, transientStorage, accessList)
    BY ZenonT(30)
  <2>6. UndoView(e, View', store) = W
    BY Zenon, <1>2, <2>2, <2>5, PutsData, DropBump
  <2>7. UndoView(c, W, store) = View
    <3>1. stateObjects \in [Addr -> StateObject \cup {Nil}] /\ store \in Store /\ dirties \in [Addr -> Nat]
      BY PutsData
    <3>2. UndoView(c, ViewOf(stateObjects, store, Bump(dirties, c), native, refund, logs,
                             nativeEvents, transientStorage, accessList), store)
          = ViewOf(stateObjects, store, dirties, native, refund, logs,
                   nativeEvents, transientStorage, accessList)
      BY ONLY SMTT(30), Z3T(30), a \in Addr, <2>1, <2>3, <3>1, UndoCreate
    <3>3. UndoView(c, W, store) = ViewOf(stateObjects, store, dirties, native, refund, logs,
                                         nativeEvents, transientStorage, accessList)
      BY ONLY <2>5, <3>2, Zenon
    <3>4. QED  BY Zenon, <3>3, ViewIs
  <2>8. GoodView(W, store)
    <3>1. GoodView(View, store) /\ Bump(dirties, c) \in [Addr -> Nat]
      BY SMTT(30), Z3T(30), PutsData, InvData, DropBump
    <3>2. QED  BY Zenon, <2>5, <3>1 DEF GoodView, ViewOf, View
  <2>9. PerAddress(W)
    BY Zenon, <2>5, ViewOfPerAddress
  <2>10. QED  BY ZenonT(60), <2>2, <2>3, <2>4, <2>6, <2>7, <2>8, <2>9, PutsData, StepAppendsTwo DEF Puts
<1>5. QED  BY Zenon, <1>3, <1>4

\* Touch keeps the invariant.
LEMMA TouchInv ==
  ASSUME Safe, NEW a \in Addr, Touch(a)
  PROVE  Safe'
<1>0. RevertInv
  BY Zenon, SafeIs
<1> USE <1>0
<1>1. Unfinished /\ phase \in {"setup", "running"} /\ Exist(a)
  BY DEF Touch, Unfinished
<1>2. PICK o : o = GetStateObject(a)
  BY Zenon
<1>3. o \in StateObject /\ SameShown(o, Seen(a), store.stor[a])
  BY <1>1, <1>2, ObjectFacts
<1>4. Puts(a, o) /\ UNCHANGED journalVars
  BY <1>1, <1>2, <1>3 DEF Touch, Puts, journalVars
<1>5. QED  BY Zenon, <1>3, <1>4, ObjectLoads

\* Showing the same is transitive.
LEMMA SameShownTrans ==
  ASSUME NEW o, NEW p, NEW q, NEW slots, SameShown(o, p, slots), SameShown(p, q, slots)
  PROVE  SameShown(o, q, slots)
BY DEF SameShown

\* GetState keeps the invariant.
LEMMA GetStateInv ==
  ASSUME Safe, NEW a \in Addr, NEW k \in Key, GetState(a, k)
  PROVE  Safe'
<1>0. RevertInv
  BY SafeIs
<1> USE <1>0
<1>1. Unfinished /\ phase \in {"setup", "running"} /\ Exist(a)
  BY DEF GetState, Unfinished
<1>2. PICK p : p = GetStateObject(a)
  OBVIOUS
<1>3. PICK o : o = Cached(p, store.stor[a], k)
  BY Zenon
<1>4. p \in StateObject /\ SameShown(p, Seen(a), store.stor[a]) /\ store.stor[a] \in [Key -> Val]
  BY Zenon, <1>1, <1>2, ObjectFacts
<1>5. o \in StateObject /\ SameShown(o, Seen(a), store.stor[a])
  BY Zenon, <1>3, <1>4, CachedShown, SameShownTrans
<1>6. Puts(a, o) /\ UNCHANGED journalVars
  BY <1>1, <1>2, <1>3, <1>5 DEF GetState, Puts, journalVars
<1>7. QED  BY <1>5, <1>6, ObjectLoads

\* CreateAccount keeps the invariant.
LEMMA CreateAccountInv ==
  ASSUME Safe, NEW a \in Addr, CreateAccount(a)
  PROVE  Safe'
<1>0. RevertInv
  BY SafeIs
<1> USE <1>0
<1>1. Unfinished /\ phase \in {"setup", "running"}
  BY DEF CreateAccount, Running, Unfinished
<1>2. PICK o : o = NewObject(Nil)
  OBVIOUS
<1>3. o \in StateObject
  BY Zenon, <1>2, NewObjectType
<1>4. Puts(a, o)
  BY Zenon, <1>1, <1>2, <1>3 DEF CreateAccount, Puts
<1>5. CASE Exist(a)
  <2>1. PICK p : p = GetStateObject(a)
    OBVIOUS
  <2>2. p \in StateObject /\ p # Nil /\ SameShown(p, Seen(a), store.stor[a])
    BY <1>1, <1>5, <2>1, ObjectFacts
  <2>3. PICK e : e = [op |-> "resetObject", account |-> a, prev |-> p]
    BY ZenonT(60)
  <2>4. e \in Entry /\ e.op = "resetObject" /\ e.op \in ObjectOps /\ e.op # "createObject" /\ e.account = a
    BY ZenonT(30), <2>2, <2>3 DEF Entry, ObjectOps
  <2>5. RevertedObject(e, o) = p
    BY Zenon, <2>3 DEF RevertedObject
  <2>6. AppendAfterGetOrNew(a, e)
    BY ZenonT(30), <1>5, <2>1, <2>3 DEF CreateAccount, AppendAfterGetOrNew
  <2>7. CleanView(View', store)
    <3>1. dirties' = dirties
      <4>1. dirties' = Bump(dirties, e) /\ dirties \in [Addr -> Nat]
        BY Zenon, <1>5, <2>6, InvJournal DEF AppendAfterGetOrNew, Append1
      <4>2. QED  BY Zenon, <2>4, <4>1 DEF Bump, Dirtied
    <3>2. /\ o.nonce = 0 /\ o.code = NoCode /\ o.selfDestructed = FALSE
          /\ ShownSlots(o, store.stor[a]) = store.stor[a]
      <4>1. o.nonce = 0 /\ o.code = NoCode /\ o.selfDestructed = FALSE
        BY Zenon, <1>2 DEF NewObject
      <4>2. \A k \in Key : Current(o, store.stor[a], k) = store.stor[a][k]
        BY Zenon, <1>2, NewObjectType
      <4>3. QED  BY Zenon, <1>1, <4>1, <4>2, ObjectFacts DEF ShownSlots
    <3>3. o.nonce = View.nonce[a] /\ o.code = View.code[a]
      BY Zenon, <3>2 DEF CreateAccount, MayCreate, View
    <3>4. QED  BY Zenon, <1>4, <3>1, <3>2, <3>3, PutsClean
  <2>8. QED  BY Zenon, <1>4, <1>5, <2>2, <2>4, <2>5, <2>6, <2>7, ObjectAppends
<1>6. CASE ~ Exist(a)
  <2>1. stateObjects[a] = Nil
    BY Zenon, <1>1, <1>6, ObjectFacts
  <2>2. Append1([op |-> "createObject", account |-> a])
    BY ZenonT(30), <1>6 DEF CreateAccount
  <2>3. QED  BY Zenon, <1>4, <2>1, <2>2, ObjectCreates
<1>7. QED  BY Zenon, <1>5, <1>6

\* CreateContract keeps the invariant.
LEMMA CreateContractInv ==
  ASSUME Safe, NEW a \in Addr, CreateContract(a)
  PROVE  Safe'
<1>0. RevertInv
  BY SafeIs
<1> USE <1>0
<1>1. Unfinished /\ phase \in {"setup", "running"} /\ Exist(a)
  BY Zenon DEF CreateContract, Running, Unfinished
<1>2. PICK p : p = GetStateObject(a)
  OBVIOUS
<1>3. p \in StateObject /\ p # Nil /\ SameShown(p, Seen(a), store.stor[a])
  BY <1>1, <1>2, ObjectFacts
<1>4. PICK o : o = [p EXCEPT !.newContract = TRUE]
  BY ZenonT(60)
<1>5. o \in StateObject
  BY ZenonT(60), <1>3, <1>4 DEF StateObject
<1>6. PICK e : e = [op |-> "createContract", account |-> a]
  BY ZenonT(60)
<1>7. e \in Entry /\ e.op \in ObjectOps /\ e.op # "createObject" /\ e.op # "resetObject" /\ e.account = a
  BY <1>6 DEF Entry, ObjectOps
<1>8. RevertedObject(e, o) = p
  <2>1. p.newContract = FALSE
    BY <1>2, <1>3 DEF CreateContract, StateObject
  <2>2. QED  BY ZenonT(60), <1>3, <1>4, <1>6, <2>1 DEF RevertedObject, StateObject
<1>9. Puts(a, o) /\ AppendAfterGetOrNew(a, e)
  BY ZenonT(30), <1>1, <1>2, <1>4, <1>5, <1>6 DEF CreateContract, Puts, AppendAfterGetOrNew
<1>10. QED  BY ZenonT(30), <1>3, <1>7, <1>8, <1>9, ObjectAppends

\* SetNonce keeps the invariant.
LEMMA SetNonceInv ==
  ASSUME Safe, NEW a \in Addr, NEW n \in 0..MaxNonce, SetNonce(a, n)
  PROVE  Safe'
<1>0. RevertInv
  BY SafeIs
<1> USE <1>0
<1>1. Unfinished /\ phase \in {"setup", "running"}
  BY DEF SetNonce, Running, Overriding, Unfinished
<1>2. PICK p : p = GetOrNew(a)
  BY Zenon
<1>3. p \in StateObject /\ p # Nil /\ SameShown(p, Seen(a), store.stor[a])
  BY <1>1, <1>2, ObjectFacts
<1>4. PICK o : o = [p EXCEPT !.nonce = n]
  BY ZenonT(60)
<1>5. o \in StateObject
  BY <1>3, <1>4 DEF StateObject
<1>6. PICK e : e = [op |-> "nonce", account |-> a, prev |-> p.nonce]
  BY ZenonT(60)
<1>7. e \in Entry /\ e.op \in ObjectOps /\ e.op # "createObject" /\ e.op # "resetObject" /\ e.account = a
  BY <1>3, <1>6 DEF Entry, ObjectOps, StateObject
<1>8. RevertedObject(e, o) = p
  BY ZenonT(60), <1>3, <1>4, <1>6 DEF RevertedObject, StateObject
<1>9. Puts(a, o) /\ AppendAfterGetOrNew(a, e)
  BY Zenon, <1>1, <1>2, <1>4, <1>5, <1>6 DEF SetNonce, Puts
<1>10. QED  BY <1>3, <1>7, <1>8, <1>9, ObjectAppends

\* SetCode keeps the invariant.
LEMMA SetCodeInv ==
  ASSUME Safe, NEW a \in Addr, NEW c \in Code, SetCode(a, c)
  PROVE  Safe'
<1>0. RevertInv
  BY SafeIs
<1> USE <1>0
<1>1. Unfinished /\ phase \in {"setup", "running"}
  BY SMTT(30), Z3T(30) DEF SetCode, Running, Overriding, Unfinished
<1>2. PICK p : p = GetOrNew(a)
  OBVIOUS
<1>3. p \in StateObject /\ p # Nil /\ SameShown(p, Seen(a), store.stor[a])
  BY Zenon, <1>1, <1>2, ObjectFacts
<1>4. PICK o : o = [p EXCEPT !.code = c]
  BY ZenonT(60)
<1>5. o \in StateObject
  BY <1>3, <1>4 DEF StateObject
<1>6. PICK e : e = [op |-> "code", account |-> a, prevhash |-> p.code]
  BY ZenonT(60)
<1>7. e \in Entry /\ e.op \in ObjectOps /\ e.op # "createObject" /\ e.op # "resetObject" /\ e.account = a
  BY Zenon, <1>3, <1>6 DEF Entry, ObjectOps, StateObject
<1>8. RevertedObject(e, o) = p
  BY ZenonT(60), <1>3, <1>4, <1>6 DEF RevertedObject, StateObject
<1>9. Puts(a, o) /\ AppendAfterGetOrNew(a, e)
  BY <1>1, <1>2, <1>4, <1>5, <1>6 DEF SetCode, Puts
<1>10. QED  BY ZenonT(30), <1>3, <1>7, <1>8, <1>9, ObjectAppends

\* SetState keeps the invariant.
LEMMA SetStateInv ==
  ASSUME Safe, NEW a \in Addr, NEW k \in Key, NEW v \in Val, SetState(a, k, v)
  PROVE  Safe'
<1>0. RevertInv
  BY SafeIs
<1> USE <1>0
<1>1. Unfinished /\ phase \in {"setup", "running"}
  BY DEF SetState, Running, Overriding, Unfinished
<1>2. PICK p : p = GetOrNew(a)
  OBVIOUS
<1>3. PICK obj : obj = Cached(p, store.stor[a], k)
  OBVIOUS
<1>4. PICK prev : prev = Current(p, store.stor[a], k)
  BY Zenon
<1>5. /\ p \in StateObject /\ SameShown(p, Seen(a), store.stor[a]) /\ store.stor[a] \in [Key -> Val]
      /\ ~ Exist(a) => stateObjects[a] = Nil
  BY Zenon, <1>1, <1>2, ObjectFacts
<1>6. obj \in StateObject /\ SameShown(obj, p, store.stor[a]) /\ prev \in Val
  BY Zenon, <1>3, <1>4, <1>5, CachedShown
<1>7. SameShown(obj, Seen(a), store.stor[a])
  BY Zenon, <1>5, <1>6, SameShownTrans
<1>8. CASE prev = v
  <2>1. Puts(a, obj)
    BY Zenon, <1>1, <1>2, <1>3, <1>4, <1>6, <1>8 DEF SetState, Puts
  <2>2. IF Exist(a) THEN UNCHANGED journalVars ELSE Append1([op |-> "createObject", account |-> a])
    BY Zenon, <1>2, <1>4, <1>8 DEF SetState
  <2>3. QED  BY ZenonT(30), <1>5, <1>7, <2>1, <2>2, ObjectLoads, ObjectCreates
<1>9. CASE prev # v
  <2>1. PICK o : o = [obj EXCEPT !.dirty[k] = v]
    BY ZenonT(60)
  <2>2. o \in StateObject
    BY <1>6, <2>1 DEF StateObject
  <2>3. PICK e : e = [op |-> "storage", account |-> a, key |-> k, prevalue |-> prev]
    BY ZenonT(60)
  <2>4. e \in Entry /\ e.op \in ObjectOps /\ e.op # "createObject" /\ e.op # "resetObject" /\ e.account = a
    BY Zenon, <1>6, <2>3 DEF Entry, ObjectOps
  <2>5. Puts(a, o) /\ AppendAfterGetOrNew(a, e)
    BY ZenonT(30), <1>1, <1>2, <1>3, <1>4, <1>9, <2>1, <2>2, <2>3 DEF SetState, Puts
  <2>6. PICK q : q = RevertedObject(e, o)
    OBVIOUS
  <2>7. q = [obj EXCEPT !.dirty[k] = prev]
    BY ZenonT(60), <1>6, <2>1, <2>3, <2>6 DEF RevertedObject, StateObject
  <2>8. q \in StateObject /\ q # Nil
    BY ONLY <1>6, <2>7, ConstantsAssumption DEF StateObject
  <2>9. Current(obj, store.stor[a], k) = prev
    BY Zenon, <1>4, <1>6 DEF SameShown
  <2>10. SameShown(q, obj, store.stor[a])
    <3>1. /\ q.nonce = obj.nonce /\ q.code = obj.code /\ q.origin = obj.origin
          /\ q.override = obj.override /\ q.selfDestructed = obj.selfDestructed
          /\ q.newContract = obj.newContract /\ q.dirty = [obj.dirty EXCEPT ![k] = prev]
      BY <1>6, <2>7 DEF StateObject
    <3>2. \A h \in Key : Committed(q, store.stor[a], h) = Committed(obj, store.stor[a], h)
      BY <3>1 DEF Committed
    <3>3. obj.dirty \in [Key -> Val \cup {Nil}]
      BY Zenon, <1>6 DEF StateObject
    <3>4. \A h \in Key : Current(q, store.stor[a], h) = Current(obj, store.stor[a], h)
      BY ZenonT(30), <1>6, <2>9, <3>1, <3>2, <3>3, ConstantsAssumption DEF Current
    <3>5. QED  BY <3>1, <3>4 DEF SameShown, HasOverride
  <2>11. SameShown(q, Seen(a), store.stor[a])
    BY <1>7, <2>10, SameShownTrans
  <2>12. QED  BY Zenon, <2>4, <2>5, <2>6, <2>8, <2>11, ObjectAppends
<1>10. QED  BY <1>8, <1>9

\* Before Prepare there is no snapshot, so that any change is harmless.
LEMMA SetupStays ==
  ASSUME Safe, phase = "setup", NEW a \in Addr, NEW o, Puts(a, o),
         Bookkeeping(journal', dirties', stateObjects'), Len(journal') >= Len(journal),
         CleanView(View', store)
  PROVE  Safe'
<1>0. RevertInv
  BY Zenon, SafeIs
<1> USE <1>0
<1>1. validRevisions = <<>> /\ Len(validRevisions) = 0
  BY Zenon DEF RevertInv
<1>2. GoodView(View', store)
  BY ZenonT(30), PutsData, DataView DEF Bookkeeping, Control
<1>3. Rewindable(journal', View', store, validRevisions, saved, Len(validRevisions))
  BY <1>1, <1>2, ChainStarts DEF Bookkeeping
<1>4. QED  BY ZenonT(60), <1>3, PutsData, Reassemble DEF Puts

\* SetStorage is not journaled, but there is no snapshot it could be undone to.
LEMMA SetStorageInv ==
  ASSUME Safe, NEW a \in Addr, NEW storage \in [Key -> Val], SetStorage(a, storage)
  PROVE  Safe'
<1>0. RevertInv
  BY SafeIs
<1> USE <1>0
<1>1. Unfinished /\ phase = "setup" /\ phase \in {"setup", "running"}
  BY DEF SetStorage, Overriding, Unfinished
<1>2. PICK p : p = GetOrNew(a)
  BY Zenon
<1>3. p \in StateObject /\ (~ Exist(a) => stateObjects[a] = Nil)
  BY <1>1, <1>2, ObjectFacts
<1>4. PICK o : o = [p EXCEPT !.override = storage, !.origin = [k \in Key |-> Nil], !.dirty = [k \in Key |-> Nil]]
  OBVIOUS
<1>5. o \in StateObject
  BY ZenonT(60), <1>3, <1>4 DEF StateObject
<1>6. Puts(a, o) /\ IF Exist(a) THEN UNCHANGED journalVars ELSE Append1([op |-> "createObject", account |-> a])
  BY Zenon, <1>1, <1>2, <1>4, <1>5 DEF SetStorage, Puts
<1>7. CASE Exist(a)
  <2>1. UNCHANGED <<journal, dirties>>
    BY ZenonT(30), <1>6, <1>7 DEF journalVars
  <2>2. \A i \in 1..Len(journal) : journal[i].op \in ObjectOps => journal[i].account \in Addr
    BY SMTT(30), Z3T(30), EntryElim DEF RevertInv, Bookkeeping
  <2>3. \A b \in Addr : stateObjects[b] # Nil => stateObjects'[b] # Nil
    BY SMTT(30), Z3T(30), <1>6, PutsData
  <2>4. Bookkeeping(journal', dirties', stateObjects')
    BY Zenon, <2>1, <2>2, <2>3 DEF RevertInv, Bookkeeping
  <2>5. Len(journal') >= Len(journal)
    <3>1. Len(journal) \in Nat
      BY ONLY InvJournal
    <3>2. QED  BY <2>1, <3>1
  <2>6. CleanView(View', store)
    <3>1. o.nonce = p.nonce /\ o.code = p.code /\ o.selfDestructed = p.selfDestructed /\ HasOverride(o)
      <4>1. storage # Nil
        BY Zenon, ConstantsAssumption
      <4>2. QED  BY <1>3, <1>4, <4>1 DEF StateObject, HasOverride
    <3>2. /\ o.nonce = View.nonce[a] /\ o.code = View.code[a] /\ o.selfDestructed = View.destructed[a]
      BY Zenon, <1>1, <1>2, <3>1, ObjectFacts DEF SameShown, View, ViewNonce, ViewCode, ViewDestructed
    <3>3. dirties[a] = 0 => View.destructed[a] = FALSE
      BY Zenon, <1>1, InvData DEF CleanView, CleanAt, View
    <3>4. QED  BY Zenon, <1>6, <2>1, <3>1, <3>2, <3>3, PutsClean
  <2>7. QED  BY Zenon, <1>1, <1>6, <2>4, <2>5, <2>6, SetupStays
<1>8. CASE ~ Exist(a)
  <2>1. QED  BY <1>3, <1>6, <1>8, ObjectCreates
<1>9. QED  BY <1>7, <1>8
-----------------------------------------------------------------------------
(* Commit *)

\* What Commit writes is a committed state.
LEMMA StoreAfterType ==
  ASSUME Safe, NEW written \in SUBSET DirtyAddrs
  PROVE  StoreAfter(written) \in Store
<1>0. RevertInv
  BY SMTT(30), Z3T(30), SafeIs
<1> USE <1>0
<1>1. /\ store \in Store /\ native \in Native /\ stateObjects \in [Addr -> StateObject \cup {Nil}]
      /\ \A a \in Addr : dirties[a] # 0 => stateObjects[a] # Nil
  BY Zenon DEF RevertInv, TypeOK, Bookkeeping
<1>2. ASSUME NEW a \in written
      PROVE  a \in Addr /\ stateObjects[a] \in StateObject
  BY <1>1 DEF DirtyAddrs
<1>3. ASSUME NEW a \in written
      PROVE  CommittedAccount(a) \in AuthAccount \cup {Nil}
  <2>1. PICK o \in StateObject : o = stateObjects[a]
    BY <1>2
  <2>2. PICK acct \in AuthAccount \cup {Nil} : acct = native.acct[a]
    BY <1>1, <1>2 DEF Native
  <2>3. SetAccount(acct, o) \in AuthAccount
    <3>1. o.nonce \in Nat /\ o.code \in Code
      BY Zenon DEF StateObject
    <3>2. NewAccount \in AuthAccount
      BY ConstantsAssumption DEF NewAccount, AuthAccount
    <3>3. PICK base \in AuthAccount : base = IF acct = Nil THEN NewAccount ELSE acct
      BY <3>2
    <3>4. SetAccount(acct, o) = [base EXCEPT !.nonce = o.nonce,
                                             !.code = IF base.kind = "eth" THEN o.code ELSE @]
      BY <3>3 DEF SetAccount
    <3>5. QED  BY ZenonT(60), <3>1, <3>4 DEF AuthAccount
  <2>4. CommittedAccount(a) \in {Nil, SetAccount(acct, o), acct}
    BY <2>1, <2>2 DEF CommittedAccount
  <2>5. QED  BY <2>2, <2>3, <2>4
<1>4. ASSUME NEW a \in written, NEW k \in Key
      PROVE  CommittedSlot(a, k) \in Val
  <2>1. PICK o \in StateObject : o = stateObjects[a]
    BY <1>2
  <2>2. o.dirty[k] # Nil => o.dirty[k] \in Val
    BY DEF StateObject
  <2>3. store.stor[a][k] \in Val /\ Zero \in Val
    BY <1>1, <1>2, ConstantsAssumption DEF Store
  <2>4. QED  BY <2>1, <2>2, <2>3 DEF CommittedSlot
<1>5. CommittedCodes(written) \subseteq Code
  <2>1. \A a \in written : stateObjects[a].code \in Code
    BY <1>2 DEF StateObject
  <2>2. QED  BY ZenonT(30), <2>1 DEF CommittedCodes
<1>6. StoreAfter(written).native \in Native
  <2>1. [a \in Addr |-> IF a \in written THEN CommittedAccount(a) ELSE native.acct[a]] \in [Addr -> AuthAccount \cup {Nil}]
    BY <1>1, <1>3 DEF Native
  <2>2. StoreAfter(written).native =
          [native EXCEPT !.acct = [a \in Addr |-> IF a \in written THEN CommittedAccount(a) ELSE native.acct[a]]]
    BY DEF StoreAfter
  <2>3. QED  BY <1>1, <2>1, <2>2 DEF Native
<1>7. StoreAfter(written).stor \in [Addr -> [Key -> Val]]
  BY <1>1, <1>4 DEF StoreAfter, Store
<1>8. StoreAfter(written).codes \in SUBSET Code
  BY ZenonT(30), <1>1, <1>5 DEF StoreAfter, Store
<1>9. QED  BY <1>6, <1>7, <1>8 DEF StoreAfter, Store

\* Commit, successful or not, keeps the invariant.
LEMMA CommitInv ==
  ASSUME Safe, CommitStep
  PROVE  Safe'
<1>0. RevertInv
  BY Zenon, SafeIs
<1> USE <1>0
<1>1. /\ phase' \in {"committed", "failed"}
      /\ phase = "running"
      /\ UNCHANGED <<native, stateObjects, journal, dirties, validRevisions, nextRevisionID, saved, refund,
                     logs, nativeEvents, transientStorage, accessList, err, target>>
  BY DEF CommitStep, Commit, CommitFailsHalfWay, CommitReturnsErr, journalVars, revisionVars, sideVars
<1>2. store' \in Store
  <2>1. CASE Commit
    BY <2>1, StoreAfterType DEF Commit
  <2>2. CASE CommitFailsHalfWay
    <3>1. PICK written \in SUBSET DirtyAddrs : store' = StoreAfter(written)
      BY SMTT(30), Z3T(30), <2>2 DEF CommitFailsHalfWay
    <3>2. QED  BY <3>1, StoreAfterType
  <2>3. CASE CommitReturnsErr
    BY ZenonT(30), <2>3 DEF CommitReturnsErr, RevertInv, TypeOK
  <2>4. QED  BY <2>1, <2>2, <2>3 DEF CommitStep
<1>3. TypeOK'
  BY ZenonT(30), <1>1, <1>2 DEF RevertInv, TypeOK
<1>4. RevisionsOrdered' /\ Bookkeeping(journal, dirties, stateObjects)'
  BY ZenonT(30), <1>1 DEF RevertInv, RevisionsOrdered
<1>5. QED  BY ZenonT(30), SafeIs, <1>1, <1>3, <1>4 DEF RevertInv, Unfinished

-----------------------------------------------------------------------------
(* Native actions *)

\* bank.SendCoins moves coins and creates the recipient's account.
LEMMA SendCoinsOK ==
  ASSUME NEW st, NEW n, NativeOK(n, st), NEW from \in Addr \cup {Module}, NEW to \in Addr \cup {Module},
         NEW x \in Nat
  PROVE  /\ NativeOK(SendCoins(n, from, to, x).native, st)
         /\ SendCoins(n, from, to, x).ok \in BOOLEAN
         /\ SendCoins(n, from, to, x).ok /\ to # from =>
              SendCoins(n, from, to, x).native.bal[to] = n.bal[to] + x
<1>1. n.bal \in [Addr \cup {Module} -> Nat] /\ n.acct \in [Addr -> AuthAccount \cup {Nil}] /\ n.supply \in Int
  BY DEF NativeOK, Native
<1>2. PICK lock \in Nat : lock = IF from \in Addr THEN Locked[from] ELSE 0
  BY ConstantsAssumption
<1>3. CASE n.bal[from] >= x + lock
  <2>1. PICK bal : bal = [[n.bal EXCEPT ![from] = @ - x] EXCEPT ![to] = @ + x]
    BY ZenonT(60)
  <2>2. PICK acct : acct = [a \in Addr |-> IF a = to /\ n.acct[a] = Nil THEN NewAccount ELSE n.acct[a]]
    BY ZenonT(60)
  <2>3. SendCoins(n, from, to, x) = [ok |-> TRUE, native |-> [n EXCEPT !.bal = bal, !.acct = acct]]
    BY ZenonT(30), <1>2, <1>3, <2>1, <2>2 DEF SendCoins
  <2>4. bal \in [Addr \cup {Module} -> Nat] /\ (to # from => bal[to] = n.bal[to] + x)
    BY <1>1, <1>2, <1>3, <2>1
  <2>5. NewAccount \in AuthAccount
    BY ConstantsAssumption DEF NewAccount, AuthAccount
  <2>6. acct \in [Addr -> AuthAccount \cup {Nil}]
    BY <1>1, <2>2, <2>5
  <2>7. \A a \in Addr : acct[a] = st.native.acct[a] \/ (st.native.acct[a] = Nil /\ acct[a] = NewAccount)
    <3>1. \A a \in Addr : acct[a] = n.acct[a] \/ (n.acct[a] = Nil /\ acct[a] = NewAccount)
      BY <2>2
    <3>2. NewAccount # Nil
      BY <2>5, ConstantsAssumption
    <3>3. QED  BY <3>1, <3>2 DEF NativeOK
  <2>8. PICK m : m = [n EXCEPT !.bal = bal, !.acct = acct]
    OBVIOUS
  <2>9. m = [bal |-> bal, acct |-> acct, supply |-> n.supply]
    BY ZenonT(60), <2>8 DEF NativeOK, Native
  <2>10. NativeOK(m, st) /\ m.bal = bal
    BY Zenon, <1>1, <2>4, <2>6, <2>7, <2>9 DEF NativeOK, Native
  <2>11. SendCoins(n, from, to, x).ok = TRUE /\ SendCoins(n, from, to, x).native = m
    BY <2>3, <2>8
  <2>12. QED  BY ZenonT(60), <2>4, <2>10, <2>11
<1>4. CASE ~ (n.bal[from] >= x + lock)
  BY ZenonT(30), <1>2, <1>4 DEF SendCoins
<1>5. QED  BY ZenonT(30), <1>3, <1>4

\* The native actions of the keeper leave a branch that Revert can return to.
LEMMA KeeperOK ==
  ASSUME NEW st, NEW n, NativeOK(n, st), NEW a \in Addr, NEW x \in Nat
  PROVE  /\ NativeOK(KeeperAddBalance(n, a, x).native, st) /\ KeeperAddBalance(n, a, x).ok \in BOOLEAN
         /\ NativeOK(KeeperSubBalance(n, a, x).native, st) /\ KeeperSubBalance(n, a, x).ok \in BOOLEAN
<1>1. n = [bal |-> n.bal, acct |-> n.acct, supply |-> n.supply] /\ n.bal \in [Addr \cup {Module} -> Nat]
      /\ n.acct \in [Addr -> AuthAccount \cup {Nil}] /\ n.supply \in Int
  BY DEF NativeOK, Native
<1>2. PICK m : m = MintCoins(n, x)
  OBVIOUS
<1>3. NativeOK(m, st)
  <2>1. m = [bal |-> [n.bal EXCEPT ![Module] = @ + x], acct |-> n.acct, supply |-> n.supply + x]
    BY ZenonT(60), <1>1, <1>2 DEF MintCoins
  <2>2. QED  BY <1>1, <2>1 DEF NativeOK, Native
<1>4. NativeOK(KeeperAddBalance(n, a, x).native, st) /\ KeeperAddBalance(n, a, x).ok \in BOOLEAN
  BY ZenonT(60), <1>2, <1>3, SendCoinsOK DEF KeeperAddBalance
<1>5. PICK sent : sent = SendCoins(n, a, Module, x)
  OBVIOUS
<1>6. NativeOK(sent.native, st) /\ (sent.ok => sent.native.bal[Module] = n.bal[Module] + x)
  BY ZenonT(60), <1>5, SendCoinsOK, ConstantsAssumption
<1>7. CASE sent.ok
  <2>1. PICK q : q = BurnCoins(sent.native, x)
    OBVIOUS
  <2>2. /\ sent.native.bal \in [Addr \cup {Module} -> Nat] /\ sent.native.supply \in Int
        /\ sent.native = [bal |-> sent.native.bal, acct |-> sent.native.acct, supply |-> sent.native.supply]
    BY <1>6 DEF NativeOK, Native
  <2>3. q = [bal |-> [sent.native.bal EXCEPT ![Module] = @ - x], acct |-> sent.native.acct,
             supply |-> sent.native.supply - x]
    BY ZenonT(60), <2>1, <2>2 DEF BurnCoins
  <2>4. [sent.native.bal EXCEPT ![Module] = @ - x] \in [Addr \cup {Module} -> Nat]
    BY ONLY SMTT(30), Z3T(30), <1>1, <1>6, <1>7, <2>2
  <2>5. NativeOK(q, st)
    <3>1. q.acct = sent.native.acct
      BY Zenon, <2>3
    <3>2. sent.native.acct \in [Addr -> AuthAccount \cup {Nil}]
      BY Zenon, <1>6 DEF NativeOK, Native
    <3>3. sent.native.supply - x \in Int
      BY ONLY <2>2, x \in Nat
    <3>4. q \in Native
      BY Zenon, <2>3, <2>4, <3>2, <3>3 DEF Native
    <3>5. QED  BY Zenon, <1>6, <3>1, <3>4 DEF NativeOK
  <2>6. KeeperSubBalance(n, a, x) = [ok |-> TRUE, native |-> q]
    BY ZenonT(30), <1>5, <1>7, <2>1 DEF KeeperSubBalance
  <2>7. QED  BY <1>4, <2>5, <2>6
<1>8. CASE ~ sent.ok
  <2>1. KeeperSubBalance(n, a, x) = [ok |-> FALSE, native |-> n]
    BY <1>5, <1>8 DEF KeeperSubBalance
  <2>2. QED  BY <1>4, <2>1
<1>9. QED  BY ZenonT(30), <1>7, <1>8

\* keeper.SetBalance mints or burns the difference.
LEMMA KeeperSetOK ==
  ASSUME NEW st, NEW n, NativeOK(n, st), NEW a \in Addr, NEW x \in Nat
  PROVE  NativeOK(KeeperSetBalance(n, a, x).native, st) /\ KeeperSetBalance(n, a, x).ok \in BOOLEAN
<1>1. n.bal[a] \in Nat
  BY DEF NativeOK, Native
<1>2. CASE x > n.bal[a]
  <2>1. x - n.bal[a] \in Nat
    BY <1>1, <1>2
  <2>2. KeeperSetBalance(n, a, x) = KeeperAddBalance(n, a, x - n.bal[a])
    BY <1>1, <1>2 DEF KeeperSetBalance
  <2>3. QED  BY Zenon, <2>1, <2>2, KeeperOK
<1>3. CASE x < n.bal[a]
  <2>1. n.bal[a] - x \in Nat
    BY <1>1, <1>3
  <2>2. KeeperSetBalance(n, a, x) = KeeperSubBalance(n, a, n.bal[a] - x)
    BY <1>1, <1>3 DEF KeeperSetBalance
  <2>3. QED  BY Zenon, <2>1, <2>2, KeeperOK
<1>4. CASE ~ (x > n.bal[a]) /\ ~ (x < n.bal[a])
  BY ZenonT(60), <1>4 DEF KeeperSetBalance
<1>5. QED  BY <1>2, <1>3, <1>4

\* Undoing a native action restores the branch and truncates the events.
LEMMA UndoNative ==
  ASSUME NEW objs, NEW st, NEW d \in [Addr -> Nat], NEW n, NEW r, NEW l, NEW ev \in Nat, NEW t, NEW al,
         NEW snap, NEW e, e = [op |-> "native", snapshot |-> snap, events |-> 1]
  PROVE  /\ Bump(d, e) = d
         /\ UndoView(e, ViewOf(objs, st, d, n, r, l, ev + 1, t, al), st) =
              ViewOf(objs, st, d, snap, r, l, ev, t, al)
<1>1. Bump(d, e) = d /\ Drop(d, e) = d
  BY DEF Bump, Drop, Dirtied
<1>2. ev + 1 - 1 = ev
  OBVIOUS
<1>3. QED  BY <1>1, <1>2 DEF UndoView, ViewOf

\* A step of native actions: the state objects stay as they are.
Natively ==
  /\ phase \in {"setup", "running"}
  /\ err' = err \/ err' = TRUE
  /\ UNCHANGED <<store, stateObjects, revisionVars, refund, transientStorage, accessList, controlVars>>

\* What such a step leaves in order.
LEMMA NativelyData ==
  ASSUME Safe, Natively, NativeOK(native', store), logs' \in Nat, nativeEvents' \in Nat
  PROVE  /\ UNCHANGED Control /\ DataOK' /\ Unfinished /\ phase \in {"setup", "running"}
         /\ NativeOK(native, store)
         /\ stateObjects' = stateObjects /\ native \in Native
         /\ logs \in Nat /\ nativeEvents \in Nat /\ dirties \in [Addr -> Nat]
         /\ View' = ViewOf(stateObjects, store, dirties', native', refund, logs', nativeEvents',
                           transientStorage, accessList)
<1>0. RevertInv
  BY SafeIs
<1> USE <1>0
<1>1. Unfinished
  BY DEF Natively, Unfinished
<1>2. UNCHANGED Control
  BY DEF Natively, Control, revisionVars, controlVars
<1>3. DataOK
  BY Zenon, <1>1, InvData
<1>4. UNCHANGED <<store, stateObjects, refund, transientStorage, accessList>>
  BY DEF Natively
<1>5. DataOK'
  <2>1. err \in BOOLEAN
    BY <1>3 DEF DataOK
  <2>2. err' = err \/ err' = TRUE
    BY DEF Natively
  <2>3. err' \in BOOLEAN
    BY <2>1, <2>2, Zenon
  <2>4. QED  BY <1>3, <1>4, <2>3 DEF DataOK
<1>6. phase \in {"setup", "running"}
  BY Zenon DEF Natively
<1>7. QED  BY ZenonT(30), <1>1, <1>2, <1>3, <1>4, <1>5, <1>6, ViewIs, InvJournal DEF DataOK, NativeOK

\* A native action that succeeds.
LEMMA NativeAppends ==
  ASSUME Safe, Natively, NativeOK(native', store), UNCHANGED logs,
         Append1(NativeEntry(1)), nativeEvents' = nativeEvents + 1
  PROVE  Safe'
<1>0. RevertInv
  BY ZenonT(30), SafeIs
<1> USE <1>0
<1>1. logs \in Nat /\ nativeEvents \in Nat
  BY ZenonT(30) DEF RevertInv, TypeOK
<1>2. nativeEvents' \in Nat /\ logs' \in Nat
  BY <1>1
<1>3. PICK e : e = NativeEntry(1)
  OBVIOUS
<1>4. e = [op |-> "native", snapshot |-> native, events |-> 1]
  BY Zenon, <1>3 DEF NativeEntry
<1>5. e \in Entry /\ e.op \notin ObjectOps /\ e.op # "createObject" /\ e.op # "resetObject"
  BY Zenon, <1>2, <1>4, NativelyData, EntryIntroOther DEF ObjectOps
<1>6. journal' = Append(journal, e) /\ dirties' = Bump(dirties, e)
  BY <1>3 DEF Append1
<1>7. UndoView(e, View', store) = View
  <2>1. Bump(dirties, e) = dirties
    BY Zenon, <1>1, <1>4, InvJournal, UndoNative
  <2>2. View' = ViewOf(stateObjects, store, dirties, native', refund, logs, nativeEvents + 1,
                       transientStorage, accessList)
    BY ZenonT(30), <1>2, <1>6, <2>1, NativelyData
  <2>3. UndoView(e, ViewOf(stateObjects, store, dirties, native', refund, logs, nativeEvents + 1,
                           transientStorage, accessList), store)
        = ViewOf(stateObjects, store, dirties, native, refund, logs, nativeEvents, transientStorage, accessList)
    BY SMTT(30), Z3T(30), <1>1, <1>4, InvJournal, UndoNative
  <2>4. QED  BY Zenon, <2>2, <2>3, ViewIs
<1>8. QED  BY ZenonT(30), <1>2, <1>5, <1>6, <1>7, NativelyData, StepAppends

\* A native action that fails.
LEMMA NativeFails ==
  ASSUME Safe, Natively, native' = native, UNCHANGED logs, UNCHANGED <<journalVars, nativeEvents>>
  PROVE  Safe'
<1>0. RevertInv
  BY ZenonT(30), SafeIs
<1> USE <1>0
<1>1. logs' \in Nat /\ nativeEvents' \in Nat
  BY ZenonT(30) DEF RevertInv, TypeOK
<1>2. NativeOK(native', store)
  <2>1. Unfinished
    BY DEF Natively, Unfinished
  <2>2. QED  BY <2>1, InvData DEF DataOK
<1>3. UNCHANGED <<journal, dirties>>
  BY DEF journalVars
<1>4. View' = View
  <2>1. nativeEvents' = nativeEvents
    OBVIOUS
  <2>2. QED  BY Zenon, <1>1, <1>2, <1>3, <2>1, NativelyData, ViewIs
<1>5. QED  BY ZenonT(30), <1>1, <1>2, <1>3, <1>4, NativelyData, StepStays

\* A balance operation keeps the invariant, whatever the bank does.
LEMMA BalanceActionInv ==
  ASSUME Safe, phase \in {"setup", "running"}, NEW result, NativeOK(result.native, store),
         result.ok \in BOOLEAN, BalanceAction(result)
  PROVE  Safe'
<1>0. RevertInv
  BY SafeIs
<1> USE <1>0
<1>1. Natively /\ UNCHANGED logs
  <2>1. err' = err \/ err' = TRUE
    BY DEF BalanceAction
  <2>2. QED  BY Zenon, <2>1 DEF BalanceAction, Natively
<1>2. CASE result.ok
  <2>1. native' = result.native /\ Append1(NativeEntry(1)) /\ nativeEvents' = nativeEvents + 1
    BY <1>2 DEF BalanceAction, NativeAfter
  <2>2. NativeOK(native', store)
    BY <2>1
  <2>3. QED  BY ZenonT(30), <1>1, <2>1, <2>2, NativeAppends
<1>3. CASE ~ result.ok
  <2>1. native' = native /\ UNCHANGED <<journalVars, nativeEvents>>
    BY <1>3 DEF BalanceAction, NativeAfter
  <2>2. QED  BY Zenon, <1>1, <2>1, NativeFails
<1>4. QED  BY <1>2, <1>3

\* Transfer, AddBalance, SubBalance and SetBalance keep the invariant.
LEMMA BalanceInv ==
  ASSUME Safe, NEW a \in Addr, NEW x \in 0..MaxAmount,
         (\E to \in Addr : Transfer(a, to, x)) \/ AddBalance(a, x) \/ SubBalance(a, x) \/ SetBalance(a, x)
  PROVE  Safe'
<1>0. RevertInv
  BY SafeIs
<1> USE <1>0
<1>1. phase \in {"setup", "running"} /\ Unfinished
  <2>1. Running \/ Overriding
    BY DEF Transfer, AddBalance, SubBalance, SetBalance
  <2>2. QED  BY <2>1 DEF Running, Overriding, Unfinished
<1>2. NativeOK(native, store)
  BY Zenon, <1>1, InvData DEF DataOK
<1>3. x \in Nat
  BY ConstantsAssumption
<1>4. ASSUME NEW to \in Addr, Transfer(a, to, x)
      PROVE  Safe'
  <2>1. PICK res : res = SendCoins(native, a, to, x)
    BY Zenon
  <2>2. NativeOK(res.native, store) /\ res.ok \in BOOLEAN
    BY ZenonT(30), <1>2, <1>3, <2>1, SendCoinsOK
  <2>3. BalanceAction(res)
    BY <1>4, <2>1 DEF Transfer
  <2>4. QED  BY Zenon, <1>1, <2>2, <2>3, BalanceActionInv
<1>5. CASE AddBalance(a, x)
  <2>1. PICK res : res = KeeperAddBalance(native, a, x)
    BY Zenon
  <2>2. NativeOK(res.native, store) /\ res.ok \in BOOLEAN
    BY Zenon, <1>2, <1>3, <2>1, KeeperOK
  <2>3. BalanceAction(res)
    BY ZenonT(30), <1>5, <2>1 DEF AddBalance
  <2>4. QED  BY <1>1, <2>2, <2>3, BalanceActionInv
<1>6. CASE SubBalance(a, x)
  <2>1. PICK res : res = KeeperSubBalance(native, a, x)
    OBVIOUS
  <2>2. NativeOK(res.native, store) /\ res.ok \in BOOLEAN
    BY Zenon, <1>2, <1>3, <2>1, KeeperOK
  <2>3. BalanceAction(res)
    BY ZenonT(30), <1>6, <2>1 DEF SubBalance
  <2>4. QED  BY <1>1, <2>2, <2>3, BalanceActionInv
<1>7. CASE SetBalance(a, x)
  <2>1. PICK res : res = KeeperSetBalance(native, a, x)
    OBVIOUS
  <2>2. NativeOK(res.native, store) /\ res.ok \in BOOLEAN
    BY <1>2, <1>3, <2>1, KeeperSetOK
  <2>3. BalanceAction(res)
    BY ZenonT(30), <1>7, <2>1 DEF SetBalance
  <2>4. QED  BY <1>1, <2>2, <2>3, BalanceActionInv
<1>8. QED  BY Zenon, <1>4, <1>5, <1>6, <1>7

\* Undoing a log drops it.
LEMMA UndoLog ==
  ASSUME NEW objs, NEW st, NEW d \in [Addr -> Nat], NEW n, NEW r, NEW l \in Nat, NEW ev, NEW t, NEW al,
         NEW e, e = [op |-> "addLog"]
  PROVE  /\ Bump(d, e) = d
         /\ UndoView(e, ViewOf(objs, st, d, n, r, l + 1, ev, t, al), st) =
              ViewOf(objs, st, d, n, r, l, ev, t, al)
<1>1. Bump(d, e) = d /\ Drop(d, e) = d
  BY DEF Bump, Drop, Dirtied
<1>2. l + 1 - 1 = l
  OBVIOUS
<1>3. QED  BY <1>1, <1>2 DEF UndoView, ViewOf

\* RunPrecompile keeps the invariant.
LEMMA RunPrecompileInv ==
  ASSUME Safe, NEW a \in Addr, NEW to \in Addr, NEW x \in 0..MaxAmount,
         NEW fails \in BOOLEAN, NEW converted \in BOOLEAN, RunPrecompile(a, to, x, fails, converted)
  PROVE  Safe'
<1>0. RevertInv
  BY Zenon, SafeIs
<1> USE <1>0
<1>1. Natively /\ Unfinished
  BY Zenon DEF RunPrecompile, Running, Natively, Unfinished
<1>2. NativeOK(native, store) /\ x \in Nat
  BY <1>1, InvData, ConstantsAssumption DEF DataOK
<1>3. PICK sent : sent = SendCoins(native, a, to, x)
  BY Zenon
<1>4. NativeOK(sent.native, store)
  BY Zenon, <1>2, <1>3, SendCoinsOK
<1>5. CASE ~ (sent.ok /\ ~ fails)
  <2>1. native' = native /\ UNCHANGED <<journalVars, nativeEvents>> /\ UNCHANGED logs
    BY ZenonT(60), <1>3, <1>5 DEF RunPrecompile, NativeAfter
  <2>2. QED  BY <1>1, <2>1, NativeFails
<1>6. CASE sent.ok /\ ~ fails /\ ~ converted
  <2>1. native' = sent.native /\ Append1(NativeEntry(1)) /\ nativeEvents' = nativeEvents + 1 /\ UNCHANGED logs
    BY ZenonT(60), <1>3, <1>6 DEF RunPrecompile, NativeAfter
  <2>2. NativeOK(native', store)
    BY Zenon, <1>4, <2>1
  <2>3. QED  BY <1>1, <2>1, <2>2, NativeAppends
<1>7. CASE sent.ok /\ ~ fails /\ converted
  <2>1. PICK e1 : e1 = [op |-> "addLog"]
    BY ZenonT(60)
  <2>2. PICK e2 : e2 = [op |-> "native", snapshot |-> native, events |-> 1]
    BY ZenonT(60)
  <2>3. /\ native' = sent.native /\ Append2(e1, e2)
        /\ nativeEvents' = nativeEvents + 1 /\ logs' = logs + 1
    BY ZenonT(60), <1>3, <1>7, <2>1, <2>2 DEF RunPrecompile, NativeAfter, NativeEntry
  <2>4. NativeOK(native', store)
    BY ZenonT(30), <1>4, <2>3
  <2>5. logs \in Nat /\ nativeEvents \in Nat
    BY ZenonT(30) DEF RevertInv, TypeOK
  <2>6. logs' \in Nat /\ nativeEvents' \in Nat
    BY ONLY SMTT(30), Z3T(30), <2>3, <2>5
  <2>7. e1 \in Entry /\ e2 \in Entry
    BY ZenonT(30), <2>1, <2>2, <2>4, <2>6, <1>1, NativelyData, EntryIntroOther
  <2>8. /\ e1.op \notin ObjectOps /\ e2.op \notin ObjectOps /\ e1.op # "createObject" /\ e2.op # "createObject"
        /\ e1.op # "resetObject" /\ e2.op # "resetObject"
    BY Zenon, <2>1, <2>2 DEF ObjectOps
  <2>9. Bump(dirties, e1) = dirties /\ Bump(dirties, e2) = dirties
    BY ZenonT(60), <2>1, <2>2, <2>5, InvJournal, UndoNative, UndoLog
  <2>10. journal' = Append(Append(journal, e1), e2) /\ dirties' = Bump(Bump(dirties, e1), e2)
    BY Zenon, <2>3 DEF Append2
  <2>11. View' = ViewOf(stateObjects, store, dirties, native', refund, logs + 1, nativeEvents + 1,
                        transientStorage, accessList)
    BY ZenonT(30), <1>1, <2>3, <2>4, <2>6, <2>9, <2>10, NativelyData
  <2>12. PICK W : W = ViewOf(stateObjects, store, dirties, native, refund, logs + 1, nativeEvents,
                             transientStorage, accessList)
    BY Zenon
  <2>13. UndoView(e2, ViewOf(stateObjects, store, dirties, native', refund, logs + 1, nativeEvents + 1,
                             transientStorage, accessList), store) = W
    BY SMTT(30), Z3T(30), <2>2, <2>5, <2>12, InvJournal, UndoNative
  <2>14. UndoView(e1, W, store) = View
    BY SMTT(30), Z3T(30), <2>1, <2>5, <2>12, InvJournal, UndoLog, ViewIs
  <2>15. GoodView(W, store) /\ PerAddress(W)
    <3>1. GoodView(View, store) /\ logs + 1 \in Nat
      BY <1>1, <2>5, InvData
    <3>2. GoodView(W, store)
      BY Zenon, <2>12, <3>1 DEF GoodView, ViewOf, View
    <3>3. QED  BY Zenon, <2>12, <3>2, ViewOfPerAddress
  <2>16. UndoView(e2, View', store) = W
    BY Zenon, <2>11, <2>13
  <2>17. /\ UNCHANGED Control /\ DataOK' /\ phase \in {"setup", "running"}
         /\ \A b \in Addr : stateObjects[b] # Nil => stateObjects'[b] # Nil
    BY ZenonT(30), <1>1, <2>4, <2>6, NativelyData
  <2>18. QED  BY ZenonT(30), <2>7, <2>8, <2>10, <2>14, <2>15, <2>16, <2>17, StepAppendsTwo
<1>8. QED  BY Zenon, <1>5, <1>6, <1>7

\* SelfDestruct keeps the invariant.
LEMMA SelfDestructInv ==
  ASSUME Safe, NEW a \in Addr, SelfDestruct(a)
  PROVE  Safe'
<1>0. RevertInv
  BY Zenon, SafeIs
<1> USE <1>0
<1>1. Unfinished /\ phase \in {"setup", "running"} /\ Exist(a)
  BY DEF SelfDestruct, Running, Unfinished
<1>2. PICK p : p = GetStateObject(a)
  BY Zenon
<1>3. p \in StateObject /\ p # Nil /\ SameShown(p, Seen(a), store.stor[a])
  BY <1>1, <1>2, ObjectFacts
<1>4. PICK o : o = [p EXCEPT !.selfDestructed = TRUE]
  BY ZenonT(60)
<1>5. o \in StateObject /\ o # Nil
  BY ZenonT(60), <1>3, <1>4, ConstantsAssumption DEF StateObject
<1>6. PICK e : e = [op |-> "selfDestruct", account |-> a, prev |-> p.selfDestructed]
  BY ZenonT(60)
<1>7. e \in Entry /\ e.op \in ObjectOps /\ e.op # "createObject" /\ e.op # "resetObject" /\ e.account = a
  BY Zenon, <1>3, <1>6 DEF Entry, ObjectOps, StateObject
<1>8. RevertedObject(e, o) = p
  BY ZenonT(60), <1>3, <1>4, <1>6 DEF RevertedObject, StateObject
<1>9. DataOK
  BY <1>1, InvData
<1>10. PICK burn : burn = KeeperSubBalance(native, a, native.bal[a])
  BY Zenon
<1>11. NativeOK(burn.native, store) /\ burn.ok \in BOOLEAN
  <2>1. native.bal[a] \in Nat /\ NativeOK(native, store)
    BY <1>9 DEF DataOK, NativeOK, Native
  <2>2. QED  BY ZenonT(30), <1>10, <2>1, KeeperOK
<1>12. stateObjects' = [stateObjects EXCEPT ![a] = o]
  BY <1>2, <1>4 DEF SelfDestruct
<1>13. UNCHANGED <<store, revisionVars, refund, logs, transientStorage, accessList, controlVars>>
  BY DEF SelfDestruct
<1>14. err' \in BOOLEAN
  <2>1. err' = (err \/ (native.bal[a] > 0 /\ ~ burn.ok))
    BY SMTT(30), Z3T(30), <1>10 DEF SelfDestruct
  <2>2. QED  BY <2>1, Zenon
<1>15. CASE native.bal[a] > 0 /\ burn.ok
  <2>1. PICK f : f = [op |-> "native", snapshot |-> native, events |-> 1]
    BY ZenonT(60)
  <2>2. native' = burn.native /\ Append2(e, f) /\ nativeEvents' = nativeEvents + 1
    BY ZenonT(30), <1>2, <1>6, <1>10, <1>15, <2>1 DEF SelfDestruct, NativeAfter, NativeEntry
  <2>3. nativeEvents \in Nat /\ native \in Native /\ dirties \in [Addr -> Nat] /\ store \in Store
        /\ stateObjects \in [Addr -> StateObject \cup {Nil}]
    BY Zenon DEF RevertInv, TypeOK
  <2>4. /\ UNCHANGED <<store, refund, logs, transientStorage, accessList>>
        /\ stateObjects' \in [Addr -> StateObject \cup {Nil}] /\ stateObjects'[a] = o
        /\ \A b \in Addr : stateObjects[b] # Nil => stateObjects'[b] # Nil
    BY ZenonT(30), <1>5, <1>12, <1>13, <2>3
  <2>5. nativeEvents' \in Nat /\ NativeOK(native', store)
    BY ONLY <1>11, <2>2, <2>3
  <2>6. DataOK'
    BY Zenon, <1>9, <1>14, <2>4, <2>5 DEF DataOK
  <2>7. UNCHANGED Control
    BY Zenon, <1>13 DEF Control, revisionVars, controlVars
  <2>8. f \in Entry /\ f.op \notin ObjectOps /\ f.op # "createObject" /\ f.op # "resetObject"
    BY ZenonT(30), <2>1, <2>3, EntryIntroOther DEF ObjectOps
  <2>9. journal' = Append(Append(journal, e), f) /\ dirties' = Bump(Bump(dirties, e), f)
    BY <2>2 DEF Append2
  <2>10. PICK d \in [Addr -> Nat] : d = Bump(dirties, e)
    BY Zenon, <2>3, DropBump
  <2>11. Bump(d, f) = d
    BY ZenonT(30), <2>1, <2>3, UndoNative
  <2>12. View' = ViewOf(stateObjects', store, d, native', refund, logs, nativeEvents + 1,
                        transientStorage, accessList)
    BY ZenonT(30), <2>2, <2>4, <2>9, <2>10, <2>11, ViewIs
  <2>13. PICK W : W = ViewOf(stateObjects', store, d, native, refund, logs, nativeEvents,
                             transientStorage, accessList)
    BY Zenon
  <2>14. UndoView(f, ViewOf(stateObjects', store, d, native', refund, logs, nativeEvents + 1,
                            transientStorage, accessList), store) = W
    BY ONLY <2>1, <2>3, <2>13, UndoNative
  <2>15. UndoView(f, View', store) = W
    BY Zenon, <2>12, <2>14
  <2>16. UndoView(e, W, store) = View
    <3>1. Replaces(stateObjects', stateObjects, a, o)
      BY Zenon, <1>12 DEF Replaces
    <3>2. RevertedObject(e, o) # Nil /\ SameShown(RevertedObject(e, o), SeenIn(stateObjects, store, a), store.stor[a])
      BY Zenon, <1>3, <1>8 DEF SeenIn, Seen
    <3>3. UndoView(e, ViewOf(stateObjects', store, Bump(dirties, e), native, refund, logs, nativeEvents,
                             transientStorage, accessList), store)
          = ViewOf(stateObjects, store, dirties, native, refund, logs, nativeEvents, transientStorage, accessList)
      <4>1. stateObjects \in [Addr -> StateObject \cup {Nil}] /\ store \in Store /\ dirties \in [Addr -> Nat]
        BY <1>9, <2>3 DEF DataOK
      <4>2. o \in StateObject /\ e \in Entry /\ e.op \in ObjectOps /\ e.account = a
        BY ZenonT(30), <1>5, <1>7
      <4>3. QED  BY ZenonT(30), <3>1, <3>2, <4>1, <4>2, UndoPutNow
    <3>4. QED  BY Zenon, <2>10, <2>13, <3>3, ViewIs
  <2>17. GoodView(W, store) /\ PerAddress(W)
    <3>1. GoodView(View, store)
      BY ZenonT(30), <1>1, InvData
    <3>2. GoodView(W, store)
      BY ZenonT(30), <2>10, <2>13, <3>1 DEF GoodView, ViewOf, View
    <3>3. QED  BY Zenon, <2>13, <3>2, ViewOfPerAddress
  <2>18. QED
    BY ZenonT(30), <1>1, <1>5, <1>7, <2>4, <2>6, <2>7, <2>8, <2>9, <2>15, <2>16, <2>17, StepAppendsTwo
<1>16. CASE ~ (native.bal[a] > 0 /\ burn.ok)
  <2>1. native' = native
    BY Zenon, <1>10, <1>16 DEF SelfDestruct, NativeAfter
  <2>2. Append1(e) /\ UNCHANGED nativeEvents
    BY Zenon, <1>2, <1>6, <1>10, <1>16 DEF SelfDestruct
  <2>3. err' \in BOOLEAN \cup {err}
    BY Zenon, <1>14
  <2>4. Puts(a, o)
    BY ZenonT(30), <1>1, <1>5, <1>12, <1>13, <2>1, <2>2, <2>3 DEF Puts, sideVars
  <2>5. AppendAfterGetOrNew(a, e)
    BY SMTT(30), Z3T(30), <1>1, <2>2 DEF AppendAfterGetOrNew
  <2>6. QED  BY ZenonT(30), <1>3, <1>7, <1>8, <2>4, <2>5, ObjectAppends
<1>17. QED  BY <1>15, <1>16

-----------------------------------------------------------------------------
(* Refund counter, logs, transient storage, access list *)

\* A step that appends one entry e which concerns no object.
Aside(e) ==
  /\ phase = "running"
  /\ Append1(e)
  /\ UNCHANGED <<store, native, stateObjects, revisionVars, nativeEvents, err, controlVars>>

\* Such a step keeps the invariant when undoing it gives the old view.
LEMMA AsideAppends ==
  ASSUME Safe, NEW e \in Entry, Aside(e), e.op \notin ObjectOps, DataOK',
         UndoView(e, ViewOf(stateObjects, store, dirties, native, refund', logs', nativeEvents,
                            transientStorage', accessList'), store)
         = ViewOf(stateObjects, store, dirties, native, refund, logs, nativeEvents, transientStorage, accessList)
  PROVE  Safe'
<1>0. RevertInv
  BY Zenon, SafeIs
<1> USE <1>0
<1>1. UNCHANGED Control /\ phase \in {"setup", "running"} /\ stateObjects' = stateObjects
  BY DEF Aside, Control, revisionVars, controlVars
<1>2. journal' = Append(journal, e) /\ dirties' = Bump(dirties, e)
  BY DEF Aside, Append1
<1>3. Bump(dirties, e) = dirties /\ e.op # "createObject" /\ e.op # "resetObject"
  BY Zenon, InvJournal DEF Bump, Dirtied, ObjectOps
<1>4. View' = ViewOf(stateObjects, store, dirties, native, refund', logs', nativeEvents,
                     transientStorage', accessList')
  BY Zenon, <1>2, <1>3, ViewIs DEF Aside
<1>5. UndoView(e, View', store) = View
  BY Zenon, <1>4, ViewIs
<1>6. \A a \in Addr : stateObjects[a] # Nil => stateObjects'[a] # Nil
  BY <1>1
<1>7. QED  BY ZenonT(30), <1>1, <1>2, <1>3, <1>5, <1>6, StepAppends

\* The data such a step starts from.
LEMMA AsideData ==
  ASSUME Safe, NEW e, Aside(e)
  PROVE  /\ DataOK /\ dirties \in [Addr -> Nat]
         /\ UNCHANGED <<store, native, stateObjects, nativeEvents, err>>
<1>0. RevertInv
  BY SafeIs
<1> USE <1>0
<1>1. Unfinished
  BY Zenon DEF Aside, Unfinished
<1>2. QED  BY <1>1, InvData, InvJournal DEF Aside

\* AddRefund and SubRefund keep the invariant.
LEMMA RefundInv ==
  ASSUME Safe, NEW gas \in 1..MaxGas, AddRefund(gas) \/ SubRefund(gas)
  PROVE  Safe'
<1>0. RevertInv
  BY SafeIs
<1> USE <1>0
<1>1. PICK e : e = [op |-> "refund", prev |-> refund]
  BY ZenonT(60)
<1>2. Aside(e) /\ UNCHANGED <<logs, transientStorage, accessList>>
  BY <1>1 DEF AddRefund, SubRefund, Running, Aside
<1>3. refund \in Nat
  BY Zenon, <1>2, AsideData DEF DataOK
<1>4. e \in Entry /\ e.op \notin ObjectOps
  BY Zenon, <1>1, <1>3, EntryIntroOther DEF ObjectOps
<1>5. refund' \in Nat
  BY <1>3 DEF AddRefund, SubRefund
<1>6. DataOK'
  BY Zenon, <1>2, <1>5, AsideData DEF DataOK
<1>7. Drop(dirties, e) = dirties
  BY ZenonT(30), <1>1, <1>2, AsideData DEF Drop, Dirtied
<1>8. UndoView(e, ViewOf(stateObjects, store, dirties, native, refund', logs, nativeEvents,
                         transientStorage, accessList), store)
      = ViewOf(stateObjects, store, dirties, native, refund, logs, nativeEvents, transientStorage, accessList)
  BY ZenonT(30), <1>1, <1>7 DEF UndoView, ViewOf
<1>9. QED  BY ZenonT(30), <1>2, <1>4, <1>6, <1>8, AsideAppends

\* AddLog keeps the invariant.
LEMMA AddLogInv ==
  ASSUME Safe, AddLog
  PROVE  Safe'
<1>0. RevertInv
  BY SafeIs
<1> USE <1>0
<1>1. PICK e : e = [op |-> "addLog"]
  BY ZenonT(60)
<1>2. Aside(e) /\ UNCHANGED <<refund, transientStorage, accessList>> /\ logs' = logs + 1
  BY <1>1 DEF AddLog, Running, Aside
<1>3. logs \in Nat
  BY Zenon, <1>2, AsideData DEF DataOK
<1>4. e \in Entry /\ e.op \notin ObjectOps
  BY Zenon, <1>1, EntryIntroOther DEF ObjectOps
<1>5. DataOK'
  BY <1>2, <1>3, AsideData DEF DataOK
<1>6. UndoView(e, ViewOf(stateObjects, store, dirties, native, refund, logs + 1, nativeEvents,
                         transientStorage, accessList), store)
      = ViewOf(stateObjects, store, dirties, native, refund, logs, nativeEvents, transientStorage, accessList)
  BY <1>1, <1>3, InvJournal, UndoLog
<1>7. QED  BY Zenon, <1>2, <1>4, <1>5, <1>6, AsideAppends

\* SetTransientState keeps the invariant.
LEMMA SetTransientStateInv ==
  ASSUME Safe, NEW a \in Addr, NEW k \in Key, NEW v \in Val, SetTransientState(a, k, v)
  PROVE  Safe'
<1>0. RevertInv
  BY SafeIs
<1> USE <1>0
<1>1. PICK e : e = [op |-> "transient", account |-> a, key |-> k, prevalue |-> transientStorage[a][k]]
  BY ZenonT(60)
<1>2. /\ Aside(e) /\ UNCHANGED <<refund, logs, accessList>>
      /\ transientStorage' = [transientStorage EXCEPT ![a][k] = v]
  BY <1>1 DEF SetTransientState, Running, Aside
<1>3. transientStorage \in [Addr -> [Key -> Val]]
  BY <1>2, AsideData DEF DataOK
<1>4. e \in Entry /\ e.op \notin ObjectOps
  <2>1. transientStorage[a][k] \in Val
    BY <1>3
  <2>2. QED  BY ZenonT(60), <1>1, <2>1, EntryIntro DEF ObjectOps
<1>5. transientStorage' \in [Addr -> [Key -> Val]]
  BY Zenon, <1>2, <1>3
<1>6. DataOK'
  BY Zenon, <1>2, <1>5, AsideData DEF DataOK
<1>7. Drop(dirties, e) = dirties
  BY <1>1, <1>2, AsideData DEF Drop, Dirtied
<1>8. [transientStorage' EXCEPT ![a][k] = transientStorage[a][k]] = transientStorage
  BY ZenonT(60), <1>2, <1>3
<1>9. UndoView(e, ViewOf(stateObjects, store, dirties, native, refund, logs, nativeEvents,
                         transientStorage', accessList), store)
      = ViewOf(stateObjects, store, dirties, native, refund, logs, nativeEvents, transientStorage, accessList)
  BY Zenon, <1>1, <1>7, <1>8 DEF UndoView, ViewOf
<1>10. QED  BY ZenonT(60), <1>2, <1>4, <1>6, <1>9, AsideAppends

\* AddAddressToAccessList keeps the invariant.
LEMMA AddAddressInv ==
  ASSUME Safe, NEW a \in Addr, AddAddressToAccessList(a)
  PROVE  Safe'
<1>0. RevertInv
  BY SafeIs
<1> USE <1>0
<1>1. PICK e : e = [op |-> "accessListAddAccount", address |-> a]
  BY ZenonT(60)
<1>2. /\ Aside(e) /\ UNCHANGED <<refund, logs, transientStorage>>
      /\ accessList' = [accessList EXCEPT !.addresses = @ \cup {a}]
  BY <1>1 DEF AddAddressToAccessList, Running, Aside
<1>3. /\ accessList \in [addresses : SUBSET Addr, slots : SUBSET (Addr \X Key)]
      /\ \A p \in accessList.slots : p[1] \in accessList.addresses
  BY Zenon, <1>2, AsideData DEF DataOK
<1>4. e \in Entry /\ e.op \notin ObjectOps
  BY <1>1 DEF Entry, ObjectOps
<1>5. /\ accessList' \in [addresses : SUBSET Addr, slots : SUBSET (Addr \X Key)]
      /\ accessList'.addresses = accessList.addresses \cup {a} /\ accessList'.slots = accessList.slots
  BY <1>2, <1>3
<1>6. DataOK'
  BY Zenon, <1>2, <1>3, <1>5, AsideData DEF DataOK
<1>7. Drop(dirties, e) = dirties
  BY ZenonT(30), <1>1, <1>2, AsideData DEF Drop, Dirtied
<1>8. [addresses |-> accessList'.addresses \ {a}, slots |-> {p \in accessList'.slots : p[1] # a}] = accessList
  <2>1. a \notin accessList.addresses
    BY DEF AddAddressToAccessList
  <2>2. (accessList.addresses \cup {a}) \ {a} = accessList.addresses
    BY <2>1
  <2>3. {p \in accessList.slots : p[1] # a} = accessList.slots
    BY <1>3, <2>1
  <2>4. QED  BY <1>3, <1>5, <2>2, <2>3
<1>9. UndoView(e, ViewOf(stateObjects, store, dirties, native, refund, logs, nativeEvents,
                         transientStorage, accessList'), store)
      = ViewOf(stateObjects, store, dirties, native, refund, logs, nativeEvents, transientStorage, accessList)
  BY ZenonT(30), <1>1, <1>7, <1>8 DEF UndoView, ViewOf
<1>10. QED  BY ZenonT(60), <1>2, <1>4, <1>6, <1>9, AsideAppends

\* AddSlotToAccessList keeps the invariant.
LEMMA AddSlotInv ==
  ASSUME Safe, NEW a \in Addr, NEW k \in Key, AddSlotToAccessList(a, k)
  PROVE  Safe'
<1>0. RevertInv
  BY SafeIs
<1> USE <1>0
<1>1. PICK e : e = [op |-> "accessListAddSlot", address |-> a, slot |-> k]
  BY ZenonT(60)
<1>2. PICK c : c = [op |-> "accessListAddAccount", address |-> a]
  BY ZenonT(60)
<1>3. /\ phase = "running" /\ phase \in {"setup", "running"} /\ Unfinished
      /\ UNCHANGED <<store, native, stateObjects, revisionVars, refund, logs, nativeEvents,
                     transientStorage, err, controlVars>>
      /\ accessList' = [addresses |-> accessList.addresses \cup {a}, slots |-> accessList.slots \cup {<<a, k>>}]
      /\ <<a, k>> \notin accessList.slots
  BY Zenon DEF AddSlotToAccessList, Running, Unfinished
<1>4. DataOK /\ GoodView(View, store) /\ dirties \in [Addr -> Nat]
  BY Zenon, <1>3, InvData, InvJournal
<1>5. /\ accessList \in [addresses : SUBSET Addr, slots : SUBSET (Addr \X Key)]
      /\ \A p \in accessList.slots : p[1] \in accessList.addresses
  BY Zenon, <1>4 DEF DataOK
<1>6. e \in Entry /\ e.op \notin ObjectOps /\ c \in Entry /\ c.op \notin ObjectOps
      /\ e.op # "createObject" /\ c.op # "createObject" /\ e.op # "resetObject" /\ c.op # "resetObject"
  BY ZenonT(30), <1>1, <1>2 DEF Entry, ObjectOps
<1>7. Bump(dirties, e) = dirties /\ Bump(dirties, c) = dirties /\ Drop(dirties, e) = dirties
      /\ Drop(dirties, c) = dirties
  BY <1>1, <1>2, <1>4 DEF Bump, Drop, Dirtied
<1>8. /\ accessList' \in [addresses : SUBSET Addr, slots : SUBSET (Addr \X Key)]
      /\ \A p \in accessList'.slots : p[1] \in accessList'.addresses
  BY ONLY <1>3, <1>5
<1>9. DataOK'
  BY ZenonT(30), <1>3, <1>4, <1>8 DEF DataOK
<1>10. (accessList.slots \cup {<<a, k>>}) \ {<<a, k>>} = accessList.slots
  BY ZenonT(30), <1>3
<1>11. CASE a \in accessList.addresses
  <2>1. Aside(e)
    BY <1>1, <1>3, <1>11 DEF AddSlotToAccessList, Aside
  <2>2. [accessList' EXCEPT !.slots = @ \ {<<a, k>>}] = accessList
    <3>1. accessList.addresses \cup {a} = accessList.addresses
      BY Zenon, <1>11
    <3>2. accessList' = [addresses |-> accessList.addresses, slots |-> accessList.slots \cup {<<a, k>>}]
      BY Zenon, <1>3, <3>1
    <3>3. accessList = [addresses |-> accessList.addresses, slots |-> accessList.slots]
      BY <1>5
    <3>4. QED  BY <1>10, <3>2, <3>3
  <2>3. UndoView(e, ViewOf(stateObjects, store, dirties, native, refund, logs, nativeEvents,
                           transientStorage, accessList'), store)
        = ViewOf(stateObjects, store, dirties, native, refund, logs, nativeEvents, transientStorage, accessList)
    BY ZenonT(30), <1>1, <1>7, <2>2 DEF UndoView, ViewOf
  <2>4. QED  BY ZenonT(60), <1>3, <1>6, <1>9, <2>1, <2>3, AsideAppends
<1>12. CASE a \notin accessList.addresses
  <2>1. journal' = Append(Append(journal, c), e) /\ dirties' = Bump(Bump(dirties, c), e)
    BY <1>1, <1>2, <1>12 DEF AddSlotToAccessList, Append2
  <2>2. PICK al : al = [addresses |-> accessList.addresses \cup {a}, slots |-> accessList.slots]
    BY ZenonT(60)
  <2>3. [accessList' EXCEPT !.slots = @ \ {<<a, k>>}] = al
    <3>1. /\ accessList'.addresses = accessList.addresses \cup {a}
          /\ accessList'.slots \ {<<a, k>>} = accessList.slots
      BY <1>3, <1>10
    <3>2. [accessList' EXCEPT !.slots = @ \ {<<a, k>>}] =
            [addresses |-> accessList'.addresses, slots |-> accessList'.slots \ {<<a, k>>}]
      BY <1>8
    <3>3. QED  BY ZenonT(60), <2>2, <3>1, <3>2
  <2>4. PICK W : W = ViewOf(stateObjects, store, dirties, native, refund, logs, nativeEvents,
                            transientStorage, al)
    OBVIOUS
  <2>5. UndoView(e, ViewOf(stateObjects, store, dirties, native, refund, logs, nativeEvents,
                           transientStorage, accessList'), store) = W
    BY ZenonT(60), <1>1, <1>7, <2>3, <2>4 DEF UndoView, ViewOf
  <2>6. View' = ViewOf(stateObjects, store, dirties, native, refund, logs, nativeEvents,
                       transientStorage, accessList')
    BY ZenonT(30), <1>3, <1>7, <2>1, ViewIs
  <2>7. [addresses |-> al.addresses \ {a}, slots |-> {p \in al.slots : p[1] # a}] = accessList
    <3>1. (accessList.addresses \cup {a}) \ {a} = accessList.addresses
      BY <1>12
    <3>2. {p \in accessList.slots : p[1] # a} = accessList.slots
      BY <1>5, <1>12
    <3>3. QED  BY ZenonT(30), <1>5, <2>2, <3>1, <3>2
  <2>8. UndoView(c, W, store)
        = ViewOf(stateObjects, store, dirties, native, refund, logs, nativeEvents, transientStorage, accessList)
    BY ZenonT(60), <1>2, <1>7, <2>4, <2>7 DEF UndoView, ViewOf
  <2>9. GoodView(W, store) /\ PerAddress(W)
    <3>1. /\ al \in [addresses : SUBSET Addr, slots : SUBSET (Addr \X Key)]
          /\ \A p \in al.slots : p[1] \in al.addresses
      BY ZenonT(30), <1>5, <2>2
    <3>2. GoodView(W, store)
      BY ZenonT(30), <1>4, <2>4, <3>1 DEF GoodView, ViewOf, View
    <3>3. QED  BY Zenon, <2>4, <3>2, ViewOfPerAddress
  <2>10. UNCHANGED Control /\ \A b \in Addr : stateObjects[b] # Nil => stateObjects'[b] # Nil
    BY ZenonT(30), <1>3 DEF Control, revisionVars, controlVars
  <2>11. UndoView(e, View', store) = W /\ UndoView(c, W, store) = View
    BY SMTT(30), Z3T(30), <2>5, <2>6, <2>8, ViewIs
  <2>12. QED  BY ZenonT(30), <1>3, <1>6, <1>9, <2>1, <2>9, <2>10, <2>11, StepAppendsTwo
<1>13. QED  BY <1>11, <1>12

\* Prepare resets what is not journaled, before the first snapshot.
LEMMA PrepareInv ==
  ASSUME Safe, NEW warm \in SUBSET Addr, NEW list \in SUBSET (Addr \X Key), Prepare(warm, list)
  PROVE  Safe'
<1>0. RevertInv
  BY ZenonT(30), SafeIs
<1> USE <1>0
<1>1. /\ phase = "setup" /\ phase' = "running" /\ Unfinished
      /\ UNCHANGED <<store, native, stateObjects, refund, logs, nativeEvents, err, target>>
      /\ UNCHANGED <<journal, dirties, validRevisions, nextRevisionID, saved>>
  BY SMTT(30), Z3T(30) DEF Prepare, Unfinished, journalVars, revisionVars
<1>2. DataOK /\ TypeOK /\ validRevisions = <<>>
  BY Zenon, <1>1, InvData DEF RevertInv
<1>3. /\ accessList' \in [addresses : SUBSET Addr, slots : SUBSET (Addr \X Key)]
      /\ \A p \in accessList'.slots : p[1] \in accessList'.addresses
  <2>1. CASE Berlin
    <3>1. accessList' = [addresses |-> warm \cup {p[1] : p \in list}, slots |-> list]
      BY <2>1 DEF Prepare
    <3>2. {p[1] : p \in list} \in SUBSET Addr
      BY Zenon
    <3>3. QED  BY <3>1, <3>2
  <2>2. CASE ~ Berlin
    BY Zenon, <1>2, <2>2 DEF Prepare, DataOK
  <2>3. QED  BY <2>1, <2>2
<1>4. transientStorage' \in [Addr -> [Key -> Val]]
  BY Zenon, ConstantsAssumption DEF Prepare
<1>5. DataOK'
  BY Zenon, <1>1, <1>2, <1>3, <1>4 DEF DataOK
<1>6. TypeOK'
  BY ZenonT(30), <1>1, <1>2, <1>5 DEF TypeOK, DataOK, NativeOK
<1>7. GoodView(View', store) /\ CleanView(View', store)
  <2>1. CleanView(View, store)
    BY Zenon, <1>1, InvData
  <2>2. CleanView(View', store)
    BY Zenon, <1>1, <2>1, ViewIs DEF CleanView, CleanAt, ViewOf
  <2>3. QED  BY Zenon, <1>1, <1>2, <1>5, <2>2, DataView DEF TypeOK
<1>8. Rewindable(journal', View', store', validRevisions', saved', 0)
  BY Zenon, <1>1, <1>7, InvJournal, ChainStarts
<1>9. Upto' = 0
  BY <1>1, <1>2 DEF Upto
<1>10. RevisionsOrdered'
  BY ONLY SMTT(30), Z3T(30), <1>1, <1>2 DEF RevisionsOrdered
<1>11. Bookkeeping(journal, dirties, stateObjects)'
  BY <1>1 DEF RevertInv
<1>12. QED  BY ZenonT(30), SafeIs, <1>1, <1>6, <1>8, <1>9, <1>10, <1>11 DEF RevertInv
=============================================================================
