---------------------------- MODULE StateDBLoads ----------------------------
(***************************************************************************)
(* What the live objects have loaded from the parent, and which accounts   *)
(* exist at each revision, for any addresses, keys, values and bounds.     *)
(* Loads leave no journal entry, so neither is a matter of undoing         *)
(* entries: Held is kept by every step beside RevertInv, and with it       *)
(* CommitPersistsView and RevertRestoresExist follow.                      *)
(***************************************************************************)
EXTENDS StateDBViews

-----------------------------------------------------------------------------
(* What the objects hold of the parent, and which of them exist *)

\* The slot was read from the keeper before it was written, or is overridden.
Keeps(o, k) == o.origin[k] # Nil \/ o.override # Nil

\* What an object has loaded is what the parent holds, or an account that a
\* native action created, and it wrote no slot that it had not read.
Faithful(o, a, st) ==
  /\ o.orig # Nil => \/ o.orig = GetAccount(st.native, a)
                     \/ st.native.acct[a] = Nil /\ o.orig = [nonce |-> 0, code |-> NoCode]
  /\ \A k \in Key : o.origin[k] # Nil => o.origin[k] = st.stor[a][k]
  /\ \A k \in Key : o.dirty[k] # Nil => Keeps(o, k)

Resets(e, a) == e.op = "resetObject" /\ e.account = a
Creates(e, a) == e.op = "createObject" /\ e.account = a
Writes(e, a) == e.op = "storage" /\ e.account = a

\* o has read every slot that entries up to n wrote since a was last reset: it is
\* the object on which they will be undone.
HasRead(o, a, j, n) ==
  \A m \in 1..n : Writes(j[m], a) /\ (\A h \in (m + 1)..n : ~ Resets(j[h], a)) => Keeps(o, j[m].key)

\* The live objects, and the ones that resetObject entries keep.
ObjectsLoaded(j, objs, st) ==
  /\ \A a \in Addr : objs[a] # Nil => Faithful(objs[a], a, st) /\ HasRead(objs[a], a, j, Len(j))
  /\ \A n \in 1..Len(j), a \in Addr :
       Resets(j[n], a) => Faithful(j[n].prev, a, st) /\ HasRead(j[n].prev, a, j, n - 1)

\* The object of a was made, not loaded, by an entry after lo and up to hi.
Made(j, a, lo, hi) == \E m \in (lo + 1)..hi : Resets(j[m], a) \/ Creates(j[m], a)

\* An account that existed at a revision is on the branch of that revision or is
\* live and was not created since; the object of one that did not was loaded, or
\* was made by an entry that Revert undoes.
ExistenceKept(j, objs, revs, sv, upto) ==
  \A r \in 1..upto, a \in Addr :
    IF a \in sv[r].exist
    THEN \/ sv[r].view.native.acct[a] # Nil
         \/ objs[a] # Nil /\ \A n \in (revs[r].journalIndex + 1)..Len(j) : ~ Creates(j[n], a)
    ELSE /\ sv[r].view.native.acct[a] = Nil
         /\ objs[a] = Nil \/ objs[a].orig # Nil \/ Made(j, a, revs[r].journalIndex, Len(j))
         /\ \A n \in (revs[r].journalIndex + 1)..Len(j) :
              Resets(j[n], a) => j[n].prev.orig # Nil \/ Made(j, a, revs[r].journalIndex, n - 1)

Indexed(j, revs, upto) == \A r \in 1..upto : revs[r].journalIndex \in 0..Len(j)

\* An object is loaded, or changed without being made anew.
LEMMA ObjectReplaced ==
  ASSUME NEW j \in Seq(Entry), NEW objs, NEW objs2, NEW st, NEW revs, NEW sv, NEW upto,
         ObjectsLoaded(j, objs, st), ExistenceKept(j, objs, revs, sv, upto),
         NEW a \in Addr, NEW o, o # Nil, objs2[a] = o, \A b \in Addr : b # a => objs2[b] = objs[b],
         Faithful(o, a, st),
         objs[a] = Nil => o.orig # Nil /\ \A m \in 1..Len(j) : ~ Writes(j[m], a),
         objs[a] # Nil => o.orig = objs[a].orig /\ \A k \in Key : Keeps(objs[a], k) => Keeps(o, k)
  PROVE  ObjectsLoaded(j, objs2, st) /\ ExistenceKept(j, objs2, revs, sv, upto)
<1>1. \A m \in 1..Len(j) : Writes(j[m], a) => j[m].key \in Key
  <2>1. \A m \in 1..Len(j) : j[m] \in Entry
    OBVIOUS
  <2>2. QED  BY Zenon, <2>1, EntryElim DEF Writes
<1>2. HasRead(o, a, j, Len(j))
  BY Zenon, <1>1 DEF ObjectsLoaded, HasRead
<1>3. ObjectsLoaded(j, objs2, st)
  BY Zenon, <1>2 DEF ObjectsLoaded
<1>4. ExistenceKept(j, objs2, revs, sv, upto)
  BY ZenonT(30) DEF ExistenceKept
<1>5. QED  BY <1>3, <1>4

\* An entry is appended that makes no object.
LEMMA EntryAppended ==
  ASSUME NEW j \in Seq(Entry), NEW objs, NEW st, NEW revs, NEW sv, NEW upto,
         ObjectsLoaded(j, objs, st), ExistenceKept(j, objs, revs, sv, upto), Indexed(j, revs, upto),
         NEW e, e.op \notin {"createObject", "resetObject"},
         e.op = "storage" => e.account \in Addr /\ Keeps(objs[e.account], e.key)
  PROVE  ObjectsLoaded(Append(j, e), objs, st) /\ ExistenceKept(Append(j, e), objs, revs, sv, upto)
<1>1. PICK n \in Nat : n = Len(j)
  OBVIOUS
<1>2. PICK l : l = Append(j, e)
  BY ZenonT(30)
<1>3. Len(l) = n + 1 /\ l[n + 1] = e /\ \A m \in 1..n : l[m] = j[m]
  BY <1>1, <1>2
<1>4. \A a \in Addr : ~ Resets(e, a) /\ ~ Creates(e, a)
  BY DEF Resets, Creates
<1>5. ASSUME NEW a \in Addr, NEW o, NEW i \in 0..n, HasRead(o, a, j, i)
      PROVE  HasRead(o, a, l, i)
  BY <1>3, <1>5 DEF HasRead
<1>6. ASSUME NEW a \in Addr, objs[a] # Nil
      PROVE  HasRead(objs[a], a, l, n + 1)
  <2>1. HasRead(objs[a], a, l, n)
    BY <1>1, <1>5, <1>6 DEF ObjectsLoaded
  <2>2. SUFFICES ASSUME NEW m \in 1..(n + 1), Writes(l[m], a), \A h \in (m + 1)..(n + 1) : ~ Resets(l[h], a)
                 PROVE  Keeps(objs[a], l[m].key)
    BY Zenon DEF HasRead
  <2>3. CASE m = n + 1
    BY <1>3, <2>2, <2>3 DEF Writes
  <2>4. CASE m \in 1..n
    <3>1. \A h \in (m + 1)..n : h \in (m + 1)..(n + 1)
      BY ONLY n \in Nat, m \in 1..n
    <3>2. QED  BY Zenon, <2>1, <2>2, <2>4, <3>1 DEF HasRead
  <2>5. QED  BY <2>3, <2>4
<1>7. ObjectsLoaded(l, objs, st)
  <2>1. ASSUME NEW i \in 1..(n + 1), NEW a \in Addr, Resets(l[i], a)
        PROVE  Faithful(l[i].prev, a, st) /\ HasRead(l[i].prev, a, l, i - 1)
    <3>1. i \in 1..n /\ l[i] = j[i] /\ i - 1 \in 0..n
      BY <1>3, <1>4, <2>1
    <3>2. QED  BY Zenon, <1>1, <1>5, <2>1, <3>1 DEF ObjectsLoaded
  <2>2. QED  BY Zenon, <1>3, <1>6, <2>1 DEF ObjectsLoaded
<1>8. ExistenceKept(l, objs, revs, sv, upto)
  <2>1. SUFFICES ASSUME NEW r \in 1..upto, NEW a \in Addr
                 PROVE  IF a \in sv[r].exist
                        THEN \/ sv[r].view.native.acct[a] # Nil
                             \/ objs[a] # Nil /\ \A i \in (revs[r].journalIndex + 1)..(n + 1) : ~ Creates(l[i], a)
                        ELSE /\ sv[r].view.native.acct[a] = Nil
                             /\ objs[a] = Nil \/ objs[a].orig # Nil \/ Made(l, a, revs[r].journalIndex, n + 1)
                             /\ \A i \in (revs[r].journalIndex + 1)..(n + 1) :
                                  Resets(l[i], a) => l[i].prev.orig # Nil \/ Made(l, a, revs[r].journalIndex, i - 1)
    BY Zenon, <1>3 DEF ExistenceKept
  <2>2. PICK x \in 0..n : x = revs[r].journalIndex
    BY Zenon, <1>1 DEF Indexed
  <2>3. \A i \in (x + 1)..(n + 1) : Resets(l[i], a) \/ Creates(l[i], a) => i \in (x + 1)..n /\ l[i] = j[i]
    BY <1>3, <1>4
  <2>4. \A i \in 0..(n + 1) : Made(j, a, x, i) /\ i <= n => Made(l, a, x, i)
    BY <1>3 DEF Made
  <2>5. Made(j, a, x, n) => Made(l, a, x, n + 1)
    BY <1>3 DEF Made
  <2>6. \A i \in (x + 1)..n : i - 1 \in 0..(n + 1) /\ i - 1 <= n
    BY ONLY n \in Nat, x \in 0..n
  <2>7. QED  BY Zenon, <1>1, <2>2, <2>3, <2>4, <2>5, <2>6 DEF ExistenceKept
<1>9. QED  BY <1>2, <1>7, <1>8

\* getOrNewStateObject creates an object where there was none.
LEMMA ObjectCreated ==
  ASSUME NEW j \in Seq(Entry), NEW objs, NEW objs2, NEW st, NEW revs, NEW sv, NEW upto,
         ObjectsLoaded(j, objs, st), ExistenceKept(j, objs, revs, sv, upto), Indexed(j, revs, upto),
         NEW a \in Addr, NEW o, o # Nil, objs2[a] = o, \A b \in Addr : b # a => objs2[b] = objs[b],
         Faithful(o, a, st), objs[a] = Nil, \A m \in 1..Len(j) : ~ Writes(j[m], a),
         NEW e, e = [op |-> "createObject", account |-> a]
  PROVE  ObjectsLoaded(Append(j, e), objs2, st) /\ ExistenceKept(Append(j, e), objs2, revs, sv, upto)
<1>1. PICK n \in Nat : n = Len(j)
  OBVIOUS
<1>2. PICK l : l = Append(j, e)
  BY ZenonT(30)
<1>3. Len(l) = n + 1 /\ l[n + 1] = e /\ \A m \in 1..n : l[m] = j[m]
  BY <1>1, <1>2
<1>4. /\ \A b \in Addr : ~ Resets(e, b) /\ ~ Writes(e, b)
      /\ \A b \in Addr : Creates(e, b) <=> b = a
  BY DEF Resets, Creates, Writes
<1>5. ASSUME NEW b \in Addr, NEW p, NEW i \in 0..n, HasRead(p, b, j, i)
      PROVE  HasRead(p, b, l, i)
  BY SMTT(30), Z3T(30), <1>3, <1>5 DEF HasRead
<1>6. ASSUME NEW b \in Addr, objs2[b] # Nil
      PROVE  Faithful(objs2[b], b, st) /\ HasRead(objs2[b], b, l, n + 1)
  <2>1. CASE b = a
    <3>1. \A m \in 1..(n + 1) : ~ Writes(l[m], a)
      BY <1>1, <1>3, <1>4
    <3>2. QED  BY Zenon, <2>1, <3>1 DEF HasRead
  <2>2. CASE b # a
    <3>1. Faithful(objs[b], b, st) /\ HasRead(objs[b], b, l, n)
      BY <1>1, <1>5, <1>6, <2>2 DEF ObjectsLoaded
    <3>2. ASSUME NEW m \in 1..(n + 1), Writes(l[m], b), \A h \in (m + 1)..(n + 1) : ~ Resets(l[h], b)
          PROVE  Keeps(objs[b], l[m].key)
      <4>1. m \in 1..n /\ \A h \in (m + 1)..n : h \in (m + 1)..(n + 1)
        BY <1>3, <1>4, <3>2
      <4>2. QED  BY Zenon, <3>1, <3>2, <4>1 DEF HasRead
    <3>3. QED  BY Zenon, <2>2, <3>1, <3>2 DEF HasRead
  <2>3. QED  BY <2>1, <2>2
<1>7. ObjectsLoaded(l, objs2, st)
  <2>1. ASSUME NEW i \in 1..(n + 1), NEW b \in Addr, Resets(l[i], b)
        PROVE  Faithful(l[i].prev, b, st) /\ HasRead(l[i].prev, b, l, i - 1)
    <3>1. i \in 1..n /\ l[i] = j[i] /\ i - 1 \in 0..n
      BY ONLY SMTT(30), Z3T(30), <1>3, <1>4, <2>1
    <3>2. QED  BY Zenon, <1>1, <1>5, <2>1, <3>1 DEF ObjectsLoaded
  <2>2. QED  BY Zenon, <1>3, <1>6, <2>1 DEF ObjectsLoaded
<1>8. ExistenceKept(l, objs2, revs, sv, upto)
  <2>1. SUFFICES ASSUME NEW r \in 1..upto, NEW b \in Addr
                 PROVE  IF b \in sv[r].exist
                        THEN \/ sv[r].view.native.acct[b] # Nil
                             \/ objs2[b] # Nil /\ \A i \in (revs[r].journalIndex + 1)..(n + 1) : ~ Creates(l[i], b)
                        ELSE /\ sv[r].view.native.acct[b] = Nil
                             /\ objs2[b] = Nil \/ objs2[b].orig # Nil \/ Made(l, b, revs[r].journalIndex, n + 1)
                             /\ \A i \in (revs[r].journalIndex + 1)..(n + 1) :
                                  Resets(l[i], b) => l[i].prev.orig # Nil \/ Made(l, b, revs[r].journalIndex, i - 1)
    BY ZenonT(30), <1>3 DEF ExistenceKept
  <2>2. PICK x \in 0..n : x = revs[r].journalIndex
    BY Zenon, <1>1 DEF Indexed
  <2>3. \A i \in (x + 1)..(n + 1) : Resets(l[i], b) \/ (Creates(l[i], b) /\ b # a) => i \in (x + 1)..n /\ l[i] = j[i]
    BY <1>3, <1>4
  <2>4. \A i \in 0..(n + 1) : Made(j, b, x, i) /\ i <= n => Made(l, b, x, i)
    BY SMTT(30), Z3T(30), <1>3 DEF Made
  <2>5. Made(j, b, x, n) => Made(l, b, x, n + 1)
    BY SMTT(30), Z3T(30), <1>3 DEF Made
  <2>6. Made(l, a, x, n + 1)
    BY SMTT(30), Z3T(30), <1>3, <1>4 DEF Made
  <2>7. \A i \in (x + 1)..n : i - 1 \in 0..(n + 1) /\ i - 1 <= n
    BY ONLY n \in Nat, x \in 0..n
  <2>8. CASE b = a
    BY Zenon, <1>1, <2>2, <2>3, <2>4, <2>6, <2>7, <2>8 DEF ExistenceKept
  <2>9. CASE b # a
    BY ZenonT(30), <1>1, <2>2, <2>3, <2>4, <2>5, <2>7, <2>9 DEF ExistenceKept
  <2>10. QED  BY ZenonT(30), <2>8, <2>9
<1>9. QED  BY <1>2, <1>7, <1>8

\* CreateAccount puts a new object in the place of one that exists.
LEMMA ObjectReset ==
  ASSUME NEW j \in Seq(Entry), NEW objs, NEW objs2, NEW st, NEW revs, NEW sv, NEW upto,
         ObjectsLoaded(j, objs, st), ExistenceKept(j, objs, revs, sv, upto), Indexed(j, revs, upto),
         NEW a \in Addr, NEW o, o # Nil, objs2[a] = o, \A b \in Addr : b # a => objs2[b] = objs[b],
         Faithful(o, a, st), NEW p, Faithful(p, a, st), NEW e, Resets(e, a), e.prev = p,
         objs[a] = Nil => p.orig # Nil /\ \A m \in 1..Len(j) : ~ Writes(j[m], a),
         objs[a] # Nil => p = objs[a]
  PROVE  ObjectsLoaded(Append(j, e), objs2, st) /\ ExistenceKept(Append(j, e), objs2, revs, sv, upto)
<1>1. PICK n \in Nat : n = Len(j)
  OBVIOUS
<1>2. PICK l : l = Append(j, e)
  BY ZenonT(30)
<1>3. Len(l) = n + 1 /\ l[n + 1] = e /\ \A m \in 1..n : l[m] = j[m]
  BY SMTT(30), Z3T(30), <1>1, <1>2
<1>4. /\ \A b \in Addr : ~ Creates(e, b) /\ ~ Writes(e, b)
      /\ \A b \in Addr : Resets(e, b) <=> b = a
  BY DEF Resets, Creates, Writes
<1>5. ASSUME NEW b \in Addr, NEW q, NEW i \in 0..n, HasRead(q, b, j, i)
      PROVE  HasRead(q, b, l, i)
  BY SMTT(30), Z3T(30), <1>3, <1>5 DEF HasRead
<1>6. ASSUME NEW b \in Addr, objs2[b] # Nil
      PROVE  Faithful(objs2[b], b, st) /\ HasRead(objs2[b], b, l, n + 1)
  <2>1. CASE b = a
    <3>1. \A m \in 1..(n + 1) : Writes(l[m], a) => n + 1 \in (m + 1)..(n + 1)
      BY <1>3, <1>4
    <3>2. QED  BY Zenon, <1>3, <1>4, <2>1, <3>1 DEF HasRead
  <2>2. CASE b # a
    <3>1. Faithful(objs[b], b, st) /\ HasRead(objs[b], b, l, n)
      BY <1>1, <1>5, <1>6, <2>2 DEF ObjectsLoaded
    <3>2. ASSUME NEW m \in 1..(n + 1), Writes(l[m], b), \A h \in (m + 1)..(n + 1) : ~ Resets(l[h], b)
          PROVE  Keeps(objs[b], l[m].key)
      <4>1. m \in 1..n /\ \A h \in (m + 1)..n : h \in (m + 1)..(n + 1)
        BY <1>3, <1>4, <3>2
      <4>2. QED  BY Zenon, <3>1, <3>2, <4>1 DEF HasRead
    <3>3. QED  BY Zenon, <2>2, <3>1, <3>2 DEF HasRead
  <2>3. QED  BY <2>1, <2>2
<1>7. ObjectsLoaded(l, objs2, st)
  <2>1. HasRead(p, a, l, n)
    <3>1. HasRead(p, a, j, n)
      BY Zenon, <1>1 DEF ObjectsLoaded, HasRead
    <3>2. n \in 0..n
      BY ONLY n \in Nat
    <3>3. QED  BY Zenon, <1>5, <3>1, <3>2
  <2>2. ASSUME NEW i \in 1..(n + 1), NEW b \in Addr, Resets(l[i], b)
        PROVE  Faithful(l[i].prev, b, st) /\ HasRead(l[i].prev, b, l, i - 1)
    <3>1. CASE i = n + 1
      <4>1. i - 1 = n /\ l[i] = e /\ b = a
        BY <1>3, <1>4, <2>2, <3>1
      <4>2. QED  BY Zenon, <2>1, <4>1
    <3>2. CASE i \in 1..n
      <4>1. l[i] = j[i] /\ i - 1 \in 0..n
        BY ONLY SMTT(30), Z3T(30), <1>3, <3>2
      <4>2. QED  BY Zenon, <1>1, <1>5, <2>2, <3>2, <4>1 DEF ObjectsLoaded
    <3>3. QED  BY <3>1, <3>2
  <2>3. QED  BY Zenon, <1>3, <1>6, <2>2 DEF ObjectsLoaded
<1>8. ExistenceKept(l, objs2, revs, sv, upto)
  <2>1. SUFFICES ASSUME NEW r \in 1..upto, NEW b \in Addr
                 PROVE  IF b \in sv[r].exist
                        THEN \/ sv[r].view.native.acct[b] # Nil
                             \/ objs2[b] # Nil /\ \A i \in (revs[r].journalIndex + 1)..(n + 1) : ~ Creates(l[i], b)
                        ELSE /\ sv[r].view.native.acct[b] = Nil
                             /\ objs2[b] = Nil \/ objs2[b].orig # Nil \/ Made(l, b, revs[r].journalIndex, n + 1)
                             /\ \A i \in (revs[r].journalIndex + 1)..(n + 1) :
                                  Resets(l[i], b) => l[i].prev.orig # Nil \/ Made(l, b, revs[r].journalIndex, i - 1)
    BY Zenon, <1>3 DEF ExistenceKept
  <2>2. PICK x \in 0..n : x = revs[r].journalIndex
    BY Zenon, <1>1 DEF Indexed
  <2>3. \A i \in (x + 1)..(n + 1) : Creates(l[i], b) \/ (Resets(l[i], b) /\ i # n + 1) => i \in (x + 1)..n /\ l[i] = j[i]
    BY ONLY <1>3, <1>4
  <2>4. \A i \in 0..(n + 1) : Made(j, b, x, i) /\ i <= n => Made(l, b, x, i)
    BY <1>3 DEF Made
  <2>5. Made(j, b, x, n) => Made(l, b, x, n + 1) /\ Made(l, b, x, n)
    BY ONLY SMTT(30), Z3T(30), <1>3 DEF Made
  <2>6. Made(l, a, x, n + 1)
    BY SMTT(30), Z3T(30), <1>3, <1>4 DEF Made
  <2>7. /\ \A i \in (x + 1)..n : i - 1 \in 0..(n + 1) /\ i - 1 <= n
        /\ n + 1 - 1 = n
    BY ONLY n \in Nat, x \in 0..n
  <2>8. CASE b = a
    <3>1. CASE a \in sv[r].exist
      BY Zenon, <1>1, <2>2, <2>3, <2>8, <3>1 DEF ExistenceKept
    <3>2. CASE a \notin sv[r].exist
      <4>1. /\ sv[r].view.native.acct[a] = Nil
            /\ objs[a] = Nil \/ objs[a].orig # Nil \/ Made(j, a, x, n)
            /\ \A i \in (x + 1)..n : Resets(j[i], a) => j[i].prev.orig # Nil \/ Made(j, a, x, i - 1)
        BY Zenon, <1>1, <2>2, <3>2 DEF ExistenceKept
      <4>2. p.orig # Nil \/ Made(l, a, x, n)
        BY Zenon, <2>5, <2>8, <4>1
      <4>3. ASSUME NEW i \in (x + 1)..(n + 1), Resets(l[i], a)
            PROVE  l[i].prev.orig # Nil \/ Made(l, a, x, i - 1)
        <5>1. CASE i = n + 1
          <6>1. i - 1 = n /\ l[i] = e
            BY <1>3, <5>1
          <6>2. QED  BY Zenon, <4>2, <6>1
        <5>2. CASE i # n + 1
          BY Zenon, <2>3, <2>4, <2>7, <2>8, <4>1, <4>3, <5>2
        <5>3. QED  BY ZenonT(30), <5>1, <5>2
      <4>4. QED  BY Zenon, <2>2, <2>6, <2>8, <3>2, <4>1, <4>3
    <3>3. QED  BY Zenon, <3>1, <3>2
  <2>9. CASE b # a
    <3>1. \A i \in (x + 1)..(n + 1) : Resets(l[i], b) => i \in (x + 1)..n /\ l[i] = j[i]
      BY <1>3, <1>4, <2>9
    <3>2. QED  BY ZenonT(30), <1>1, <2>2, <2>3, <2>4, <2>5, <2>7, <2>9, <3>1 DEF ExistenceKept
  <2>10. QED  BY ZenonT(30), <2>8, <2>9
<1>9. QED  BY <1>2, <1>7, <1>8

\* Reverting e leaves in the place of o an object q that has loaded the same,
\* and whose only slot that may have become dirty is the one e writes.
LeavesLoaded(q, o, e) ==
  /\ q # Nil
  /\ q.orig = o.orig /\ q.origin = o.origin /\ q.override = o.override
  /\ \A k \in Key : q.dirty[k] # Nil => o.dirty[k] # Nil \/ (e.op = "storage" /\ e.key = k)

\* The objects before and after e was undone.
Undone(e, objs, objs2) ==
  /\ \A b \in Addr : ~ (e.op \in ObjectOps /\ e.account = b) => objs2[b] = objs[b]
  /\ \A a \in Addr : Creates(e, a) => objs2[a] = Nil
  /\ \A a \in Addr : Resets(e, a) => objs2[a] = e.prev /\ e.prev # Nil
  /\ \A a \in Addr : e.op \in ObjectOps /\ e.account = a /\ ~ Creates(e, a) /\ ~ Resets(e, a)
                      => objs[a] # Nil /\ LeavesLoaded(objs2[a], objs[a], e)

\* l is j without its last entry e.
Shortened(l, j, n, e) == Len(j) = n + 1 /\ Len(l) = n /\ e = j[n + 1] /\ \A m \in 1..n : l[m] = j[m]

\* Revert undoes the last entry.
LEMMA EntryUndone ==
  ASSUME NEW j \in Seq(Entry), NEW objs, NEW objs2, NEW st, NEW revs, NEW sv, NEW upto, NEW n \in Nat,
         NEW l, NEW e, Shortened(l, j, n, e), ObjectsLoaded(j, objs, st), ExistenceKept(j, objs, revs, sv, upto), Indexed(l, revs, upto),
         Undone(e, objs, objs2)
  PROVE  ObjectsLoaded(l, objs2, st) /\ ExistenceKept(l, objs2, revs, sv, upto)
<1>0. /\ Len(j) = n + 1 /\ Len(l) = n /\ e = j[n + 1] /\ \A m \in 1..n : l[m] = j[m]
      /\ \A b \in Addr : ~ (e.op \in ObjectOps /\ e.account = b) => objs2[b] = objs[b]
      /\ \A a \in Addr : Creates(e, a) => objs2[a] = Nil
      /\ \A a \in Addr : Resets(e, a) => objs2[a] = e.prev /\ e.prev # Nil
      /\ \A a \in Addr : e.op \in ObjectOps /\ e.account = a /\ ~ Creates(e, a) /\ ~ Resets(e, a)
                          => objs[a] # Nil /\ LeavesLoaded(objs2[a], objs[a], e)
  BY Zenon DEF Undone, Shortened
<1> USE <1>0
<1>1. n + 1 \in 1..(n + 1) /\ \A m \in 1..n : m \in 1..(n + 1)
  BY ONLY n \in Nat
<1>2. ASSUME NEW b \in Addr, NEW p, NEW i \in 0..n, HasRead(p, b, j, i)
      PROVE  HasRead(p, b, l, i)
  <2>1. \A m \in 1..i : m \in 1..n /\ \A h \in (m + 1)..i : h \in 1..n
    BY ONLY n \in Nat, i \in 0..n
  <2>2. QED  BY ZenonT(30), <1>2, <2>1 DEF HasRead
<1>3. ASSUME NEW b \in Addr, NEW p, HasRead(p, b, j, n + 1), ~ Resets(e, b)
      PROVE  HasRead(p, b, l, n)
  <2>1. SUFFICES ASSUME NEW m \in 1..n, Writes(l[m], b), \A h \in (m + 1)..n : ~ Resets(l[h], b)
                 PROVE  Keeps(p, l[m].key)
    BY Zenon DEF HasRead
  <2>2. \A h \in (m + 1)..(n + 1) : h = n + 1 \/ (h \in (m + 1)..n /\ h \in 1..n)
    BY ONLY n \in Nat, m \in 1..n
  <2>3. \A h \in (m + 1)..(n + 1) : ~ Resets(j[h], b)
    BY Zenon, <1>3, <2>1, <2>2
  <2>4. QED  BY Zenon, <1>1, <1>3, <2>1, <2>3 DEF HasRead
<1>4. ASSUME NEW b \in Addr, objs2[b] # Nil
      PROVE  Faithful(objs2[b], b, st) /\ HasRead(objs2[b], b, l, n)
  <2>1. CASE Resets(e, b)
    <3>1. Faithful(e.prev, b, st) /\ HasRead(e.prev, b, j, n)
      <4>1. Faithful(e.prev, b, st) /\ HasRead(e.prev, b, j, n + 1 - 1)
        <5>1. \A m \in 1..Len(j) : Resets(j[m], b) => Faithful(j[m].prev, b, st) /\ HasRead(j[m].prev, b, j, m - 1)
          BY Zenon DEF ObjectsLoaded
        <5>2. Resets(j[n + 1], b) => Faithful(j[n + 1].prev, b, st) /\ HasRead(j[n + 1].prev, b, j, n + 1 - 1)
          BY ONLY SMTT(30), Z3T(30), n \in Nat, Len(j) = n + 1, <5>1
        <5>3. QED  BY Zenon, <2>1, <5>2
      <4>2. n + 1 - 1 = n
        BY ONLY n \in Nat
      <4>3. QED  BY Zenon, <4>1, <4>2
    <3>2. n \in 0..n
      BY ONLY n \in Nat
    <3>3. QED  BY Zenon, <1>2, <2>1, <3>1, <3>2
  <2>2. CASE ~ Resets(e, b) /\ ~ (e.op \in ObjectOps /\ e.account = b)
    BY Zenon, <1>3, <1>4, <2>2 DEF ObjectsLoaded
  <2>3. CASE ~ Resets(e, b) /\ e.op \in ObjectOps /\ e.account = b
    <3>1. objs[b] # Nil /\ LeavesLoaded(objs2[b], objs[b], e)
      BY Zenon, <1>4, <2>3
    <3>2. Faithful(objs[b], b, st) /\ HasRead(objs[b], b, j, n + 1) /\ HasRead(objs[b], b, l, n)
      BY ZenonT(30), <1>3, <2>3, <3>1 DEF ObjectsLoaded
    <3>3. HasRead(objs2[b], b, l, n)
      BY ZenonT(30), <3>1, <3>2 DEF HasRead, Keeps, LeavesLoaded
    <3>4. Writes(e, b) => Keeps(objs[b], e.key)
      <4>1. \A h \in (n + 1 + 1)..(n + 1) : FALSE
        BY ONLY n \in Nat
      <4>2. QED  BY Zenon, <1>1, <3>2, <4>1 DEF HasRead
    <3>5. ASSUME NEW k \in Key, objs2[b].dirty[k] # Nil
          PROVE  Keeps(objs2[b], k)
      <4>1. Keeps(objs[b], k)
        BY Zenon, <2>3, <3>1, <3>2, <3>4, <3>5 DEF LeavesLoaded, Faithful, Writes
      <4>2. QED  BY Zenon, <3>1, <4>1 DEF Keeps, LeavesLoaded
    <3>6. Faithful(objs2[b], b, st)
      <4>1. objs2[b].orig = objs[b].orig /\ objs2[b].origin = objs[b].origin
        BY Zenon, <3>1 DEF LeavesLoaded
      <4>2. \A k \in Key : objs2[b].origin[k] # Nil => objs2[b].origin[k] = st.stor[b][k]
        BY Zenon, <3>2, <4>1 DEF Faithful
      <4>3. objs2[b].orig # Nil =>
              \/ objs2[b].orig = GetAccount(st.native, b)
              \/ st.native.acct[b] = Nil /\ objs2[b].orig = [nonce |-> 0, code |-> NoCode]
        BY ONLY <3>2, <4>1 DEF Faithful
      <4>4. QED  BY Zenon, <3>5, <4>2, <4>3 DEF Faithful
    <3>7. QED  BY Zenon, <3>3, <3>6
  <2>4. QED  BY Zenon, <2>1, <2>2, <2>3
<1>5. ObjectsLoaded(l, objs2, st)
  <2>1. ASSUME NEW i \in 1..n, NEW b \in Addr, Resets(l[i], b)
        PROVE  Faithful(l[i].prev, b, st) /\ HasRead(l[i].prev, b, l, i - 1)
    <3>1. i - 1 \in 0..n
      BY ONLY n \in Nat, i \in 1..n
    <3>2. QED  BY ZenonT(30), <1>1, <1>2, <2>1, <3>1 DEF ObjectsLoaded
  <2>2. QED  BY Zenon, <1>4, <2>1 DEF ObjectsLoaded
<1>6. ExistenceKept(l, objs2, revs, sv, upto)
  <2>1. SUFFICES ASSUME NEW r \in 1..upto, NEW b \in Addr
                 PROVE  IF b \in sv[r].exist
                        THEN \/ sv[r].view.native.acct[b] # Nil
                             \/ objs2[b] # Nil /\ \A i \in (revs[r].journalIndex + 1)..n : ~ Creates(l[i], b)
                        ELSE /\ sv[r].view.native.acct[b] = Nil
                             /\ objs2[b] = Nil \/ objs2[b].orig # Nil \/ Made(l, b, revs[r].journalIndex, n)
                             /\ \A i \in (revs[r].journalIndex + 1)..n :
                                  Resets(l[i], b) => l[i].prev.orig # Nil \/ Made(l, b, revs[r].journalIndex, i - 1)
    BY ZenonT(30) DEF ExistenceKept
  <2>2. PICK x \in 0..n : x = revs[r].journalIndex
    BY Zenon DEF Indexed
  <2>3. /\ n + 1 \in (x + 1)..(n + 1)
        /\ \A i \in (x + 1)..n : i \in (x + 1)..(n + 1) /\ i \in 1..n /\ i - 1 \in 0..n
    BY ONLY n \in Nat, x \in 0..n
  <2>4. \A i \in 0..n : Made(j, b, x, i) => Made(l, b, x, i)
    <3>1. \A i \in 0..n : \A m \in (x + 1)..i : m \in 1..n
      BY ONLY n \in Nat, x \in 0..n
    <3>2. QED  BY Zenon, <3>1 DEF Made
  <2>5. Made(j, b, x, n + 1) => Made(l, b, x, n) \/ Creates(e, b) \/ Resets(e, b)
    <3>1. \A m \in (x + 1)..(n + 1) : m = n + 1 \/ (m \in (x + 1)..n /\ m \in 1..n)
      BY ONLY n \in Nat, x \in 0..n
    <3>2. QED  BY Zenon, <3>1 DEF Made
  <2>6. CASE b \in sv[r].exist
    <3>1. \/ sv[r].view.native.acct[b] # Nil
          \/ objs[b] # Nil /\ \A i \in (x + 1)..(n + 1) : ~ Creates(j[i], b)
      BY Zenon, <2>2, <2>6 DEF ExistenceKept
    <3>2. objs[b] # Nil /\ ~ Creates(e, b) => objs2[b] # Nil
      BY Zenon DEF LeavesLoaded
    <3>3. QED  BY Zenon, <2>2, <2>3, <2>6, <3>1, <3>2
  <2>7. CASE b \notin sv[r].exist
    <3>1. /\ sv[r].view.native.acct[b] = Nil
          /\ objs[b] = Nil \/ objs[b].orig # Nil \/ Made(j, b, x, n + 1)
          /\ \A i \in (x + 1)..(n + 1) : Resets(j[i], b) => j[i].prev.orig # Nil \/ Made(j, b, x, i - 1)
      <4>1. \A i, a : i \in 1..upto /\ a \in Addr /\ a \notin sv[i].exist =>
               /\ sv[i].view.native.acct[a] = Nil
               /\ objs[a] = Nil \/ objs[a].orig # Nil \/ Made(j, a, revs[i].journalIndex, n + 1)
               /\ \A m \in (revs[i].journalIndex + 1)..(n + 1) :
                    Resets(j[m], a) => j[m].prev.orig # Nil \/ Made(j, a, revs[i].journalIndex, m - 1)
        BY ZenonT(60) DEF ExistenceKept
      <4>2. QED  BY ONLY ZenonT(30), r \in 1..upto, b \in Addr, <2>2, <2>7, <4>1
    <3>2. Resets(e, b) => e.prev.orig # Nil \/ Made(l, b, x, n)
      <4>1. Resets(e, b) => e.prev.orig # Nil \/ Made(j, b, x, n + 1 - 1)
        <5>1. Resets(j[n + 1], b) => j[n + 1].prev.orig # Nil \/ Made(j, b, x, n + 1 - 1)
          BY ONLY <2>3, <3>1
        <5>2. QED  BY Zenon, <5>1
      <4>2. n + 1 - 1 = n /\ n \in 0..n
        BY ONLY n \in Nat
      <4>3. QED  BY Zenon, <2>4, <4>1, <4>2
    <3>3. objs2[b] = Nil \/ objs2[b].orig # Nil \/ Made(l, b, x, n)
      <4>1. CASE Resets(e, b)
        BY Zenon, <3>2, <4>1
      <4>2. CASE Creates(e, b)
        BY Zenon, <4>2
      <4>3. CASE ~ Resets(e, b) /\ ~ Creates(e, b)
        <5>1. objs2[b] = objs[b] \/ (objs[b] # Nil /\ objs2[b].orig = objs[b].orig)
          BY Zenon, <4>3 DEF LeavesLoaded
        <5>2. QED  BY Zenon, <2>5, <3>1, <4>3, <5>1
      <4>4. QED  BY Zenon, <4>1, <4>2, <4>3
    <3>4. \A i \in (x + 1)..n : Resets(l[i], b) => l[i].prev.orig # Nil \/ Made(l, b, x, i - 1)
      BY Zenon, <2>3, <2>4, <3>1
    <3>5. QED  BY ZenonT(30), <2>2, <2>7, <3>1, <3>3, <3>4
  <2>8. QED  BY Zenon, <2>6, <2>7
<1>7. QED  BY <1>5, <1>6

\* Revision r is the present one, and its record says which accounts exist.
Recorded(j, objs, revs, sv, r) ==
  /\ revs[r].journalIndex = Len(j)
  /\ \A a \in Addr : a \in sv[r].exist <=> objs[a] # Nil \/ sv[r].view.native.acct[a] # Nil

\* Snapshot records which accounts exist.
LEMMA ExistenceRecorded ==
  ASSUME NEW j \in Seq(Entry), NEW objs, NEW revs, NEW sv, NEW upto \in Nat,
         ExistenceKept(j, objs, revs, sv, upto), NEW revs2, NEW sv2,
         \A r \in 1..upto : revs2[r] = revs[r] /\ sv2[r] = sv[r],
         NEW k, k = upto + 1, Recorded(j, objs, revs2, sv2, k)
  PROVE  ExistenceKept(j, objs, revs2, sv2, k)
<1>1. \A r \in 1..k : r = k \/ r \in 1..upto
  BY ONLY upto \in Nat, k = upto + 1
<1>2. \A i \in (Len(j) + 1)..Len(j) : FALSE
  OBVIOUS
<1>3. SUFFICES ASSUME NEW r \in 1..k, NEW a \in Addr
               PROVE  IF a \in sv2[r].exist
                      THEN \/ sv2[r].view.native.acct[a] # Nil
                           \/ objs[a] # Nil /\ \A n \in (revs2[r].journalIndex + 1)..Len(j) : ~ Creates(j[n], a)
                      ELSE /\ sv2[r].view.native.acct[a] = Nil
                           /\ objs[a] = Nil \/ objs[a].orig # Nil \/ Made(j, a, revs2[r].journalIndex, Len(j))
                           /\ \A n \in (revs2[r].journalIndex + 1)..Len(j) :
                                Resets(j[n], a) => j[n].prev.orig # Nil \/ Made(j, a, revs2[r].journalIndex, n - 1)
  BY Zenon DEF ExistenceKept
<1>4. CASE r = k
  <2>1. revs2[r].journalIndex = Len(j) /\ (a \in sv2[r].exist <=> objs[a] # Nil \/ sv2[r].view.native.acct[a] # Nil)
    BY Zenon, <1>4 DEF Recorded
  <2>2. QED  BY Zenon, <1>2, <2>1
<1>5. CASE r \in 1..upto
  <2>1. revs2[r] = revs[r] /\ sv2[r] = sv[r]
    BY Zenon, <1>5
  <2>2. QED  BY ONLY a \in Addr, ExistenceKept(j, objs, revs, sv, upto), <1>5, <2>1 DEF ExistenceKept
<1>6. QED  BY Zenon, <1>1, <1>4, <1>5

-----------------------------------------------------------------------------
(* The objects during a message *)

Tracked(j, objs, st, revs, sv, upto) ==
  /\ j \in Seq(Entry)
  /\ ObjectsLoaded(j, objs, st)
  /\ ExistenceKept(j, objs, revs, sv, upto)
  /\ Indexed(j, revs, upto)

\* The inductive invariant of CommitPersistsView and RevertRestoresExist, beside
\* RevertInv.
Held ==
  Unfinished => /\ ConsistentStore(store)
                /\ Tracked(journal, stateObjects, store, validRevisions, saved, Upto)

\* Appending an entry that makes no object.
LEMMA TrackedAppend ==
  ASSUME NEW j, NEW objs, NEW st, NEW revs, NEW sv, NEW upto, Tracked(j, objs, st, revs, sv, upto),
         NEW e \in Entry, e.op \notin {"createObject", "resetObject"},
         e.op = "storage" => Keeps(objs[e.account], e.key)
  PROVE  Tracked(Append(j, e), objs, st, revs, sv, upto)
<1>1. e.op = "storage" => e.account \in Addr /\ Keeps(objs[e.account], e.key)
  BY Zenon, EntryElim DEF ObjectOps
<1>2. ObjectsLoaded(Append(j, e), objs, st) /\ ExistenceKept(Append(j, e), objs, revs, sv, upto)
  BY Zenon, <1>1, EntryAppended DEF Tracked
<1>3. Append(j, e) \in Seq(Entry) /\ Indexed(Append(j, e), revs, upto)
  BY ONLY Tracked(j, objs, st, revs, sv, upto), e \in Entry DEF Tracked, Indexed
<1>4. QED  BY Zenon, <1>2, <1>3 DEF Tracked

\* An object that was loaded, or made.
LEMMA FaithfulNew ==
  ASSUME NEW st, NEW a \in Addr, NEW acct,
         \/ acct = Nil \/ acct = GetAccount(st.native, a)
         \/ st.native.acct[a] = Nil /\ acct = [nonce |-> 0, code |-> NoCode]
  PROVE  Faithful(NewObject(acct), a, st) /\ NewObject(acct).orig = acct
<1>1. PICK o : o = NewObject(acct)
  BY Zenon
<1>2. o.orig = acct /\ \A k \in Key : o.origin[k] = Nil /\ o.dirty[k] = Nil
  BY ONLY <1>1 DEF NewObject
<1>3. Faithful(o, a, st)
  BY Zenon, <1>2 DEF Faithful
<1>4. QED  BY Zenon, <1>1, <1>2, <1>3

\* An object that has loaded the same, with the same dirty slots.
LEMMA FaithfulSame ==
  ASSUME NEW st, NEW a \in Addr, NEW o, NEW q, Faithful(o, a, st),
         q.orig = o.orig, q.origin = o.origin, q.override = o.override, q.dirty = o.dirty
  PROVE  Faithful(q, a, st) /\ \A k \in Key : Keeps(o, k) => Keeps(q, k)
BY DEF Faithful, Keeps

\* A slot is read before it is written.
LEMMA FaithfulCached ==
  ASSUME NEW st, NEW a \in Addr, NEW o \in StateObject, Faithful(o, a, st), st.stor[a] \in [Key -> Val],
         NEW k \in Key, NEW q, q = Cached(o, st.stor[a], k)
  PROVE  /\ Faithful(q, a, st) /\ q.orig = o.orig /\ Keeps(q, k)
         /\ \A h \in Key : Keeps(o, h) => Keeps(q, h)
<1>1. CASE o.dirty[k] = Nil /\ o.override = Nil
  <2>1. PICK v : v = Committed(o, st.stor[a], k)
    BY Zenon
  <2>2. v = st.stor[a][k]
    BY Zenon, <1>1, <2>1 DEF Committed, Faithful
  <2>3. v # Nil
    BY ONLY SMTT(30), Z3T(30), <2>2, k \in Key, st.stor[a] \in [Key -> Val], ConstantsAssumption
  <2>4. q = [o EXCEPT !.origin[k] = v]
    BY Zenon, <1>1, <2>1 DEF Cached
  <2>5. /\ q.orig = o.orig /\ q.override = o.override /\ q.dirty = o.dirty
        /\ \A h \in Key : q.origin[h] = IF h = k THEN v ELSE o.origin[h]
    BY ONLY <2>4, o \in StateObject, k \in Key DEF StateObject
  <2>6. Keeps(q, k) /\ \A h \in Key : Keeps(o, h) => Keeps(q, h)
    BY Zenon, <2>3, <2>5 DEF Keeps
  <2>7. \A h \in Key : q.origin[h] # Nil => q.origin[h] = st.stor[a][h]
    BY Zenon, <2>2, <2>5 DEF Faithful
  <2>8. \A h \in Key : q.dirty[h] # Nil => Keeps(q, h)
    BY Zenon, <2>5, <2>6 DEF Faithful
  <2>9. q.orig # Nil => \/ q.orig = GetAccount(st.native, a)
                        \/ (st.native.acct[a] = Nil /\ q.orig = [nonce |-> 0, code |-> NoCode])
    BY ONLY <2>5, Faithful(o, a, st) DEF Faithful
  <2>10. QED  BY Zenon, <2>5, <2>6, <2>7, <2>8, <2>9 DEF Faithful
<1>2. CASE ~ (o.dirty[k] = Nil /\ o.override = Nil)
  <2>1. q = o
    BY Zenon, <1>2 DEF Cached
  <2>2. Keeps(o, k)
    BY Zenon, <1>2 DEF Faithful, Keeps
  <2>3. QED  BY Zenon, <2>1, <2>2
<1>3. QED  BY Zenon, <1>1, <1>2

\* What getStateObject and getOrNewStateObject return has loaded what the parent holds.
LEMMA GetOrNewLoaded ==
  ASSUME Safe, Held, Unfinished, NEW a \in Addr
  PROVE  /\ Faithful(GetOrNew(a), a, store)
         /\ stateObjects[a] # Nil => GetOrNew(a) = stateObjects[a]
         /\ stateObjects[a] = Nil /\ Exist(a) => GetOrNew(a).orig # Nil
         /\ Exist(a) <=> stateObjects[a] # Nil \/ native.acct[a] # Nil
<1>1. CASE stateObjects[a] # Nil
  <2>1. GetOrNew(a) = stateObjects[a] /\ Exist(a)
    BY Zenon, <1>1 DEF GetOrNew, Exist, GetStateObject
  <2>2. Faithful(stateObjects[a], a, store)
    BY Zenon, <1>1 DEF Held, Tracked, ObjectsLoaded
  <2>3. QED  BY Zenon, <1>1, <2>1, <2>2
<1>2. CASE stateObjects[a] = Nil
  <2>1. PICK x : x = GetAccount(native, a)
    BY Zenon
  <2>2. native \in Native /\ NativeOK(native, store)
    BY Zenon, InvData DEF DataOK, NativeOK
  <2>3. x \in Account \cup {Nil} /\ (x = Nil <=> native.acct[a] = Nil)
    BY Zenon, <2>1, <2>2, GetAccountType
  <2>4. NewObject(x) # Nil
    BY Zenon, <2>3, NewObjectType
  <2>5. GetOrNew(a) = NewObject(x) /\ (Exist(a) <=> x # Nil)
    BY Zenon, <1>2, <2>1, <2>4 DEF GetOrNew, Exist, GetStateObject
  <2>6. x = Nil \/ x = GetAccount(store.native, a)
        \/ (store.native.acct[a] = Nil /\ x = [nonce |-> 0, code |-> NoCode])
    <3>1. CASE native.acct[a] = store.native.acct[a]
      BY Zenon, <2>1, <3>1 DEF GetAccount
    <3>2. CASE store.native.acct[a] = Nil /\ native.acct[a] = NewAccount
      <4>1. NewAccount # Nil
        BY ConstantsAssumption DEF NewAccount, AuthAccount
      <4>2. NewAccount.nonce = 0 /\ NewAccount.code = NoCode /\ NewAccount.kind = "eth"
        BY Zenon DEF NewAccount
      <4>3. QED  BY Zenon, <2>1, <3>2, <4>1, <4>2 DEF GetAccount
    <3>3. QED  BY Zenon, <2>2, <3>1, <3>2 DEF NativeOK
  <2>7. Faithful(NewObject(x), a, store) /\ NewObject(x).orig = x
    BY ZenonT(30), <2>6, FaithfulNew
  <2>8. QED  BY Zenon, <1>2, <2>3, <2>5, <2>7
<1>3. QED  BY Zenon, <1>1, <1>2

\* An account without an object has no entries.
LEMMA NoEntries ==
  ASSUME Safe, NEW a \in Addr, stateObjects[a] = Nil
  PROVE  \A m \in 1..Len(journal) : ~ Writes(journal[m], a)
<1>1. Bookkeeping(journal, dirties, stateObjects)
  BY Zenon, SafeIs DEF RevertInv
<1>2. \A m \in 1..Len(journal) : journal[m].op \in ObjectOps => stateObjects[journal[m].account] # Nil
  BY Zenon, <1>1 DEF Bookkeeping
<1>3. QED  BY Zenon, <1>2 DEF Writes, ObjectOps

\* An object is put in the place of the one getOrNewStateObject returned.
LEMMA PutTracked ==
  ASSUME Safe, Held, Unfinished, NEW a \in Addr, NEW o, o # Nil, NEW objs2,
         objs2 = [stateObjects EXCEPT ![a] = o], Faithful(o, a, store), o.orig = GetOrNew(a).orig,
         \A k \in Key : Keeps(GetOrNew(a), k) => Keeps(o, k)
  PROVE  /\ Exist(a) => Tracked(journal, objs2, store, validRevisions, saved, Upto)
         /\ ~ Exist(a) => Tracked(Append(journal, [op |-> "createObject", account |-> a]), objs2, store,
                                  validRevisions, saved, Upto)
<1>1. Tracked(journal, stateObjects, store, validRevisions, saved, Upto)
  BY Zenon DEF Held
<1>2. objs2[a] = o /\ \A b \in Addr : b # a => objs2[b] = stateObjects[b]
  <2>1. stateObjects \in [Addr -> StateObject \cup {Nil}]
    BY Zenon, InvData DEF DataOK
  <2>2. QED  BY Zenon, <2>1
<1>3. CASE Exist(a)
  <2>1. stateObjects[a] = Nil => o.orig # Nil /\ \A m \in 1..Len(journal) : ~ Writes(journal[m], a)
    BY Zenon, <1>3, GetOrNewLoaded, NoEntries
  <2>2. stateObjects[a] # Nil => o.orig = stateObjects[a].orig /\ \A k \in Key : Keeps(stateObjects[a], k) => Keeps(o, k)
    BY Zenon, GetOrNewLoaded
  <2>3. ObjectsLoaded(journal, objs2, store) /\ ExistenceKept(journal, objs2, validRevisions, saved, Upto)
    BY ZenonT(60), <1>1, <1>2, <2>1, <2>2, ObjectReplaced DEF Tracked
  <2>4. QED  BY Zenon, <1>1, <1>3, <2>3 DEF Tracked
<1>4. CASE ~ Exist(a)
  <2>1. PICK e : e = [op |-> "createObject", account |-> a]
    BY Zenon
  <2>2. stateObjects[a] = Nil /\ \A m \in 1..Len(journal) : ~ Writes(journal[m], a)
    BY Zenon, <1>4, GetOrNewLoaded, NoEntries
  <2>3. /\ ObjectsLoaded(Append(journal, e), objs2, store)
        /\ ExistenceKept(Append(journal, e), objs2, validRevisions, saved, Upto)
    BY ZenonT(30), <1>1, <1>2, <2>1, <2>2, ObjectCreated DEF Tracked
  <2>4. Append(journal, e) \in Seq(Entry) /\ Indexed(Append(journal, e), validRevisions, Upto)
    <3>1. e \in Entry
      BY Zenon, <2>1 DEF Entry
    <3>2. QED  BY ONLY <1>1, <3>1 DEF Tracked, Indexed
  <2>5. QED  BY Zenon, <1>4, <2>1, <2>3, <2>4 DEF Tracked
<1>5. QED  BY Zenon, <1>3, <1>4

\* Reassembling the invariant after an operation.
LEMMA HeldAgain ==
  ASSUME Held, Unfinished, UNCHANGED Control,
         Tracked(journal', stateObjects', store, validRevisions, saved, Upto)
  PROVE  Held'
<1>1. /\ store' = store /\ validRevisions' = validRevisions /\ saved' = saved /\ phase' = phase
      /\ target' = target
  BY Zenon DEF Control
<1>2. Upto' = Upto /\ ConsistentStore(store)
  BY Zenon, <1>1 DEF Upto, Held
<1>3. QED  BY Zenon, <1>1, <1>2 DEF Held

\* Nothing is appended and no object changes.
LEMMA HeldStays ==
  ASSUME Held, UNCHANGED Control, stateObjects' = stateObjects, journal' = journal
  PROVE  Held'
<1>1. /\ store' = store /\ validRevisions' = validRevisions /\ saved' = saved /\ phase' = phase
      /\ target' = target
  BY Zenon DEF Control
<1>2. Upto' = Upto /\ (Unfinished' <=> Unfinished)
  BY Zenon, <1>1 DEF Upto, Unfinished
<1>3. QED  BY Zenon, <1>1, <1>2 DEF Held

\* An entry is appended that concerns no object.
LEMMA HeldAppends ==
  ASSUME Held, Unfinished, UNCHANGED Control, stateObjects' = stateObjects,
         NEW e \in Entry, e.op \notin ObjectOps, journal' = Append(journal, e)
  PROVE  Held'
<1>1. e.op \notin {"createObject", "resetObject"} /\ e.op # "storage"
  BY Zenon DEF ObjectOps
<1>2. Tracked(Append(journal, e), stateObjects, store, validRevisions, saved, Upto)
  BY Zenon, <1>1, TrackedAppend DEF Held
<1>3. QED  BY Zenon, <1>2, HeldAgain

\* Two such entries.
LEMMA HeldAppendsTwo ==
  ASSUME Held, Unfinished, UNCHANGED Control, stateObjects' = stateObjects,
         NEW e1 \in Entry, e1.op \notin ObjectOps, NEW e2 \in Entry, e2.op \notin ObjectOps,
         journal' = Append(Append(journal, e1), e2)
  PROVE  Held'
<1>1. /\ e1.op \notin {"createObject", "resetObject"} /\ e1.op # "storage"
      /\ e2.op \notin {"createObject", "resetObject"} /\ e2.op # "storage"
  BY Zenon DEF ObjectOps
<1>2. Tracked(Append(journal, e1), stateObjects, store, validRevisions, saved, Upto)
  BY Zenon, <1>1, TrackedAppend DEF Held
<1>3. Tracked(Append(Append(journal, e1), e2), stateObjects, store, validRevisions, saved, Upto)
  BY Zenon, <1>1, <1>2, TrackedAppend
<1>4. QED  BY Zenon, <1>3, HeldAgain

\* A step that puts object o, which has loaded what getOrNewStateObject(a)
\* had, in the place of the object of a.
PutsLoaded(a, o) ==
  /\ phase \in {"setup", "running"}
  /\ UNCHANGED Control
  /\ o # Nil /\ stateObjects' = [stateObjects EXCEPT ![a] = o]
  /\ Faithful(o, a, store) /\ o.orig = GetOrNew(a).orig
  /\ \A k \in Key : Keeps(GetOrNew(a), k) => Keeps(o, k)

\* The entry of getOrNewStateObject is all that it appends.
LEMMA HeldLoads ==
  ASSUME Safe, Held, NEW a \in Addr, NEW o, PutsLoaded(a, o),
         IF Exist(a) THEN journal' = journal ELSE journal' = Append(journal, [op |-> "createObject", account |-> a])
  PROVE  Held'
<1>1. Unfinished
  BY Zenon DEF PutsLoaded, Unfinished
<1>2. Tracked(journal', stateObjects', store, validRevisions, saved, Upto)
  BY Zenon, <1>1, PutTracked DEF PutsLoaded
<1>3. QED  BY Zenon, <1>1, <1>2, HeldAgain DEF PutsLoaded

\* Entry e follows.
LEMMA HeldChanges ==
  ASSUME Safe, Held, NEW a \in Addr, NEW o, PutsLoaded(a, o), NEW e \in Entry,
         e.op \notin {"createObject", "resetObject"}, e.op = "storage" => e.account = a /\ Keeps(o, e.key),
         AppendAfterGetOrNew(a, e)
  PROVE  Held'
<1>1. Unfinished
  BY Zenon DEF PutsLoaded, Unfinished
<1>2. PICK c : c = [op |-> "createObject", account |-> a]
  BY Zenon
<1>3. PICK j : /\ Tracked(j, stateObjects', store, validRevisions, saved, Upto)
               /\ journal' = Append(j, e)
  <2>1. CASE Exist(a)
    BY Zenon, <1>1, <2>1, PutTracked DEF PutsLoaded, AppendAfterGetOrNew, Append1
  <2>2. CASE ~ Exist(a)
    BY Zenon, <1>1, <2>2, PutTracked DEF PutsLoaded, AppendAfterGetOrNew, Append2
  <2>3. QED  BY Zenon, <2>1, <2>2
<1>4. stateObjects'[a] = o
  <2>1. stateObjects \in [Addr -> StateObject \cup {Nil}]
    BY Zenon, <1>1, InvData DEF DataOK
  <2>2. QED  BY Zenon, <2>1 DEF PutsLoaded
<1>5. e.op = "storage" => Keeps(stateObjects'[e.account], e.key)
  BY Zenon, <1>4
<1>6. Tracked(Append(j, e), stateObjects', store, validRevisions, saved, Upto)
  BY Zenon, <1>3, <1>5, TrackedAppend
<1>7. QED  BY Zenon, <1>1, <1>3, <1>6, HeldAgain DEF PutsLoaded

\* What the operations on objects rely on.
LEMMA GetOrNewFacts ==
  ASSUME Safe, Held, phase \in {"setup", "running"}, NEW a \in Addr
  PROVE  /\ GetOrNew(a) \in StateObject /\ Faithful(GetOrNew(a), a, store) /\ store.stor[a] \in [Key -> Val]
         /\ Exist(a) => GetStateObject(a) = GetOrNew(a)
<1>1. Unfinished
  BY Zenon DEF Unfinished
<1>2. QED  BY Zenon, <1>1, ObjectFacts, GetOrNewLoaded

\* Touch, GetState and SetStorage load an object, or override its storage.
LEMMA LoadHeld ==
  ASSUME Safe, Held, NEW a \in Addr,
         \/ Touch(a) \/ (\E k \in Key : GetState(a, k)) \/ (\E storage \in [Key -> Val] : SetStorage(a, storage))
  PROVE  Held'
<1>1. phase \in {"setup", "running"} /\ UNCHANGED Control
  BY Zenon DEF Touch, GetState, SetStorage, Overriding, Control, revisionVars, controlVars
<1>2. PICK p : p = GetOrNew(a)
  BY Zenon
<1>3. /\ p \in StateObject /\ p # Nil /\ Faithful(p, a, store) /\ store.stor[a] \in [Key -> Val]
      /\ Exist(a) => GetStateObject(a) = p
  BY Zenon, <1>1, <1>2, GetOrNewFacts, ConstantsAssumption
<1>4. CASE Touch(a)
  <2>1. Exist(a) /\ stateObjects' = [stateObjects EXCEPT ![a] = p] /\ journal' = journal
    BY Zenon, <1>3, <1>4 DEF Touch, journalVars
  <2>2. PutsLoaded(a, p)
    BY Zenon, <1>1, <1>2, <1>3, <2>1 DEF PutsLoaded
  <2>3. QED  BY Zenon, <2>1, <2>2, HeldLoads
<1>5. ASSUME NEW k \in Key, GetState(a, k)
      PROVE  Held'
  <2>1. PICK o : o = Cached(p, store.stor[a], k)
    BY Zenon
  <2>2. Exist(a) /\ stateObjects' = [stateObjects EXCEPT ![a] = o] /\ journal' = journal
    BY Zenon, <1>3, <1>5, <2>1 DEF GetState, journalVars
  <2>3. o \in StateObject /\ o # Nil
    <3>1. Cached(p, store.stor[a], k) \in StateObject
      BY Zenon, <1>3, CachedShown
    <3>2. QED  BY Zenon, <2>1, <3>1, ConstantsAssumption
  <2>4. PutsLoaded(a, o)
    <3>1. Faithful(o, a, store) /\ o.orig = p.orig /\ \A h \in Key : Keeps(p, h) => Keeps(o, h)
      BY ONLY SMTT(30), Z3T(30), <1>3, <2>1, a \in Addr, k \in Key, FaithfulCached
    <3>2. QED  BY ZenonT(30), <1>1, <1>2, <2>2, <2>3, <3>1 DEF PutsLoaded
  <2>5. QED  BY Zenon, <2>2, <2>4, HeldLoads
<1>6. ASSUME NEW storage \in [Key -> Val], SetStorage(a, storage)
      PROVE  Held'
  <2>1. PICK o : o = [p EXCEPT !.override = storage, !.origin = [k \in Key |-> Nil], !.dirty = [k \in Key |-> Nil]]
    BY Zenon
  <2>2. stateObjects' = [stateObjects EXCEPT ![a] = o]
    BY Zenon, <1>2, <1>6, <2>1 DEF SetStorage
  <2>3. IF Exist(a) THEN journal' = journal ELSE journal' = Append(journal, [op |-> "createObject", account |-> a])
    BY Zenon, <1>6 DEF SetStorage, journalVars, Append1
  <2>4. /\ o \in StateObject /\ o.orig = p.orig /\ o.override = storage
        /\ o.origin = [k \in Key |-> Nil] /\ o.dirty = [k \in Key |-> Nil]
    BY ONLY ZenonT(30), <1>3, <2>1, storage \in [Key -> Val] DEF StateObject
  <2>5. o # Nil /\ storage # Nil
    BY Zenon, <2>4, ConstantsAssumption
  <2>6. \A k \in Key : o.origin[k] = Nil /\ o.dirty[k] = Nil /\ Keeps(o, k)
    BY Zenon, <2>4, <2>5 DEF Keeps
  <2>7. Faithful(o, a, store)
    BY ONLY <1>3, <2>4, <2>6 DEF Faithful
  <2>8. PutsLoaded(a, o)
    BY Zenon, <1>1, <1>2, <2>2, <2>4, <2>5, <2>6, <2>7 DEF PutsLoaded
  <2>9. QED  BY Zenon, <2>3, <2>8, HeldLoads
<1>7. QED  BY Zenon, <1>4, <1>5, <1>6

\* CreateContract, SetNonce and SetCode change an object's own fields.
LEMMA FieldHeld ==
  ASSUME Safe, Held, NEW a \in Addr,
         CreateContract(a) \/ (\E n \in 0..MaxNonce : SetNonce(a, n)) \/ (\E c \in Code : SetCode(a, c))
  PROVE  Held'
<1>1. phase \in {"setup", "running"} /\ UNCHANGED Control
  BY Zenon DEF CreateContract, SetNonce, SetCode, Running, Overriding, Control, revisionVars, controlVars
<1>2. PICK p : p = GetOrNew(a)
  BY Zenon
<1>3. p \in StateObject /\ Faithful(p, a, store) /\ (Exist(a) => GetStateObject(a) = p)
  BY Zenon, <1>1, <1>2, GetOrNewFacts
<1>4. ASSUME NEW o \in StateObject, stateObjects' = [stateObjects EXCEPT ![a] = o],
             o.orig = p.orig, o.origin = p.origin, o.override = p.override, o.dirty = p.dirty
      PROVE  PutsLoaded(a, o)
  <2>1. o # Nil
    BY Zenon, ConstantsAssumption
  <2>2. Faithful(o, a, store) /\ \A k \in Key : Keeps(p, k) => Keeps(o, k)
    BY Zenon, <1>3, <1>4, FaithfulSame
  <2>3. QED  BY Zenon, <1>1, <1>2, <1>4, <2>1, <2>2 DEF PutsLoaded
<1>5. CASE CreateContract(a)
  <2>1. PICK o, e : o = [p EXCEPT !.newContract = TRUE] /\ e = [op |-> "createContract", account |-> a]
    BY Zenon
  <2>2. o \in StateObject /\ o.orig = p.orig /\ o.origin = p.origin /\ o.override = p.override /\ o.dirty = p.dirty
    BY ONLY ZenonT(30), <1>3, <2>1 DEF StateObject
  <2>3. stateObjects' = [stateObjects EXCEPT ![a] = o] /\ AppendAfterGetOrNew(a, e)
    BY Zenon, <1>3, <1>5, <2>1 DEF CreateContract, AppendAfterGetOrNew
  <2>4. e \in Entry /\ e.op \notin {"createObject", "resetObject"} /\ e.op # "storage"
    BY ONLY a \in Addr, <2>1 DEF Entry
  <2>5. QED  BY Zenon, <1>4, <2>2, <2>3, <2>4, HeldChanges
<1>6. ASSUME NEW n \in 0..MaxNonce, SetNonce(a, n)
      PROVE  Held'
  <2>1. PICK o, e : o = [p EXCEPT !.nonce = n] /\ e = [op |-> "nonce", account |-> a, prev |-> p.nonce]
    BY Zenon
  <2>2. o \in StateObject /\ o.orig = p.orig /\ o.origin = p.origin /\ o.override = p.override /\ o.dirty = p.dirty
    BY ONLY SMTT(30), Z3T(30), <1>3, <2>1, n \in 0..MaxNonce, ConstantsAssumption DEF StateObject
  <2>3. stateObjects' = [stateObjects EXCEPT ![a] = o] /\ AppendAfterGetOrNew(a, e)
    BY Zenon, <1>2, <1>6, <2>1 DEF SetNonce
  <2>4. e \in Entry /\ e.op \notin {"createObject", "resetObject"} /\ e.op # "storage"
    BY ONLY Zenon, a \in Addr, <1>3, <2>1 DEF Entry, StateObject
  <2>5. QED  BY Zenon, <1>4, <2>2, <2>3, <2>4, HeldChanges
<1>7. ASSUME NEW c \in Code, SetCode(a, c)
      PROVE  Held'
  <2>1. PICK o, e : o = [p EXCEPT !.code = c] /\ e = [op |-> "code", account |-> a, prevhash |-> p.code]
    BY Zenon
  <2>2. o \in StateObject /\ o.orig = p.orig /\ o.origin = p.origin /\ o.override = p.override /\ o.dirty = p.dirty
    BY ONLY <1>3, <2>1, c \in Code DEF StateObject
  <2>3. stateObjects' = [stateObjects EXCEPT ![a] = o] /\ AppendAfterGetOrNew(a, e)
    BY Zenon, <1>2, <1>7, <2>1 DEF SetCode
  <2>4. e \in Entry /\ e.op \notin {"createObject", "resetObject"} /\ e.op # "storage"
    BY ONLY SMTT(30), Z3T(30), a \in Addr, <1>3, <2>1 DEF Entry, StateObject
  <2>5. QED  BY Zenon, <1>4, <2>2, <2>3, <2>4, HeldChanges
<1>8. QED  BY Zenon, <1>5, <1>6, <1>7

\* SetState writes a slot that it has read.
LEMMA SetStateHeld ==
  ASSUME Safe, Held, NEW a \in Addr, NEW k \in Key, NEW v \in Val, SetState(a, k, v)
  PROVE  Held'
<1>1. phase \in {"setup", "running"} /\ UNCHANGED Control
  BY Zenon DEF SetState, Running, Overriding, Control, revisionVars, controlVars
<1>2. PICK p, slots : p = GetOrNew(a) /\ slots = store.stor[a]
  BY Zenon
<1>3. p \in StateObject /\ Faithful(p, a, store) /\ slots \in [Key -> Val]
  BY Zenon, <1>1, <1>2, GetOrNewFacts
<1>4. PICK obj, prev : obj = Cached(p, slots, k) /\ prev = Current(p, slots, k)
  BY Zenon
<1>5. obj \in StateObject /\ prev \in Val
  <2>1. Cached(p, slots, k) \in StateObject /\ Current(p, slots, k) \in Val
    BY Zenon, <1>3, CachedShown
  <2>2. QED  BY Zenon, <1>4, <2>1
<1>6. Faithful(obj, a, store) /\ obj.orig = p.orig /\ Keeps(obj, k) /\ \A h \in Key : Keeps(p, h) => Keeps(obj, h)
  BY ONLY SMTT(30), Z3T(30), <1>2, <1>3, <1>4, a \in Addr, k \in Key, FaithfulCached
<1>7. CASE prev # v
  <2>1. PICK o, e : /\ o = [obj EXCEPT !.dirty[k] = v]
                    /\ e = [op |-> "storage", account |-> a, key |-> k, prevalue |-> prev]
    BY Zenon
  <2>2. stateObjects' = [stateObjects EXCEPT ![a] = o] /\ AppendAfterGetOrNew(a, e)
    BY Zenon, <1>2, <1>4, <1>7, <2>1 DEF SetState
  <2>3. /\ o \in StateObject /\ o.orig = obj.orig /\ o.origin = obj.origin /\ o.override = obj.override
        /\ \A h \in Key : h # k => o.dirty[h] = obj.dirty[h]
    BY ONLY SMTT(30), Z3T(30), <1>5, <2>1, k \in Key, v \in Val DEF StateObject
  <2>4. \A h \in Key : Keeps(o, h) <=> Keeps(obj, h)
    BY Zenon, <2>3 DEF Keeps
  <2>5. Faithful(o, a, store)
    BY Zenon, <1>6, <2>3, <2>4 DEF Faithful
  <2>6. o # Nil
    BY Zenon, <2>3, ConstantsAssumption
  <2>7. PutsLoaded(a, o)
    BY ZenonT(30), <1>1, <1>2, <1>6, <2>2, <2>3, <2>4, <2>5, <2>6 DEF PutsLoaded
  <2>8. e \in Entry /\ e.op = "storage" /\ e.account = a /\ e.key = k
    BY ONLY Zenon, <1>5, <2>1, a \in Addr, k \in Key DEF Entry
  <2>9. Keeps(o, e.key) /\ e.op \notin {"createObject", "resetObject"}
    BY Zenon, <1>6, <2>4, <2>8
  <2>10. QED  BY Zenon, <2>2, <2>7, <2>8, <2>9, HeldChanges
<1>8. CASE prev = v
  <2>1. stateObjects' = [stateObjects EXCEPT ![a] = obj]
    BY Zenon, <1>2, <1>4, <1>8 DEF SetState
  <2>2. IF Exist(a) THEN journal' = journal ELSE journal' = Append(journal, [op |-> "createObject", account |-> a])
    BY Zenon, <1>2, <1>4, <1>8 DEF SetState, journalVars, Append1
  <2>3. obj # Nil
    BY Zenon, <1>5, ConstantsAssumption
  <2>4. PutsLoaded(a, obj)
    BY Zenon, <1>1, <1>2, <1>6, <2>1, <2>3 DEF PutsLoaded
  <2>5. QED  BY Zenon, <2>2, <2>4, HeldLoads
<1>9. QED  BY Zenon, <1>7, <1>8

\* CreateAccount puts a new object in the place of the one it found, and keeps
\* that one in the journal.
LEMMA CreateAccountHeld ==
  ASSUME Safe, Held, NEW a \in Addr, CreateAccount(a)
  PROVE  Held'
<1>1. phase \in {"setup", "running"} /\ UNCHANGED Control /\ Unfinished
  BY Zenon DEF CreateAccount, Running, Control, revisionVars, controlVars, Unfinished
<1>2. PICK o : o = NewObject(Nil)
  BY Zenon
<1>3. stateObjects' = [stateObjects EXCEPT ![a] = o]
  BY Zenon, <1>2 DEF CreateAccount
<1>4. o # Nil
  BY Zenon, <1>2, NewObjectType
<1>5. Faithful(o, a, store)
  BY Zenon, <1>2, FaithfulNew
<1>6. stateObjects'[a] = o /\ \A b \in Addr : b # a => stateObjects'[b] = stateObjects[b]
  <2>1. stateObjects \in [Addr -> StateObject \cup {Nil}]
    BY Zenon, <1>1, InvData DEF DataOK
  <2>2. QED  BY Zenon, <1>3, <2>1
<1>7. CASE ~ Exist(a)
  <2>1. GetOrNew(a) = o
    BY Zenon, <1>2, <1>7 DEF GetOrNew
  <2>2. PutsLoaded(a, o)
    BY Zenon, <1>1, <1>3, <1>4, <1>5, <2>1 DEF PutsLoaded
  <2>3. journal' = Append(journal, [op |-> "createObject", account |-> a])
    BY Zenon, <1>7 DEF CreateAccount, Append1
  <2>4. QED  BY Zenon, <1>7, <2>2, <2>3, HeldLoads
<1>8. CASE Exist(a)
  <2>1. PICK p, e : p = GetStateObject(a) /\ e = [op |-> "resetObject", account |-> a, prev |-> p]
    BY Zenon
  <2>2. journal' = Append(journal, e)
    BY Zenon, <1>8, <2>1 DEF CreateAccount, Append1
  <2>3. p \in StateObject /\ Faithful(p, a, store) /\ p = GetOrNew(a)
    BY ZenonT(30), <1>1, <1>8, <2>1, GetOrNewFacts
  <2>4. Resets(e, a) /\ e.prev = p /\ e \in Entry
    BY ONLY SMTT(30), Z3T(30), <2>1, <2>3, a \in Addr DEF Resets, Entry
  <2>5. stateObjects[a] = Nil => p.orig # Nil /\ \A m \in 1..Len(journal) : ~ Writes(journal[m], a)
    BY Zenon, <1>1, <1>8, <2>3, GetOrNewLoaded, NoEntries
  <2>6. stateObjects[a] # Nil => p = stateObjects[a]
    BY Zenon, <1>1, <2>3, GetOrNewLoaded
  <2>7. Tracked(journal, stateObjects, store, validRevisions, saved, Upto)
    BY Zenon, <1>1 DEF Held
  <2>8. PICK objs2 : objs2 = stateObjects'
    BY Zenon
  <2>9. ObjectsLoaded(Append(journal, e), objs2, store)
          /\ ExistenceKept(Append(journal, e), objs2, validRevisions, saved, Upto)
    BY ZenonT(30), <1>4, <1>5, <1>6, <2>3, <2>4, <2>5, <2>6, <2>7, <2>8, ObjectReset DEF Tracked
  <2>10. Append(journal, e) \in Seq(Entry) /\ Indexed(Append(journal, e), validRevisions, Upto)
    BY ONLY <2>4, <2>7 DEF Tracked, Indexed
  <2>11. Tracked(journal', stateObjects', store, validRevisions, saved, Upto)
    BY ZenonT(30), <2>2, <2>8, <2>9, <2>10 DEF Tracked
  <2>12. QED  BY Zenon, <1>1, <2>11, HeldAgain
<1>9. QED  BY Zenon, <1>7, <1>8

\* The entry of a native action.
LEMMA NativeEntryType ==
  ASSUME Safe, Unfinished
  PROVE  NativeEntry(1) \in Entry /\ NativeEntry(1).op = "native"
<1>1. native \in Native
  BY Zenon, InvData DEF DataOK, NativeOK
<1>2. QED  BY ONLY <1>1 DEF NativeEntry, Entry

\* SelfDestruct marks the object, and a native action burns its balance.
LEMMA SelfDestructHeld ==
  ASSUME Safe, Held, NEW a \in Addr, SelfDestruct(a)
  PROVE  Held'
<1>1. phase \in {"setup", "running"} /\ UNCHANGED Control /\ Unfinished /\ Exist(a)
  BY Zenon DEF SelfDestruct, Running, Control, revisionVars, controlVars, Unfinished
<1>2. PICK p : p = GetOrNew(a)
  BY Zenon
<1>3. p \in StateObject /\ Faithful(p, a, store) /\ GetStateObject(a) = p
  BY Zenon, <1>1, <1>2, GetOrNewFacts
<1>4. PICK o, e, f : /\ o = [p EXCEPT !.selfDestructed = TRUE]
                     /\ e = [op |-> "selfDestruct", account |-> a, prev |-> p.selfDestructed]
                     /\ f = NativeEntry(1)
  BY Zenon
<1>5. stateObjects' = [stateObjects EXCEPT ![a] = o]
  BY Zenon, <1>3, <1>4 DEF SelfDestruct
<1>6. journal' = Append(journal, e) \/ journal' = Append(Append(journal, e), f)
  BY Zenon, <1>3, <1>4 DEF SelfDestruct, Append1, Append2
<1>7. o \in StateObject /\ o.orig = p.orig /\ o.origin = p.origin /\ o.override = p.override /\ o.dirty = p.dirty
  <2>1. o \in StateObject
    BY Zenon, <1>3, <1>4 DEF StateObject
  <2>2. QED  BY ONLY SMTT(30), Z3T(30), <1>3, <1>4, <2>1 DEF StateObject
<1>8. o # Nil
  BY Zenon, <1>7, ConstantsAssumption
<1>9. Faithful(o, a, store) /\ \A k \in Key : Keeps(p, k) => Keeps(o, k)
  BY Zenon, <1>3, <1>7, FaithfulSame
<1>10. e \in Entry /\ e.op = "selfDestruct"
  BY Zenon, <1>3, <1>4 DEF Entry, StateObject
<1>11. f \in Entry /\ f.op = "native"
  BY Zenon, <1>1, <1>4, NativeEntryType
<1>12. Tracked(journal, stateObjects', store, validRevisions, saved, Upto)
  BY Zenon, <1>1, <1>2, <1>5, <1>7, <1>8, <1>9, PutTracked
<1>13. Tracked(Append(journal, e), stateObjects', store, validRevisions, saved, Upto)
  BY Zenon, <1>10, <1>12, TrackedAppend
<1>14. Tracked(Append(Append(journal, e), f), stateObjects', store, validRevisions, saved, Upto)
  BY Zenon, <1>11, <1>13, TrackedAppend
<1>15. QED  BY Zenon, <1>1, <1>6, <1>13, <1>14, HeldAgain

\* Balance operations append an entry that concerns no object, or fail.
LEMMA BalanceHeld ==
  ASSUME Safe, Held, BalanceStep
  PROVE  Held'
<1>1. ASSUME NEW result, Running \/ Overriding, BalanceAction(result)
      PROVE  Held'
  <2>1. UNCHANGED Control /\ stateObjects' = stateObjects /\ Unfinished
    BY Zenon, <1>1 DEF BalanceAction, Running, Overriding, Control, revisionVars, controlVars, Unfinished
  <2>2. journal' = journal \/ journal' = Append(journal, NativeEntry(1))
    BY Zenon, <1>1 DEF BalanceAction, Append1, journalVars
  <2>3. NativeEntry(1) \in Entry /\ NativeEntry(1).op \notin ObjectOps
    BY Zenon, <2>1, NativeEntryType DEF ObjectOps
  <2>4. QED  BY Zenon, <2>1, <2>2, <2>3, HeldStays, HeldAppends
<1>2. ASSUME NEW from, NEW to, NEW x, NEW fails, NEW converted, RunPrecompile(from, to, x, fails, converted)
      PROVE  Held'
  <2>1. UNCHANGED Control /\ stateObjects' = stateObjects /\ Unfinished
    BY Zenon, <1>2 DEF RunPrecompile, Running, Control, revisionVars, controlVars, Unfinished
  <2>2. PICK e, f : e = [op |-> "addLog"] /\ f = NativeEntry(1)
    BY Zenon
  <2>3. journal' = journal \/ journal' = Append(journal, f) \/ journal' = Append(Append(journal, e), f)
    BY Zenon, <1>2, <2>2 DEF RunPrecompile, Append1, Append2, journalVars
  <2>4. f \in Entry /\ f.op \notin ObjectOps
    BY Zenon, <2>1, <2>2, NativeEntryType DEF ObjectOps
  <2>5. e \in Entry /\ e.op \notin ObjectOps
    BY Zenon, <2>2, EntryIntroOther DEF ObjectOps
  <2>6. QED  BY Zenon, <2>1, <2>3, <2>4, <2>5, HeldStays, HeldAppends, HeldAppendsTwo
<1>3. QED  BY Zenon, <1>1, <1>2 DEF BalanceStep, Transfer, AddBalance, SubBalance, SetBalance

\* Nor do refund, logs, transient storage and access list concern an object.
LEMMA SideHeld ==
  ASSUME Safe, Held, SideStep
  PROVE  Held'
<1>1. TypeOK
  BY Zenon, SafeIs DEF RevertInv
<1>2. ASSUME phase = "running", UNCHANGED Control, stateObjects' = stateObjects,
             NEW e \in Entry, e.op \notin ObjectOps, journal' = Append(journal, e)
      PROVE  Held'
  BY Zenon, <1>2, HeldAppends DEF Unfinished
<1>3. ASSUME NEW gas, AddRefund(gas) \/ SubRefund(gas)
      PROVE  Held'
  <2>1. PICK e : e = [op |-> "refund", prev |-> refund]
    BY Zenon
  <2>2. /\ phase = "running" /\ UNCHANGED Control /\ stateObjects' = stateObjects
        /\ journal' = Append(journal, e)
    BY Zenon, <1>3, <2>1 DEF AddRefund, SubRefund, Running, Control, revisionVars, controlVars, Append1
  <2>3. e \in Entry /\ e.op \notin ObjectOps
    BY Zenon, <1>1, <2>1, EntryIntroOther DEF TypeOK, ObjectOps
  <2>4. QED  BY Zenon, <1>2, <2>2, <2>3
<1>4. CASE AddLog
  <2>1. PICK e : e = [op |-> "addLog"]
    BY Zenon
  <2>2. /\ phase = "running" /\ UNCHANGED Control /\ stateObjects' = stateObjects
        /\ journal' = Append(journal, e)
    BY Zenon, <1>4, <2>1 DEF AddLog, Running, Control, revisionVars, controlVars, Append1
  <2>3. e \in Entry /\ e.op \notin ObjectOps
    BY Zenon, <2>1, EntryIntroOther DEF ObjectOps
  <2>4. QED  BY Zenon, <1>2, <2>2, <2>3
<1>5. ASSUME NEW a \in Addr, NEW k \in Key, NEW v \in Val, SetTransientState(a, k, v)
      PROVE  Held'
  <2>1. PICK e : e = [op |-> "transient", account |-> a, key |-> k, prevalue |-> transientStorage[a][k]]
    BY Zenon
  <2>2. /\ phase = "running" /\ UNCHANGED Control /\ stateObjects' = stateObjects
        /\ journal' = Append(journal, e)
    BY Zenon, <1>5, <2>1 DEF SetTransientState, Running, Control, revisionVars, controlVars, Append1
  <2>3. transientStorage[a][k] \in Val
    <3>1. transientStorage \in [Addr -> [Key -> Val]]
      BY Zenon, <1>1 DEF TypeOK
    <3>2. QED  BY ONLY <3>1, a \in Addr, k \in Key
  <2>4. e \in Entry /\ e.op \notin ObjectOps
    BY Zenon, <2>1, <2>3, EntryIntro DEF ObjectOps
  <2>5. QED  BY Zenon, <1>2, <2>2, <2>4
<1>6. ASSUME NEW a \in Addr, AddAddressToAccessList(a)
      PROVE  Held'
  <2>1. PICK e : e = [op |-> "accessListAddAccount", address |-> a]
    BY Zenon
  <2>2. /\ phase = "running" /\ UNCHANGED Control /\ stateObjects' = stateObjects
        /\ journal' = Append(journal, e)
    BY Zenon, <1>6, <2>1 DEF AddAddressToAccessList, Running, Control, revisionVars, controlVars, Append1
  <2>3. e \in Entry /\ e.op \notin ObjectOps
    BY Zenon, <2>1 DEF ObjectOps, Entry
  <2>4. QED  BY Zenon, <1>2, <2>2, <2>3
<1>7. ASSUME NEW a \in Addr, NEW k \in Key, AddSlotToAccessList(a, k)
      PROVE  Held'
  <2>1. PICK e, c : /\ e = [op |-> "accessListAddSlot", address |-> a, slot |-> k]
                    /\ c = [op |-> "accessListAddAccount", address |-> a]
    BY Zenon
  <2>2. /\ phase = "running" /\ UNCHANGED Control /\ stateObjects' = stateObjects
        /\ journal' = Append(journal, e) \/ journal' = Append(Append(journal, c), e)
    BY Zenon, <1>7, <2>1
       DEF AddSlotToAccessList, Running, Control, revisionVars, controlVars, Append1, Append2
  <2>3. e \in Entry /\ e.op \notin ObjectOps /\ c \in Entry /\ c.op \notin ObjectOps
    BY Zenon, <2>1, EntryIntro DEF ObjectOps
  <2>4. QED  BY Zenon, <1>2, <2>2, <2>3, HeldAppendsTwo DEF Unfinished
<1>8. ASSUME NEW warm, NEW list, Prepare(warm, list)
      PROVE  Held'
  <2>1. /\ phase = "setup" /\ phase' = "running"
        /\ UNCHANGED <<store, stateObjects, journal, validRevisions, saved>>
    BY Zenon, <1>8 DEF Prepare, journalVars, revisionVars
  <2>2. Upto' = Upto /\ Unfinished
    BY Zenon, <2>1 DEF Upto, Unfinished
  <2>3. QED  BY Zenon, <2>1, <2>2 DEF Held
<1>9. QED  BY Zenon, <1>3, <1>4, <1>5, <1>6, <1>7, <1>8 DEF SideStep

-----------------------------------------------------------------------------
(* The objects across snapshots and reverts *)

\* A revision may be forgotten.
LEMMA TrackedForgets ==
  ASSUME NEW j, NEW objs, NEW st, NEW revs, NEW sv, NEW upto \in Nat, Tracked(j, objs, st, revs, sv, upto),
         NEW revs2, NEW sv2, NEW k \in 0..upto, \A r \in 1..k : revs2[r] = revs[r] /\ sv2[r] = sv[r]
  PROVE  Tracked(j, objs, st, revs2, sv2, k)
<1>1. \A r \in 1..k : r \in 1..upto
  BY ONLY upto \in Nat, k \in 0..upto
<1>2. ExistenceKept(j, objs, revs2, sv2, k)
  <2>1. ExistenceKept(j, objs, revs, sv, upto)
    BY Zenon DEF Tracked
  <2>2. QED  BY ONLY <1>1, <2>1, \A r \in 1..k : revs2[r] = revs[r] /\ sv2[r] = sv[r] DEF ExistenceKept
<1>3. Indexed(j, revs2, k)
  BY Zenon, <1>1 DEF Indexed, Tracked
<1>4. QED  BY ZenonT(30), <1>2, <1>3 DEF Tracked

\* Snapshot records which accounts exist.
LEMMA SnapshotHeld ==
  ASSUME Safe, Held, Snapshot
  PROVE  Held'
<1>1. /\ phase = "running" /\ Unfinished /\ Upto = Len(validRevisions)
      /\ UNCHANGED <<store, native, stateObjects, journal, phase, target>>
  BY Zenon DEF Snapshot, Unfinished, Upto, journalVars, controlVars
<1>2. PICK n \in Nat : n = Len(validRevisions)
  BY Zenon, InvJournal
<1>3. PICK rev, v : /\ rev = [id |-> nextRevisionID, journalIndex |-> Len(journal)]
                    /\ v = [view |-> View, exist |-> {a \in Addr : Exist(a)}]
  BY Zenon
<1>4. TypeOK /\ journal \in Seq(Entry)
  BY ZenonT(30), SafeIs, InvJournal DEF RevertInv
<1>5. rev \in Revision /\ rev.journalIndex = Len(journal)
  <2>1. nextRevisionID \in Nat /\ Len(journal) \in Nat
    BY <1>4 DEF TypeOK
  <2>2. QED  BY ONLY <1>3, <2>1 DEF Revision
<1>6. validRevisions' = Append(validRevisions, rev) /\ validRevisions \in Seq(Revision)
  BY Zenon, <1>3, <1>4 DEF Snapshot, TypeOK
<1>7. PICK revs, sv : revs = validRevisions' /\ sv = saved'
  BY Zenon
<1>8. Len(revs) = n + 1 /\ revs[n + 1] = rev /\ \A r \in 1..n : revs[r] = validRevisions[r]
  BY ONLY SMTT(30), Z3T(30), <1>2, <1>5, <1>6, <1>7
<1>9. sv[n + 1] = v /\ \A r \in 1..n : sv[r] = saved[r]
  <2>1. sv = [i \in 1..(n + 1) |-> IF i <= n THEN saved[i] ELSE v]
    BY Zenon, <1>2, <1>3, <1>7 DEF Snapshot
  <2>2. QED  BY ONLY <1>2, <2>1
<1>10. v.view.native = native /\ v.exist = {a \in Addr : Exist(a)}
  BY Zenon, <1>3 DEF View
<1>11. \A a \in Addr : a \in v.exist <=> stateObjects[a] # Nil \/ v.view.native.acct[a] # Nil
  BY Zenon, <1>1, <1>10, GetOrNewLoaded
<1>12. Tracked(journal, stateObjects, store, validRevisions, saved, n) /\ ConsistentStore(store)
  BY Zenon, <1>1, <1>2 DEF Held
<1>13. ExistenceKept(journal, stateObjects, revs, sv, n + 1)
  <2>1. \A r \in 1..n : revs[r] = validRevisions[r] /\ sv[r] = saved[r]
    BY Zenon, <1>8, <1>9
  <2>2. Recorded(journal, stateObjects, revs, sv, n + 1)
    BY Zenon, <1>5, <1>8, <1>9, <1>11 DEF Recorded
  <2>3. ExistenceKept(journal, stateObjects, validRevisions, saved, n)
    BY Zenon, <1>12 DEF Tracked
  <2>4. QED  BY ZenonT(30), <1>2, <1>4, <2>1, <2>2, <2>3, ExistenceRecorded
<1>14. Indexed(journal, revs, n + 1)
  <2>1. Indexed(journal, validRevisions, n)
    BY Zenon, <1>12 DEF Tracked
  <2>2. QED  BY ONLY SMTT(30), Z3T(30), <1>2, <1>4, <1>5, <1>8, <2>1 DEF Indexed
<1>15. Tracked(journal, stateObjects, store, revs, sv, n + 1)
  BY Zenon, <1>12, <1>13, <1>14 DEF Tracked
<1>16. Upto' = n + 1
  BY Zenon, <1>1, <1>7, <1>8 DEF Upto
<1>17. QED  BY Zenon, <1>1, <1>7, <1>12, <1>15, <1>16 DEF Held

\* RevertToSnapshot forgets the later revisions.
LEMMA RevertToSnapshotHeld ==
  ASSUME Safe, Held, NEW revid, RevertToSnapshot(revid)
  PROVE  Held'
<1>1. /\ phase = "running" /\ phase' = "reverting" /\ Unfinished /\ Upto = Len(validRevisions)
      /\ UNCHANGED <<store, stateObjects, journal, validRevisions, saved>>
  BY Zenon DEF RevertToSnapshot, Unfinished, Upto, journalVars, revisionVars
<1>2. target' \in 1..Len(validRevisions) /\ Len(validRevisions) \in Nat
  BY Zenon, SearchFinds, InvJournal DEF RevertToSnapshot
<1>3. PICK k \in 0..Len(validRevisions) : k = target'
  BY ONLY <1>2
<1>4. Tracked(journal, stateObjects, store, validRevisions, saved, Len(validRevisions)) /\ ConsistentStore(store)
  BY Zenon, <1>1 DEF Held
<1>5. Tracked(journal, stateObjects, store, validRevisions, saved, k)
  BY Zenon, <1>2, <1>3, <1>4, TrackedForgets
<1>6. Upto' = k
  BY Zenon, <1>1, <1>3 DEF Upto
<1>7. QED  BY Zenon, <1>1, <1>4, <1>5, <1>6 DEF Held

\* So does its last step.
LEMMA RevertDoneHeld ==
  ASSUME Safe, Held, RevertDone
  PROVE  Held'
<1>1. /\ phase = "reverting" /\ phase' = "running" /\ Unfinished /\ Upto = target
      /\ UNCHANGED <<store, stateObjects, journal>>
  BY Zenon DEF RevertDone, Unfinished, Upto, journalVars
<1>2. validRevisions \in Seq(Revision) /\ Len(validRevisions) \in Nat /\ target \in 1..Len(validRevisions)
  BY Zenon, <1>1, SafeIs, InvJournal DEF RevertInv, TypeOK
<1>3. PICK k \in Nat : k = target - 1
  BY ONLY <1>2
<1>4. k \in 0..target /\ k \in 0..Len(validRevisions) /\ target \in Nat
  BY ONLY <1>2, <1>3
<1>5. PICK revs, sv : revs = SubSeq(validRevisions, 1, k) /\ sv = [i \in 1..k |-> saved[i]]
  BY Zenon
<1>6. validRevisions' = revs /\ saved' = sv
  BY Zenon, <1>3, <1>5 DEF RevertDone
<1>7. Len(revs) = k /\ \A i \in 1..k : revs[i] = validRevisions[i] /\ sv[i] = saved[i]
  BY Zenon, <1>2, <1>4, <1>5, PrefixOfSeq
<1>8. Tracked(journal, stateObjects, store, validRevisions, saved, target) /\ ConsistentStore(store)
  BY Zenon, <1>1 DEF Held
<1>9. Tracked(journal, stateObjects, store, revs, sv, k)
  BY ZenonT(60), <1>4, <1>7, <1>8, TrackedForgets
<1>10. Upto' = k
  BY Zenon, <1>1, <1>6, <1>7 DEF Upto
<1>11. QED  BY Zenon, <1>1, <1>6, <1>8, <1>9, <1>10 DEF Held

\* Undoing an entry leaves what the object has loaded.
LEMMA RevertedLoads ==
  ASSUME NEW e \in Entry, e.op \in ObjectOps, e.op # "createObject", e.op # "resetObject",
         NEW o \in StateObject
  PROVE  LeavesLoaded(RevertedObject(e, o), o, e)
<1>1. PICK q : q = RevertedObject(e, o)
  BY Zenon
<1>2. q \in StateObject /\ q # Nil
  BY Zenon, <1>1, RevertedType, ConstantsAssumption
<1>3. CASE e.op = "createContract"
  <2>1. q = [o EXCEPT !.newContract = FALSE]
    BY Zenon, <1>1, <1>3 DEF RevertedObject
  <2>2. QED  BY ONLY ZenonT(30), <1>1, <1>2, <2>1, o \in StateObject DEF StateObject, LeavesLoaded
<1>4. CASE e.op = "selfDestruct"
  <2>1. q = [o EXCEPT !.selfDestructed = e.prev]
    BY Zenon, <1>1, <1>4 DEF RevertedObject
  <2>2. QED  BY ONLY Zenon, <1>1, <1>2, <2>1, o \in StateObject DEF StateObject, LeavesLoaded
<1>5. CASE e.op = "nonce"
  <2>1. q = [o EXCEPT !.nonce = e.prev]
    BY Zenon, <1>1, <1>5 DEF RevertedObject
  <2>2. QED  BY ONLY Zenon, <1>1, <1>2, <2>1, o \in StateObject DEF StateObject, LeavesLoaded
<1>6. CASE e.op = "code"
  <2>1. q = [o EXCEPT !.code = e.prevhash]
    BY Zenon, <1>1, <1>6 DEF RevertedObject
  <2>2. QED  BY ONLY Zenon, <1>1, <1>2, <2>1, o \in StateObject DEF StateObject, LeavesLoaded
<1>7. CASE e.op = "storage"
  <2>1. q = [o EXCEPT !.dirty[e.key] = e.prevalue]
    BY Zenon, <1>1, <1>7 DEF RevertedObject
  <2>2. e.key \in Key
    BY Zenon, <1>7, EntryElim
  <2>3. QED  BY ONLY SMTT(30), Z3T(30), <1>1, <1>2, <1>7, <2>1, <2>2, o \in StateObject DEF StateObject, LeavesLoaded
<1>8. QED  BY Zenon, <1>3, <1>4, <1>5, <1>6, <1>7 DEF ObjectOps

\* One turn of the loop of journal.Revert.
LEMMA RevertStepHeld ==
  ASSUME Safe, Held, RevertStep
  PROVE  Held'
<1>1. /\ phase = "reverting" /\ phase' = phase /\ Unfinished /\ Upto = target /\ Upto' = target
      /\ UNCHANGED <<store, validRevisions, saved>>
      /\ Len(journal) > validRevisions[target].journalIndex
  BY Zenon DEF RevertStep, Unfinished, Upto, revisionVars, controlVars
<1>2. /\ TypeOK /\ RevisionsOrdered /\ Bookkeeping(journal, dirties, stateObjects)
      /\ target \in 1..Len(validRevisions)
  BY Zenon, <1>1, SafeIs DEF RevertInv
<1>3. /\ journal \in Seq(Entry) /\ validRevisions \in Seq(Revision) /\ Len(validRevisions) \in Nat
      /\ stateObjects \in [Addr -> StateObject \cup {Nil}]
  BY Zenon, <1>2, InvJournal DEF TypeOK
<1>4. \A r \in 1..Len(validRevisions) : validRevisions[r].journalIndex \in Nat
  BY Zenon, <1>3, RevisionFields
<1>5. PICK n \in Nat : Len(journal) = n + 1
  <2>1. Len(journal) \in Nat /\ Len(journal) > 0
    BY ONLY <1>1, <1>2, <1>3, <1>4
  <2>2. Len(journal) - 1 \in Nat /\ Len(journal) = (Len(journal) - 1) + 1
    BY ONLY <2>1
  <2>3. QED  BY Zenon, <2>2
<1>6. PICK e \in Entry : e = journal[n + 1]
  BY ONLY <1>3, <1>5
<1>7. PICK l : l = journal'
  BY Zenon
<1>8. l \in Seq(Entry) /\ Len(l) = n /\ \A m \in 1..n : l[m] = journal[m]
  <2>1. l = SubSeq(journal, 1, n) /\ n \in 0..Len(journal)
    <3>1. l = SubSeq(journal, 1, Len(journal) - 1)
      BY Zenon, <1>7 DEF RevertStep
    <3>2. QED  BY ONLY <1>5, <3>1
  <2>2. QED  BY Zenon, <1>3, <2>1, PrefixOfSeq
<1>9. Indexed(l, validRevisions, target)
  <2>1. ASSUME NEW r \in 1..target
        PROVE  validRevisions[r].journalIndex \in 0..n
    <3>1. r \in 1..Len(validRevisions) /\ (r = target \/ r < target)
      BY ONLY <1>2, <1>3
    <3>2. r < target => validRevisions[r].journalIndex <= validRevisions[target].journalIndex
      BY Zenon, <1>2, <3>1 DEF RevisionsOrdered
    <3>3. QED  BY ONLY SMTT(30), Z3T(30), <1>1, <1>2, <1>4, <1>5, <3>1, <3>2
  <2>2. QED  BY Zenon, <1>8, <2>1 DEF Indexed
<1>10. e.op \in ObjectOps => e.account \in Addr /\ stateObjects[e.account] # Nil
  <2>1. n + 1 \in 1..Len(journal)
    BY ONLY <1>5
  <2>2. QED  BY Zenon, <1>2, <1>6, <2>1, EntryElim DEF Bookkeeping
<1>11. RevertEntry(e)
  BY Zenon, <1>5, <1>6 DEF RevertStep
<1>12. PICK objs2 : objs2 = stateObjects'
  BY Zenon
<1>13. ASSUME e.op \in ObjectOps
       PROVE  /\ objs2[e.account] = RevertedObject(e, stateObjects[e.account])
              /\ \A b \in Addr : b # e.account => objs2[b] = stateObjects[b]
  <2>1. GetStateObject(e.account) = stateObjects[e.account]
    BY Zenon, <1>10, <1>13 DEF GetStateObject
  <2>2. objs2 = [stateObjects EXCEPT ![e.account] = RevertedObject(e, stateObjects[e.account])]
    BY Zenon, <1>11, <1>12, <1>13, <2>1 DEF RevertEntry
  <2>3. QED  BY Zenon, <1>3, <1>10, <1>13, <2>2
<1>14. e.op \notin ObjectOps => objs2 = stateObjects
  BY Zenon, <1>11, <1>12 DEF RevertEntry
<1>15. \A b \in Addr : ~ (e.op \in ObjectOps /\ e.account = b) => objs2[b] = stateObjects[b]
  BY Zenon, <1>13, <1>14
<1>16. \A a \in Addr : Creates(e, a) => objs2[a] = Nil
  BY Zenon, <1>13 DEF Creates, RevertedObject, ObjectOps
<1>17. \A a \in Addr : Resets(e, a) => objs2[a] = e.prev /\ e.prev # Nil
  <2>1. e.op = "resetObject" => e.prev # Nil /\ objs2[e.account] = e.prev
    BY Zenon, <1>13, EntryElim, ConstantsAssumption DEF RevertedObject, ObjectOps
  <2>2. QED  BY Zenon, <2>1 DEF Resets
<1>18. \A a \in Addr : e.op \in ObjectOps /\ e.account = a /\ ~ Creates(e, a) /\ ~ Resets(e, a)
                       => stateObjects[a] # Nil /\ LeavesLoaded(objs2[a], stateObjects[a], e)
  BY ZenonT(30), <1>3, <1>10, <1>13, RevertedLoads DEF Creates, Resets
<1>19. Tracked(journal, stateObjects, store, validRevisions, saved, target) /\ ConsistentStore(store)
  BY Zenon, <1>1 DEF Held
<1>20. ObjectsLoaded(l, objs2, store) /\ ExistenceKept(l, objs2, validRevisions, saved, target)
  <2>1. ObjectsLoaded(journal, stateObjects, store) /\ ExistenceKept(journal, stateObjects, validRevisions, saved, target)
    BY Zenon, <1>19 DEF Tracked
  <2>2. Undone(e, stateObjects, objs2)
    BY Zenon, <1>15, <1>16, <1>17, <1>18 DEF Undone
  <2>3. Shortened(l, journal, n, e)
    BY Zenon, <1>5, <1>6, <1>8 DEF Shortened
  <2>4. QED  BY Zenon, <1>3, <1>9, <2>1, <2>2, <2>3, EntryUndone
<1>21. Tracked(l, objs2, store, validRevisions, saved, target)
  BY Zenon, <1>8, <1>9, <1>20 DEF Tracked
<1>22. QED  BY Zenon, <1>1, <1>7, <1>12, <1>19, <1>21 DEF Held

\* Every step keeps the invariant; Commit ends the message.
LEMMA HeldNext ==
  ASSUME Safe, Held, [Next]_vars
  PROVE  Held'
<1>1. CASE ObjectStep
  <2>1. PICK a \in Addr :
          \/ Touch(a) \/ (\E k \in Key : GetState(a, k)) \/ (\E storage \in [Key -> Val] : SetStorage(a, storage))
          \/ CreateAccount(a)
          \/ CreateContract(a) \/ (\E n \in 0..MaxNonce : SetNonce(a, n)) \/ (\E c \in Code : SetCode(a, c))
          \/ (\E k \in Key, v \in Val : SetState(a, k, v))
          \/ SelfDestruct(a)
    BY Zenon, <1>1 DEF ObjectStep, Selfdestruct6780
  <2>2. QED  BY Zenon, <2>1, LoadHeld, CreateAccountHeld, FieldHeld, SetStateHeld, SelfDestructHeld
<1>2. CASE BalanceStep
  BY Zenon, <1>2, BalanceHeld
<1>3. CASE SideStep
  BY Zenon, <1>3, SideHeld
<1>4. CASE RevisionStep
  BY Zenon, <1>4, SnapshotHeld, RevertToSnapshotHeld, RevertStepHeld, RevertDoneHeld DEF RevisionStep
<1>5. CASE CommitStep
  <2>1. phase' \in {"committed", "failed"}
    BY Zenon, <1>5 DEF CommitStep, Commit, CommitFailsHalfWay, CommitReturnsErr
  <2>2. ~ Unfinished'
    BY ONLY <2>1 DEF Unfinished
  <2>3. QED  BY Zenon, <2>2 DEF Held
<1>6. CASE UNCHANGED vars
  <2>1. UNCHANGED Control /\ stateObjects' = stateObjects /\ journal' = journal
    BY Zenon, <1>6 DEF vars, Control
  <2>2. QED  BY Zenon, <2>1, HeldStays
<1>7. QED  BY Zenon, <1>1, <1>2, <1>3, <1>4, <1>5, <1>6 DEF Next

\* A message starts from a consistent store, with no object and no entry.
LEMMA HeldInit ==
  ASSUME Init
  PROVE  Held
<1>1. ConsistentStore(store)
  BY Zenon, InitStoresAssumption DEF Init
<1>2. journal = <<>> /\ validRevisions = <<>> /\ phase = "setup" /\ \A a \in Addr : stateObjects[a] = Nil
  BY Zenon DEF Init
<1>3. journal \in Seq(Entry) /\ Len(journal) = 0 /\ Len(validRevisions) = 0
  BY ONLY <1>2
<1>4. (\A m \in 1..0 : FALSE) /\ Upto = 0
  <2>1. Upto = Len(validRevisions)
    BY Zenon, <1>2 DEF Upto
  <2>2. QED  BY ONLY <1>3, <2>1
<1>5. ObjectsLoaded(journal, stateObjects, store)
  BY Zenon, <1>2, <1>3, <1>4 DEF ObjectsLoaded
<1>6. ExistenceKept(journal, stateObjects, validRevisions, saved, Upto) /\ Indexed(journal, validRevisions, Upto)
  BY Zenon, <1>4 DEF ExistenceKept, Indexed
<1>7. QED  BY Zenon, <1>1, <1>3, <1>5, <1>6 DEF Held, Tracked

\* What was saved of a revision is about addresses.
Known == \A r \in 1..Len(validRevisions) : saved[r].exist \subseteq Addr

-----------------------------------------------------------------------------
(* Which accounts exist after a revert *)

\* When all entries of a revision are undone.
LEMMA ExistRestored ==
  ASSUME Safe, Held, Known, RevertRestoresView
  PROVE  RevertRestoresExist
<1>1. SUFFICES ASSUME phase = "reverting", Len(journal) = validRevisions[target].journalIndex
               PROVE  /\ saved[target].exist \subseteq {a \in Addr : Exist(a)}
                      /\ \A a \in {b \in Addr : Exist(b)} \ saved[target].exist :
                           native.acct[a] = Nil /\ stateObjects[a].orig # Nil
  BY Zenon DEF RevertRestoresExist
<1>2. Unfinished /\ Upto = target /\ target \in 1..Len(validRevisions) /\ Len(validRevisions) \in Nat
      /\ journal \in Seq(Entry)
  BY Zenon, <1>1, SafeIs, InvJournal DEF Unfinished, Upto, RevertInv
<1>3. target \in 1..target /\ Len(journal) \in Nat
  BY ONLY <1>2
<1>4. PICK n, sv : n = Len(journal) /\ sv = saved[target]
  BY Zenon
<1>5. sv.view.native = native
  <2>1. sv.view = View
    BY Zenon, <1>1, <1>4 DEF RevertRestoresView
  <2>2. View.native = native
    BY Zenon DEF View
  <2>3. QED  BY Zenon, <2>1, <2>2
<1>6. \A m \in (n + 1)..n : FALSE
  BY ONLY <1>3, <1>4
<1>7. ASSUME NEW a \in Addr
      PROVE  IF a \in sv.exist
             THEN native.acct[a] # Nil \/ stateObjects[a] # Nil
             ELSE native.acct[a] = Nil /\ (stateObjects[a] = Nil \/ stateObjects[a].orig # Nil)
  <2>1. ExistenceKept(journal, stateObjects, validRevisions, saved, target)
    BY ZenonT(30), <1>2 DEF Held, Tracked
  <2>2. IF a \in sv.exist
        THEN \/ sv.view.native.acct[a] # Nil
             \/ stateObjects[a] # Nil
        ELSE /\ sv.view.native.acct[a] = Nil
             /\ stateObjects[a] = Nil \/ stateObjects[a].orig # Nil \/ Made(journal, a, n, n)
    BY ONLY Zenon, a \in Addr, <1>1, <1>3, <1>4, <2>1 DEF ExistenceKept
  <2>3. ~ Made(journal, a, n, n)
    BY Zenon, <1>6 DEF Made
  <2>4. QED  BY Zenon, <1>5, <2>2, <2>3
<1>8. \A a \in Addr : Exist(a) <=> stateObjects[a] # Nil \/ native.acct[a] # Nil
  BY Zenon, <1>2, GetOrNewLoaded
<1>9. sv.exist \subseteq Addr
  BY Zenon, <1>2, <1>4 DEF Known
<1>10. QED  BY ZenonT(30), <1>4, <1>7, <1>8, <1>9

-----------------------------------------------------------------------------
(* What Commit writes *)

\* The slots of an object that is not destructed nor overridden: a slot that
\* is not written holds what the object shows.
LEMMA SlotCommitted ==
  ASSUME NEW a \in Addr, NEW o \in StateObject, stateObjects[a] = o, Faithful(o, a, store),
         o.override = Nil, ~ o.selfDestructed, NEW k \in Key
  PROVE  CommittedSlot(a, k) = Current(o, store.stor[a], k)
<1>1. PICK v : v = store.stor[a][k]
  BY Zenon
<1>2. (o.origin[k] # Nil => o.origin[k] = v) /\ (o.dirty[k] # Nil => o.origin[k] # Nil)
  BY Zenon, <1>1 DEF Faithful, Keeps
<1>3. Current(o, store.stor[a], k) = IF o.dirty[k] # Nil THEN o.dirty[k] ELSE v
  BY Zenon, <1>1, <1>2 DEF Current, Committed
<1>4. CASE o.dirty[k] = Nil
  <2>1. CommittedSlot(a, k) = v
    BY Zenon, <1>1, <1>4 DEF CommittedSlot
  <2>2. QED  BY Zenon, <1>3, <1>4, <2>1
<1>5. CASE o.dirty[k] # Nil
  <2>1. CommittedSlot(a, k) = IF o.dirty[k] # v THEN o.dirty[k] ELSE v
    BY Zenon, <1>1, <1>2, <1>5 DEF CommittedSlot
  <2>2. QED  BY Zenon, <1>3, <1>5, <2>1
<1>6. QED  BY Zenon, <1>4, <1>5

\* What an account that Commit does not write reads as.
ReadsAs(n, a) == IF n.acct[a] = Nil THEN NewAccount ELSE n.acct[a]
IsBase(n, a) == n.acct[a] # Nil /\ n.acct[a].kind = "base"

\* The account on the branch n agrees with the object x that the parent st gives.
Agrees(n, st, a, x) ==
  /\ ReadsAs(n, a).nonce = x.nonce
  /\ IsBase(n, a) \/ ReadsAs(n, a).code = x.code
  /\ ReadsAs(n, a).code \in st.codes \cup {NoCode}
  /\ x.code \in st.codes \cup {NoCode}
  /\ IsBase(n, a) => n.acct[a].code = NoCode

\* The account on the branch reads as the parent's account shows.
LEMMA BranchReads ==
  ASSUME NEW st \in Store, ConsistentStore(st), NEW n, NativeOK(n, st), NEW a \in Addr
  PROVE  Agrees(n, st, a, NewObject(GetAccount(st.native, a)))
<1>x. PICK x : x = NewObject(GetAccount(st.native, a))
  BY Zenon
<1>g. SUFFICES Agrees(n, st, a, x)
  BY Zenon, <1>x
<1>1. NewAccount.nonce = 0 /\ NewAccount.code = NoCode /\ NewAccount.kind = "eth" /\ NewAccount # Nil
  <2>1. NewAccount \in AuthAccount
    BY ONLY ConstantsAssumption DEF NewAccount, AuthAccount
  <2>2. NewAccount # Nil
    BY Zenon, <2>1, ConstantsAssumption
  <2>3. QED  BY Zenon, <2>2 DEF NewAccount
<1>2. PICK p : p = st.native.acct[a]
  BY Zenon
<1>3. /\ p = Nil => st.stor[a] = [k \in Key |-> Zero]
      /\ p # Nil => p.code \in st.codes \cup {NoCode}
      /\ p # Nil /\ p.kind = "base" => p.code = NoCode
  BY Zenon, <1>2 DEF ConsistentStore
<1>4. n.acct[a] = p \/ (p = Nil /\ n.acct[a] = NewAccount)
  BY Zenon, <1>2 DEF NativeOK
<1>5. CASE p = Nil
  <2>1. x.nonce = 0 /\ x.code = NoCode
    BY Zenon, <1>x, <1>2, <1>5 DEF NewObject, GetAccount
  <2>2. ReadsAs(n, a) = NewAccount /\ ~ IsBase(n, a)
    BY Zenon, <1>1, <1>4, <1>5 DEF ReadsAs, IsBase
  <2>3. QED  BY Zenon, <1>1, <2>1, <2>2 DEF Agrees
<1>6. CASE p # Nil
  <2>1. p \in AuthAccount
    <3>1. st.native.acct \in [Addr -> AuthAccount \cup {Nil}]
      BY ONLY st \in Store DEF Store, Native
    <3>2. QED  BY Zenon, <1>2, <1>6, <3>1
  <2>2. n.acct[a] = p /\ ReadsAs(n, a) = p /\ (IsBase(n, a) <=> p.kind = "base")
    BY Zenon, <1>4, <1>6 DEF ReadsAs, IsBase
  <2>3. PICK g : g = [nonce |-> p.nonce, code |-> IF p.kind = "eth" THEN p.code ELSE NoCode]
    BY Zenon
  <2>4. g \in Account
    BY ONLY Zenon, <2>1, <2>3, ConstantsAssumption DEF AuthAccount, Account
  <2>5. g # Nil
    BY Zenon, <2>4, ConstantsAssumption
  <2>6. GetAccount(st.native, a) = g
    BY Zenon, <1>2, <1>6, <2>3 DEF GetAccount
  <2>7. x.nonce = g.nonce /\ x.code = g.code
    BY Zenon, <1>x, <2>5, <2>6 DEF NewObject
  <2>8. g.nonce = p.nonce /\ g.code = IF p.kind = "eth" THEN p.code ELSE NoCode
    BY Zenon, <2>3
  <2>9. p.kind = "eth" \/ p.kind = "base"
    BY Zenon, <2>1 DEF AuthAccount
  <2>10. x.code = p.code \/ (p.kind = "base" /\ x.code = NoCode)
    BY Zenon, <2>7, <2>8, <2>9
  <2>11. QED  BY Zenon, <1>3, <1>6, <2>2, <2>7, <2>8, <2>10 DEF Agrees
<1>7. QED  BY Zenon, <1>5, <1>6

\* What an object has loaded is what the parent's account shows.
LEMMA LoadedShows ==
  ASSUME NEW st, NEW a \in Addr, NEW o, Faithful(o, a, st), o.orig # Nil
  PROVE  /\ o.orig.nonce = NewObject(GetAccount(st.native, a)).nonce
         /\ o.orig.code = NewObject(GetAccount(st.native, a)).code
<1>1. CASE o.orig = GetAccount(st.native, a)
  BY Zenon, <1>1 DEF NewObject
<1>2. CASE st.native.acct[a] = Nil /\ o.orig = [nonce |-> 0, code |-> NoCode]
  <2>1. GetAccount(st.native, a) = Nil
    BY Zenon, <1>2 DEF GetAccount
  <2>2. o.orig.nonce = 0 /\ o.orig.code = NoCode
    BY ONLY <1>2
  <2>3. NewObject(Nil).nonce = 0 /\ NewObject(Nil).code = NoCode
    BY Zenon DEF NewObject
  <2>4. QED  BY Zenon, <2>1, <2>2, <2>3
<1>3. QED  BY Zenon, <1>1, <1>2 DEF Faithful

\* What Commit leaves of account a in the parent s when it writes the accounts in S.
Written(s, S, a) ==
  /\ s.native.acct[a] = IF a \in S THEN CommittedAccount(a) ELSE native.acct[a]
  /\ s.stor[a] = [k \in Key |-> IF a \in S THEN CommittedSlot(a, k) ELSE store.stor[a][k]]
  /\ s.codes = store.codes \cup CommittedCodes(S)

\* StoreAfter leaves that.
LEMMA StoreAfterIs ==
  ASSUME NEW S, TypeOK, NEW a \in Addr
  PROVE  Written(StoreAfter(S), S, a)
<1>0. PICK s : s = StoreAfter(S)
  BY Zenon
<1>1. PICK f : f = [b \in Addr |-> IF b \in S THEN CommittedAccount(b) ELSE native.acct[b]]
  BY Zenon
<1>2. s.native = [native EXCEPT !.acct = f]
  BY Zenon, <1>0, <1>1 DEF StoreAfter
<1>3. native \in Native
  BY Zenon DEF TypeOK
<1>4. s.native.acct = f
  BY ONLY <1>2, <1>3 DEF Native
<1>5. s.stor[a] = [k \in Key |-> IF a \in S THEN CommittedSlot(a, k) ELSE store.stor[a][k]]
  BY Zenon, <1>0 DEF StoreAfter
<1>6. s.codes = store.codes \cup CommittedCodes(S)
  BY Zenon, <1>0 DEF StoreAfter
<1>7. Written(s, S, a)
  BY ZenonT(30), <1>1, <1>4, <1>5, <1>6 DEF Written
<1>8. QED  BY Zenon, <1>0, <1>7

\* PersistedAccount, in terms of the store s that Commit leaves.
Persisted(s, a, x) ==
  IF x.selfDestructed
  THEN s.native.acct[a] = Nil /\ s.stor[a] = [k \in Key |-> Zero]
  ELSE /\ ReadsAs(s.native, a).nonce = x.nonce
       /\ IsBase(native, a) \/ ReadsAs(s.native, a).code = x.code
       /\ ReadsAs(s.native, a).code \in s.codes \cup {NoCode}
       /\ x.override # Nil \/ s.stor[a] = ShownSlots(x, store.stor[a])

\* They mean the same.
LEMMA PersistedIs ==
  ASSUME NEW a \in Addr, Persisted(store', a, Seen(a))
  PROVE  PersistedAccount(a)
<1>1. /\ View.destructed[a] = Seen(a).selfDestructed /\ View.nonce[a] = Seen(a).nonce
      /\ View.code[a] = Seen(a).code /\ View.stor[a] = ShownSlots(Seen(a), store.stor[a])
      /\ View.overridden[a] = (Seen(a).override # Nil)
  BY Zenon DEF View, ViewDestructed, ViewNonce, ViewCode, ViewStor, ViewOverridden, ShownSlots
<1>2. QED  BY Zenon, <1>1 DEF PersistedAccount, Persisted, ReadsAs, IsBase

\* An account that is not dirty is what the parent holds.
LEMMA CleanPersisted ==
  ASSUME Safe, Held, Unfinished, NEW a \in Addr, dirties[a] = 0, NEW s, s = StoreAfter(DirtyAddrs)
  PROVE  Persisted(s, a, Seen(a))
<1>1. TypeOK /\ DataOK /\ CleanView(View, store) /\ ConsistentStore(store)
  BY Zenon, SafeIs, InvData DEF RevertInv, Held
<1>2. store \in Store /\ NativeOK(native, store) /\ store.stor[a] \in [Key -> Val]
  <2>1. store \in Store /\ NativeOK(native, store)
    BY Zenon, <1>1 DEF TypeOK, DataOK
  <2>2. QED  BY Zenon, <2>1 DEF Store
<1>3. PICK x, y : x = Seen(a) /\ y = NewObject(GetAccount(store.native, a))
  BY Zenon
<1>4. CleanAt(View, store, a)
  BY Zenon, <1>1 DEF CleanView, View
<1>5. /\ x.nonce = y.nonce /\ x.code = y.code /\ x.selfDestructed = FALSE
      /\ x.override # Nil \/ ShownSlots(x, store.stor[a]) = store.stor[a]
  BY Zenon, <1>3, <1>4
     DEF CleanAt, View, ViewDestructed, ViewNonce, ViewCode, ViewStor, ViewOverridden, ShownSlots
<1>6. a \notin DirtyAddrs
  BY Zenon DEF DirtyAddrs
<1>7. /\ s.native.acct[a] = native.acct[a] /\ s.stor[a] = [k \in Key |-> store.stor[a][k]]
      /\ s.codes = store.codes \cup CommittedCodes(DirtyAddrs)
  <2>1. Written(s, DirtyAddrs, a)
    BY Zenon, <1>1, StoreAfterIs
  <2>2. QED  BY Zenon, <1>6, <2>1 DEF Written
<1>8. s.stor[a] = store.stor[a]
  BY Zenon, <1>2, <1>7
<1>9. ReadsAs(s.native, a) = ReadsAs(native, a)
  BY ZenonT(30), <1>7 DEF ReadsAs
<1>10. /\ ReadsAs(native, a).nonce = y.nonce
       /\ IsBase(native, a) \/ ReadsAs(native, a).code = y.code
       /\ ReadsAs(native, a).code \in store.codes \cup {NoCode}
  <2>1. Agrees(native, store, a, y)
    BY Zenon, <1>1, <1>2, <1>3, BranchReads
  <2>2. QED  BY Zenon, <2>1 DEF Agrees
<1>11. ReadsAs(s.native, a).code \in s.codes \cup {NoCode}
  BY Zenon, <1>7, <1>9, <1>10
<1>12. Persisted(s, a, x)
  BY ZenonT(30), <1>5, <1>8, <1>9, <1>10, <1>11 DEF Persisted
<1>13. QED  BY Zenon, <1>3, <1>12

\* The account of a dirty object that is not destructed.
LEMMA AccountCommitted ==
  ASSUME TypeOK, NativeOK(native, store), ConsistentStore(store), NEW a \in Addr, NEW o \in StateObject,
         stateObjects[a] = o, Faithful(o, a, store), ~ o.selfDestructed,
         NEW s, s.native.acct[a] = CommittedAccount(a), store.codes \subseteq s.codes,
         CodeDirty(o) => o.code \in s.codes \cup {NoCode}
  PROVE  /\ ReadsAs(s.native, a).nonce = o.nonce
         /\ IsBase(native, a) \/ ReadsAs(s.native, a).code = o.code
         /\ ReadsAs(s.native, a).code \in s.codes \cup {NoCode}
<1>1. PICK y, r : y = NewObject(GetAccount(store.native, a)) /\ r = ReadsAs(native, a)
  BY Zenon
<1>2. store \in Store
  BY ZenonT(30) DEF TypeOK
<1>3. /\ r.nonce = y.nonce /\ (IsBase(native, a) \/ r.code = y.code)
      /\ r.code \in store.codes \cup {NoCode} /\ y.code \in store.codes \cup {NoCode}
      /\ IsBase(native, a) => native.acct[a].code = NoCode
  <2>1. Agrees(native, store, a, y)
    BY Zenon, <1>1, <1>2, BranchReads
  <2>2. QED  BY Zenon, <1>1, <2>1 DEF Agrees
<1>4. o.orig # Nil => o.orig.nonce = y.nonce /\ o.orig.code = y.code
  BY Zenon, <1>1, LoadedShows
<1>5. CASE ~ CodeDirty(o) /\ ~ NonceDirty(o)
  <2>1. CommittedAccount(a) = native.acct[a]
    BY Zenon, <1>5 DEF CommittedAccount
  <2>2. ReadsAs(s.native, a) = r
    BY Zenon, <1>1, <2>1 DEF ReadsAs
  <2>3. o.nonce = y.nonce /\ o.code = y.code
    BY Zenon, <1>4, <1>5 DEF CodeDirty, NonceDirty
  <2>4. QED  BY Zenon, <1>3, <2>2, <2>3
<1>6. CASE CodeDirty(o) \/ NonceDirty(o)
  <2>1. PICK x : x = SetAccount(native.acct[a], o)
    BY Zenon
  <2>2. CommittedAccount(a) = x
    BY Zenon, <1>6, <2>1 DEF CommittedAccount
  <2>3. r \in AuthAccount /\ x = [r EXCEPT !.nonce = o.nonce, !.code = IF r.kind = "eth" THEN o.code ELSE @]
    <3>1. native.acct[a] \in AuthAccount \cup {Nil}
      BY ONLY ZenonT(30), a \in Addr, NativeOK(native, store) DEF NativeOK, Native
    <3>2. NewAccount \in AuthAccount
      BY ONLY ConstantsAssumption DEF NewAccount, AuthAccount
    <3>3. r \in AuthAccount
      BY Zenon, <1>1, <3>1, <3>2 DEF ReadsAs
    <3>4. QED  BY Zenon, <1>1, <2>1, <3>3 DEF ReadsAs, SetAccount
  <2>4. x \in AuthAccount /\ x.nonce = o.nonce /\ x.code = IF r.kind = "eth" THEN o.code ELSE r.code
    BY ONLY ZenonT(30), <2>3, o \in StateObject DEF AuthAccount, StateObject
  <2>5. x # Nil
    BY Zenon, <2>4, ConstantsAssumption
  <2>6. ReadsAs(s.native, a) = x
    BY Zenon, <2>2, <2>5 DEF ReadsAs
  <2>7. r.kind = "eth" \/ r.kind = "base"
    BY Zenon, <2>3 DEF AuthAccount
  <2>8. r.kind = "base" => IsBase(native, a) /\ r = native.acct[a]
    BY Zenon, <1>1 DEF ReadsAs, IsBase, NewAccount
  <2>9. o.code \in s.codes \cup {NoCode}
    BY Zenon, <1>3, <1>4 DEF CodeDirty
  <2>10. QED  BY ZenonT(30), <1>3, <2>4, <2>6, <2>7, <2>8, <2>9
<1>7. QED  BY Zenon, <1>5, <1>6

\* An account that is dirty is written from its object.
LEMMA DirtyPersisted ==
  ASSUME Safe, Held, Unfinished, NEW a \in Addr, dirties[a] # 0, NEW s, s = StoreAfter(DirtyAddrs)
  PROVE  Persisted(s, a, Seen(a))
<1>1. TypeOK /\ DataOK /\ ConsistentStore(store) /\ Bookkeeping(journal, dirties, stateObjects)
  BY Zenon, SafeIs, InvData DEF RevertInv, Held
<1>2. store \in Store /\ NativeOK(native, store) /\ store.stor[a] \in [Key -> Val]
  <2>1. store \in Store /\ NativeOK(native, store)
    BY Zenon, <1>1 DEF TypeOK, DataOK
  <2>2. QED  BY Zenon, <2>1 DEF Store
<1>3. PICK o : o = stateObjects[a]
  BY Zenon
<1>4. o # Nil /\ o \in StateObject /\ Seen(a) = o
  <2>1. o # Nil
    BY Zenon, <1>1, <1>3 DEF Bookkeeping
  <2>2. o \in StateObject \cup {Nil}
    BY Zenon, <1>1, <1>3 DEF DataOK
  <2>3. QED  BY Zenon, <1>3, <2>1, <2>2 DEF Seen
<1>5. Faithful(o, a, store)
  BY Zenon, <1>3, <1>4 DEF Held, Tracked, ObjectsLoaded
<1>6. a \in DirtyAddrs
  BY Zenon DEF DirtyAddrs
<1>7. /\ s.native.acct[a] = CommittedAccount(a) /\ s.stor[a] = [k \in Key |-> CommittedSlot(a, k)]
      /\ s.codes = store.codes \cup CommittedCodes(DirtyAddrs)
  <2>1. Written(s, DirtyAddrs, a)
    BY Zenon, <1>1, StoreAfterIs
  <2>2. QED  BY Zenon, <1>6, <2>1 DEF Written
<1>8. CASE o.selfDestructed
  <2>1. s.native.acct[a] = Nil
    BY Zenon, <1>3, <1>7, <1>8 DEF CommittedAccount
  <2>2. ASSUME NEW k \in Key
        PROVE  CommittedSlot(a, k) = Zero
    <3>1. CASE native.acct[a] # Nil
      BY Zenon, <1>3, <1>8, <3>1 DEF CommittedSlot
    <3>2. CASE native.acct[a] = Nil
      <4>1. NewAccount # Nil
        BY ONLY ConstantsAssumption DEF NewAccount, AuthAccount
      <4>2. store.native.acct[a] = Nil
        BY Zenon, <1>2, <3>2, <4>1 DEF NativeOK
      <4>3. store.stor[a] = [h \in Key |-> Zero]
        BY Zenon, <1>1, <4>2 DEF ConsistentStore
      <4>4. store.stor[a][k] = Zero
        BY Zenon, <4>3
      <4>5. QED  BY Zenon, <1>3, <1>8, <3>2, <4>4 DEF CommittedSlot
    <3>3. QED  BY Zenon, <3>1, <3>2
  <2>3. s.stor[a] = [k \in Key |-> Zero]
    BY Zenon, <1>7, <2>2
  <2>4. QED  BY Zenon, <1>4, <1>8, <2>1, <2>3 DEF Persisted
<1>9. CASE ~ o.selfDestructed
  <2>1. store.codes \subseteq s.codes
    BY Zenon, <1>7
  <2>2. CodeDirty(o) => o.code \in s.codes \cup {NoCode}
    BY Zenon, <1>3, <1>6, <1>7, <1>9 DEF CommittedCodes
  <2>3. /\ ReadsAs(s.native, a).nonce = o.nonce
        /\ IsBase(native, a) \/ ReadsAs(s.native, a).code = o.code
        /\ ReadsAs(s.native, a).code \in s.codes \cup {NoCode}
    BY ZenonT(60), <1>1, <1>2, <1>3, <1>4, <1>5, <1>7, <1>9, <2>1, <2>2, AccountCommitted
  <2>4. ASSUME o.override = Nil
        PROVE  s.stor[a] = ShownSlots(o, store.stor[a])
    <3>1. \A k \in Key : CommittedSlot(a, k) = Current(o, store.stor[a], k)
      BY Zenon, <1>3, <1>4, <1>5, <1>9, <2>4, SlotCommitted
    <3>2. QED  BY Zenon, <1>7, <3>1 DEF ShownSlots
  <2>5. QED  BY Zenon, <1>4, <1>9, <2>3, <2>4 DEF Persisted
<1>10. QED  BY Zenon, <1>8, <1>9
=============================================================================
