---------------------------- MODULE StateDBViews ----------------------------
(***************************************************************************)
(* What undoing journal entries does to what the EVM sees, for any         *)
(* addresses, keys, values and bounds; the inductive invariant RevertInv;  *)
(* and the steps that preserve it, by what they append to the journal.     *)
(***************************************************************************)
EXTENDS StateDB, TLAPS

\* The storage an object over the keeper's slots shows.
ShownSlots(o, slots) == [k \in Key |-> Current(o, slots, k)]

\* Whether an object's storage is overridden.
HasOverride(o) == o.override # Nil

\* The view after entry e is undone in view V over parent st.
UndoView(e, V, st) ==
  [nonce |-> CASE e.op = "createObject" -> [V.nonce EXCEPT ![e.account] = NewObject(GetAccount(st.native, e.account)).nonce]
               [] e.op = "resetObject"  -> [V.nonce EXCEPT ![e.account] = e.prev.nonce]
               [] e.op = "nonce"        -> [V.nonce EXCEPT ![e.account] = e.prev]
               [] OTHER                 -> V.nonce,
   code |-> CASE e.op = "createObject" -> [V.code EXCEPT ![e.account] = NewObject(GetAccount(st.native, e.account)).code]
              [] e.op = "resetObject"  -> [V.code EXCEPT ![e.account] = e.prev.code]
              [] e.op = "code"         -> [V.code EXCEPT ![e.account] = e.prevhash]
              [] OTHER                 -> V.code,
   stor |-> CASE e.op = "createObject" -> [V.stor EXCEPT ![e.account] = st.stor[e.account]]
              [] e.op = "resetObject"  -> [V.stor EXCEPT ![e.account] = ShownSlots(e.prev, st.stor[e.account])]
              [] e.op = "storage"      -> [V.stor EXCEPT ![e.account][e.key] = e.prevalue]
              [] OTHER                 -> V.stor,
   destructed |-> CASE e.op = "createObject" -> [V.destructed EXCEPT ![e.account] = FALSE]
                    [] e.op = "resetObject"  -> [V.destructed EXCEPT ![e.account] = e.prev.selfDestructed]
                    [] e.op = "selfDestruct" -> [V.destructed EXCEPT ![e.account] = e.prev]
                    [] OTHER                 -> V.destructed,
   newContract |-> CASE e.op = "createObject"   -> [V.newContract EXCEPT ![e.account] = FALSE]
                     [] e.op = "resetObject"    -> [V.newContract EXCEPT ![e.account] = e.prev.newContract]
                     [] e.op = "createContract" -> [V.newContract EXCEPT ![e.account] = FALSE]
                     [] OTHER                   -> V.newContract,
   overridden |-> CASE e.op = "createObject" -> [V.overridden EXCEPT ![e.account] = FALSE]
                    [] e.op = "resetObject"  -> [V.overridden EXCEPT ![e.account] = HasOverride(e.prev)]
                    [] OTHER                 -> V.overridden,
   dirties |-> Drop(V.dirties, e),
   native |-> IF e.op = "native" THEN e.snapshot ELSE V.native,
   refund |-> IF e.op = "refund" THEN e.prev ELSE V.refund,
   logs |-> IF e.op = "addLog" THEN V.logs - 1 ELSE V.logs,
   events |-> IF e.op = "native" THEN V.events - e.events ELSE V.events,
   transient |-> IF e.op = "transient" THEN [V.transient EXCEPT ![e.account][e.key] = e.prevalue]
                 ELSE V.transient,
   access |-> CASE e.op = "accessListAddAccount" ->
                     [addresses |-> V.access.addresses \ {e.address},
                      slots     |-> {p \in V.access.slots : p[1] # e.address}]
                [] e.op = "accessListAddSlot" ->
                     [V.access EXCEPT !.slots = @ \ {<<e.address, e.slot>>}]
                [] OTHER -> V.access]

\* The branch differs from the parent only in balances and in new auth accounts.
NativeOK(n, st) ==
  /\ n \in Native
  /\ \A a \in Addr : \/ n.acct[a] = st.native.acct[a]
                     \/ st.native.acct[a] = Nil /\ n.acct[a] = NewAccount

\* What every view that Revert can return to satisfies.
GoodView(V, st) ==
  /\ NativeOK(V.native, st)
  /\ V.dirties \in [Addr -> Nat]
  /\ V.logs \in Nat /\ V.events \in Nat
  /\ V.access \in [addresses : SUBSET Addr, slots : SUBSET (Addr \X Key)]
  /\ \A p \in V.access.slots : p[1] \in V.access.addresses

\* Account a is in view V what the parent holds, its storage unless overridden.
CleanAt(V, st, a) ==
  /\ V.nonce[a] = NewObject(GetAccount(st.native, a)).nonce
  /\ V.code[a] = NewObject(GetAccount(st.native, a)).code
  /\ V.destructed[a] = FALSE
  /\ V.overridden[a] \/ V.stor[a] = st.stor[a]

\* Only the accounts that Commit will write differ from the parent.
CleanView(V, st) == \A a \in Addr : V.dirties[a] = 0 => CleanAt(V, st, a)

\* The fields of a view that hold one value per address.
PerAddress(V) ==
  /\ DOMAIN V.nonce = Addr /\ DOMAIN V.code = Addr /\ DOMAIN V.stor = Addr
  /\ DOMAIN V.destructed = Addr /\ DOMAIN V.overridden = Addr

\* R[m] is the view that undoing all entries of journal j after the m-th
\* leads to from view V, back to the m = b at which execution began; at the
\* first upto revisions it is the view that was saved.
Rewinds(j, V, st, revs, sv, upto, b, R) ==
  /\ b \in 0..Len(j)
  /\ R[Len(j)] = V
  /\ \A m \in b..Len(j) : GoodView(R[m], st) /\ CleanView(R[m], st)
  /\ \A m \in (b + 1)..Len(j) :
       /\ R[m - 1] = UndoView(j[m], R[m], st)
       /\ j[m].op = "createObject" => R[m - 1].dirties[j[m].account] = 0
  /\ \A r \in 1..upto : /\ revs[r].journalIndex \in b..Len(j)
                        /\ R[revs[r].journalIndex] = sv[r].view

Rewindable(j, V, st, revs, sv, upto) ==
  \E b \in Nat : \E R : Rewinds(j, V, st, revs, sv, upto, b, R)

\* The revisions that can still be reverted to.
Upto == IF phase = "reverting" THEN target ELSE Len(validRevisions)

\* Commit and Revert find the objects they dereference, and an object is
\* created once, before any other entry of its account.
Bookkeeping(j, d, objs) ==
  /\ j \in Seq(Entry)
  /\ d \in [Addr -> Nat]
  /\ \A a \in Addr : d[a] # 0 => objs[a] # Nil
  /\ \A i \in 1..Len(j) : j[i].op \in ObjectOps => objs[j[i].account] # Nil
  /\ \A i \in 1..Len(j) : \A h \in 1..(i - 1) :
       j[i].op = "createObject" /\ j[h].op \in ObjectOps => j[h].account # j[i].account

Unfinished == phase \in {"setup", "running", "reverting"}

\* The inductive invariant of RevertRestoresView.
RevertInv ==
  /\ TypeOK
  /\ RevisionsOrdered
  /\ Bookkeeping(journal, dirties, stateObjects)
  /\ phase = "setup" => validRevisions = <<>>
  /\ phase = "reverting" => /\ target \in 1..Len(validRevisions)
                            /\ validRevisions[target].journalIndex <= Len(journal)
  /\ Unfinished => Rewindable(journal, View, store, validRevisions, saved, Upto)

\* RevertInv under the name by which lemmas assume and conclude it; the provers
\* expand RevertInv only where a proof is about its conjuncts.
Safe == RevertInv

\* The two names mean the same, before and after a step.
LEMMA SafeIs == (Safe <=> RevertInv) /\ (Safe' <=> RevertInv')
BY DEF Safe

-----------------------------------------------------------------------------
(* Entries *)

\* Every entry an operation appends is an Entry.
LEMMA EntryIntro ==
  ASSUME NEW a \in Addr, NEW k \in Key
  PROVE  /\ [op |-> "createObject", account |-> a] \in Entry
         /\ [op |-> "createContract", account |-> a] \in Entry
         /\ \A prev \in StateObject : [op |-> "resetObject", account |-> a, prev |-> prev] \in Entry
         /\ \A prev \in BOOLEAN : [op |-> "selfDestruct", account |-> a, prev |-> prev] \in Entry
         /\ \A prev \in Nat : [op |-> "nonce", account |-> a, prev |-> prev] \in Entry
         /\ \A c \in Code : [op |-> "code", account |-> a, prevhash |-> c] \in Entry
         /\ \A v \in Val : [op |-> "storage", account |-> a, key |-> k, prevalue |-> v] \in Entry
         /\ \A v \in Val : [op |-> "transient", account |-> a, key |-> k, prevalue |-> v] \in Entry
         /\ [op |-> "accessListAddAccount", address |-> a] \in Entry
         /\ [op |-> "accessListAddSlot", address |-> a, slot |-> k] \in Entry
BY DEF Entry

\* The entries without an account.
LEMMA EntryIntroOther ==
  /\ [op |-> "addLog"] \in Entry
  /\ \A n \in Nat : [op |-> "refund", prev |-> n] \in Entry
  /\ \A n \in Native, i \in Nat : [op |-> "native", snapshot |-> n, events |-> i] \in Entry
BY DEF Entry

\* The fields of an entry.
LEMMA EntryElim ==
  ASSUME NEW e \in Entry
  PROVE  /\ e.op \in ObjectOps => e.account \in Addr
         /\ e.op = "resetObject" => e.prev \in StateObject
         /\ e.op = "selfDestruct" => e.prev \in BOOLEAN
         /\ e.op = "nonce" => e.prev \in Nat
         /\ e.op = "code" => e.prevhash \in Code
         /\ e.op = "storage" => e.key \in Key /\ e.prevalue \in Val
         /\ e.op = "transient" => e.account \in Addr /\ e.key \in Key /\ e.prevalue \in Val
         /\ e.op = "native" => e.snapshot \in Native /\ e.events \in Nat
         /\ e.op = "refund" => e.prev \in Nat
         /\ e.op = "accessListAddAccount" => e.address \in Addr
         /\ e.op = "accessListAddSlot" => e.address \in Addr /\ e.slot \in Key
BY DEF Entry, ObjectOps

-----------------------------------------------------------------------------
(* Objects and what the EVM sees of them *)

\* A new object is an object, and its storage is the keeper's.
LEMMA NewObjectType ==
  ASSUME NEW acct \in Account \cup {Nil}
  PROVE  /\ NewObject(acct) \in StateObject
         /\ NewObject(acct) # Nil
         /\ \A slots, k : k \in Key => Current(NewObject(acct), slots, k) = slots[k]
<1>1. NewObject(acct) \in StateObject
  BY ConstantsAssumption DEF NewObject, StateObject, Account
<1>2. ASSUME NEW slots, NEW k \in Key
      PROVE  Current(NewObject(acct), slots, k) = slots[k]
  BY DEF NewObject, Current, Committed
<1>3. QED  BY <1>1, <1>2, ConstantsAssumption

\* keeper.GetAccount returns nil or an account, and nil only for no account.
LEMMA GetAccountType ==
  ASSUME NEW n \in Native, NEW a \in Addr
  PROVE  /\ GetAccount(n, a) \in Account \cup {Nil}
         /\ GetAccount(n, a) = Nil <=> n.acct[a] = Nil
BY ConstantsAssumption DEF GetAccount, Account, AuthAccount, Native

\* What the view shows is an object.
LEMMA SeenType ==
  ASSUME TypeOK, NEW a \in Addr
  PROVE  Seen(a) \in StateObject /\ Seen(a) # Nil
<1>1. store.native \in Native
  BY DEF TypeOK, Store
<1>2. QED
  BY <1>1, GetAccountType, NewObjectType DEF TypeOK, Seen

\* Two objects over the same slots in the keeper show the same.
SameShown(o, p, slots) ==
  /\ o.nonce = p.nonce /\ o.code = p.code
  /\ \A k \in Key : Current(o, slots, k) = Current(p, slots, k)
  /\ o.selfDestructed = p.selfDestructed /\ o.newContract = p.newContract
  /\ HasOverride(o) = HasOverride(p)

\* getStateObject, and getOrNewStateObject, return what the view shows.
LEMMA GetOrNewView ==
  ASSUME TypeOK, NativeOK(native, store), NEW a \in Addr
  PROVE  /\ GetOrNew(a) \in StateObject /\ GetOrNew(a) # Nil
         /\ \A slots : SameShown(GetOrNew(a), Seen(a), slots)
<1>0. native \in Native /\ store.native \in Native
  BY DEF TypeOK, Store
<1>1. CASE stateObjects[a] # Nil
  <2>1. GetOrNew(a) = stateObjects[a] /\ Seen(a) = stateObjects[a]
    BY <1>1 DEF GetOrNew, Exist, GetStateObject, Seen
  <2>2. QED
    BY <1>1, <2>1 DEF TypeOK, SameShown
<1>2. CASE stateObjects[a] = Nil
  <2> DEFINE x == GetAccount(native, a)
             y == GetAccount(store.native, a)
  <2>1. x \in Account \cup {Nil} /\ y \in Account \cup {Nil}
    BY <1>0, GetAccountType
  <2>2. GetOrNew(a) = NewObject(x) /\ Seen(a) = NewObject(y)
    BY Zenon, <1>2, <2>1, NewObjectType DEF GetOrNew, Exist, GetStateObject, Seen
  <2>3. x = y \/ (y = Nil /\ x = [nonce |-> 0, code |-> NoCode])
    BY ConstantsAssumption DEF NativeOK, GetAccount, NewAccount, AuthAccount
  <2> HIDE DEF x, y
  <2>4. NewObject(x).nonce = NewObject(y).nonce /\ NewObject(x).code = NewObject(y).code
    BY <2>1, <2>3, ConstantsAssumption DEF NewObject
  <2>5. /\ NewObject(x).selfDestructed = NewObject(y).selfDestructed
        /\ NewObject(x).newContract = NewObject(y).newContract
        /\ NewObject(x).override = NewObject(y).override
    BY DEF NewObject
  <2>6. \A slots : \A k \in Key : Current(NewObject(x), slots, k) = Current(NewObject(y), slots, k)
    BY ONLY SMTT(30), Z3T(30), <2>1, NewObjectType
  <2>7. QED
    BY <2>1, <2>2, <2>4, <2>5, <2>6, NewObjectType DEF SameShown, HasOverride
<1>3. QED  BY <1>1, <1>2

\* The view as a function of the state.
SeenIn(objs, st, a) == IF objs[a] # Nil THEN objs[a] ELSE NewObject(GetAccount(st.native, a))

ShownNonce(objs, st) == [a \in Addr |-> SeenIn(objs, st, a).nonce]
ShownCode(objs, st) == [a \in Addr |-> SeenIn(objs, st, a).code]
ShownStor(objs, st) == [a \in Addr |-> ShownSlots(SeenIn(objs, st, a), st.stor[a])]
ShownDestructed(objs, st) == [a \in Addr |-> SeenIn(objs, st, a).selfDestructed]
ShownNewContract(objs, st) == [a \in Addr |-> SeenIn(objs, st, a).newContract]
ShownOverridden(objs, st) == [a \in Addr |-> HasOverride(SeenIn(objs, st, a))]

ViewOf(objs, st, d, n, r, l, ev, t, al) ==
  [nonce |-> ShownNonce(objs, st), code |-> ShownCode(objs, st), stor |-> ShownStor(objs, st),
   destructed |-> ShownDestructed(objs, st), newContract |-> ShownNewContract(objs, st),
   overridden |-> ShownOverridden(objs, st), dirties |-> d,
   native |-> n, refund |-> r, logs |-> l, events |-> ev, transient |-> t, access |-> al]

\* The view before and after a step, in this form.
LEMMA ViewIs ==
  /\ View = ViewOf(stateObjects, store, dirties, native, refund, logs, nativeEvents,
                   transientStorage, accessList)
  /\ View' = ViewOf(stateObjects', store', dirties', native', refund', logs', nativeEvents',
                    transientStorage', accessList')
BY Zenon DEF View, ViewOf, ViewNonce, ViewCode, ViewStor, ViewDestructed, ViewNewContract, ViewOverridden,
       ShownNonce, ShownCode, ShownStor, ShownDestructed, ShownNewContract, ShownOverridden,
       Seen, SeenIn, ShownSlots, HasOverride

\* Objects that show the same give the same view.
LEMMA SameView ==
  ASSUME NEW objs, NEW objs2, NEW st,
         \A a \in Addr : SameShown(SeenIn(objs, st, a), SeenIn(objs2, st, a), st.stor[a])
  PROVE  /\ ShownNonce(objs, st) = ShownNonce(objs2, st)
         /\ ShownCode(objs, st) = ShownCode(objs2, st)
         /\ ShownStor(objs, st) = ShownStor(objs2, st)
         /\ ShownDestructed(objs, st) = ShownDestructed(objs2, st)
         /\ ShownNewContract(objs, st) = ShownNewContract(objs2, st)
         /\ ShownOverridden(objs, st) = ShownOverridden(objs2, st)
<1>1. ShownNonce(objs, st) = ShownNonce(objs2, st)
  BY DEF SameShown, ShownNonce
<1>2. ShownCode(objs, st) = ShownCode(objs2, st)
  BY DEF SameShown, ShownCode
<1>3. ShownStor(objs, st) = ShownStor(objs2, st)
  BY DEF SameShown, ShownStor, ShownSlots
<1>4. ShownDestructed(objs, st) = ShownDestructed(objs2, st)
  BY DEF SameShown, ShownDestructed
<1>5. ShownNewContract(objs, st) = ShownNewContract(objs2, st)
  BY DEF SameShown, ShownNewContract
<1>6. ShownOverridden(objs, st) = ShownOverridden(objs2, st)
  BY DEF SameShown, ShownOverridden
<1>7. QED  BY <1>1, <1>2, <1>3, <1>4, <1>5, <1>6

\* One object is replaced; one that was removed is reloaded when it is asked for.
Replaces(objs2, objs, a, o) == objs2 = [objs EXCEPT ![a] = o]
Reloaded(o, st, a) == IF o # Nil THEN o ELSE NewObject(GetAccount(st.native, a))

\* What is shown after one object was replaced.
LEMMA ObjectChange ==
  ASSUME NEW objs \in [Addr -> StateObject \cup {Nil}], NEW st, NEW a \in Addr, NEW o, NEW p, NEW objs2,
         Replaces(objs2, objs, a, o), p = Reloaded(o, st, a)
  PROVE  /\ ShownNonce(objs2, st) = [ShownNonce(objs, st) EXCEPT ![a] = p.nonce]
         /\ ShownCode(objs2, st) = [ShownCode(objs, st) EXCEPT ![a] = p.code]
         /\ ShownStor(objs2, st) =
              [ShownStor(objs, st) EXCEPT ![a] = ShownSlots(p, st.stor[a])]
         /\ ShownDestructed(objs2, st) =
              [ShownDestructed(objs, st) EXCEPT ![a] = p.selfDestructed]
         /\ ShownNewContract(objs2, st) =
              [ShownNewContract(objs, st) EXCEPT ![a] = p.newContract]
         /\ ShownOverridden(objs2, st) =
              [ShownOverridden(objs, st) EXCEPT ![a] = HasOverride(p)]
<1>1. \A b \in Addr : SeenIn(objs2, st, b) = IF b = a THEN p ELSE SeenIn(objs, st, b)
  BY DEF SeenIn, Replaces, Reloaded
<1>2. ShownNonce(objs2, st) = [ShownNonce(objs, st) EXCEPT ![a] = p.nonce]
  BY ZenonT(60), <1>1 DEF ShownNonce
<1>3. ShownCode(objs2, st) = [ShownCode(objs, st) EXCEPT ![a] = p.code]
  BY ZenonT(60), <1>1 DEF ShownCode
<1>4. ShownStor(objs2, st) = [ShownStor(objs, st) EXCEPT ![a] = ShownSlots(p, st.stor[a])]
  BY ZenonT(60), <1>1 DEF ShownStor
<1>5. ShownDestructed(objs2, st) = [ShownDestructed(objs, st) EXCEPT ![a] = p.selfDestructed]
  BY ZenonT(60), <1>1 DEF ShownDestructed
<1>6. ShownNewContract(objs2, st) = [ShownNewContract(objs, st) EXCEPT ![a] = p.newContract]
  BY ZenonT(60), <1>1 DEF ShownNewContract
<1>7. ShownOverridden(objs2, st) = [ShownOverridden(objs, st) EXCEPT ![a] = HasOverride(p)]
  BY ZenonT(60), <1>1 DEF ShownOverridden
<1>8. QED  BY <1>2, <1>3, <1>4, <1>5, <1>6, <1>7

\* The object o of a is what is shown of a.
ShownKept(objs, st, a, o) ==
  /\ ShownNonce(objs, st) = [ShownNonce(objs, st) EXCEPT ![a] = o.nonce]
  /\ ShownCode(objs, st) = [ShownCode(objs, st) EXCEPT ![a] = o.code]
  /\ ShownStor(objs, st) = [ShownStor(objs, st) EXCEPT ![a] = ShownSlots(o, st.stor[a])]
  /\ ShownDestructed(objs, st) = [ShownDestructed(objs, st) EXCEPT ![a] = o.selfDestructed]
  /\ ShownNewContract(objs, st) = [ShownNewContract(objs, st) EXCEPT ![a] = o.newContract]
  /\ ShownOverridden(objs, st) = [ShownOverridden(objs, st) EXCEPT ![a] = HasOverride(o)]

\* That is so of an object that is left as it is.
LEMMA ObjectKept ==
  ASSUME NEW objs \in [Addr -> StateObject \cup {Nil}], NEW st, NEW a \in Addr, objs[a] # Nil
  PROVE  ShownKept(objs, st, a, objs[a])
<1>1. Replaces(objs, objs, a, objs[a])
  BY DEF Replaces
<1>2. objs[a] = Reloaded(objs[a], st, a)
  BY DEF Reloaded
<1>3. QED  BY ONLY <1>1, <1>2, a \in Addr, objs \in [Addr -> StateObject \cup {Nil}], ObjectChange DEF ShownKept

\* Undoing an entry in the view of a state is the view of the state in which
\* the entry was undone: the entries of objects.
LEMMA UndoObject ==
  ASSUME NEW objs \in [Addr -> StateObject \cup {Nil}], NEW st \in Store, NEW e \in Entry, e.op \in ObjectOps,
         objs[e.account] # Nil, NEW objs2,
         Replaces(objs2, objs, e.account, RevertedObject(e, objs[e.account])),
         NEW d, NEW n, NEW r, NEW l, NEW ev, NEW t, NEW al
  PROVE  UndoView(e, ViewOf(objs, st, d, n, r, l, ev, t, al), st) =
         ViewOf(objs2, st, Drop(d, e), n, r, l, ev, t, al)
<1>1. PICK a \in Addr : a = e.account
  BY EntryElim
<1>2. PICK V : V = ViewOf(objs, st, d, n, r, l, ev, t, al)
  OBVIOUS
<1>3. PICK o : o = RevertedObject(e, objs[a])
  OBVIOUS
<1>4. PICK p : p = Reloaded(o, st, a)
  OBVIOUS
<1>5. Replaces(objs2, objs, a, o)
  BY ZenonT(30), <1>1, <1>3
<1>6. /\ ShownNonce(objs2, st) = [ShownNonce(objs, st) EXCEPT ![a] = p.nonce]
      /\ ShownCode(objs2, st) = [ShownCode(objs, st) EXCEPT ![a] = p.code]
      /\ ShownStor(objs2, st) = [ShownStor(objs, st) EXCEPT ![a] = ShownSlots(p, st.stor[a])]
      /\ ShownDestructed(objs2, st) = [ShownDestructed(objs, st) EXCEPT ![a] = p.selfDestructed]
      /\ ShownNewContract(objs2, st) = [ShownNewContract(objs, st) EXCEPT ![a] = p.newContract]
      /\ ShownOverridden(objs2, st) = [ShownOverridden(objs, st) EXCEPT ![a] = HasOverride(p)]
  BY <1>4, <1>5, ObjectChange
<1>7. objs[a] \in StateObject /\ objs[a] # Nil /\ SeenIn(objs, st, a) = objs[a]
  BY <1>1 DEF SeenIn
<1>8. /\ V.nonce = ShownNonce(objs, st) /\ V.code = ShownCode(objs, st) /\ V.stor = ShownStor(objs, st)
      /\ V.destructed = ShownDestructed(objs, st) /\ V.newContract = ShownNewContract(objs, st)
      /\ V.overridden = ShownOverridden(objs, st) /\ V.dirties = d /\ V.native = n /\ V.refund = r
      /\ V.logs = l /\ V.events = ev /\ V.transient = t /\ V.access = al
  BY ZenonT(30), <1>2 DEF ViewOf
<1>9. /\ ShownNonce(objs, st) = [ShownNonce(objs, st) EXCEPT ![a] = objs[a].nonce]
      /\ ShownCode(objs, st) = [ShownCode(objs, st) EXCEPT ![a] = objs[a].code]
      /\ ShownStor(objs, st) = [ShownStor(objs, st) EXCEPT ![a] = ShownSlots(objs[a], st.stor[a])]
      /\ ShownDestructed(objs, st) = [ShownDestructed(objs, st) EXCEPT ![a] = objs[a].selfDestructed]
      /\ ShownNewContract(objs, st) = [ShownNewContract(objs, st) EXCEPT ![a] = objs[a].newContract]
      /\ ShownOverridden(objs, st) = [ShownOverridden(objs, st) EXCEPT ![a] = HasOverride(objs[a])]
  <2>1. ShownKept(objs, st, a, objs[a])
    BY Zenon, <1>7, ObjectKept
  <2>2. QED  BY Zenon, <2>1 DEF ShownKept
<1>10. UndoView(e, V, st) = ViewOf(objs2, st, Drop(d, e), n, r, l, ev, t, al)
  <2>1. CASE e.op = "createObject"
    <3>1. p = NewObject(GetAccount(st.native, a))
      BY <1>3, <1>4, <2>1 DEF RevertedObject, Reloaded
    <3>2. p.selfDestructed = FALSE /\ p.newContract = FALSE /\ HasOverride(p) = FALSE
      BY <3>1 DEF NewObject, HasOverride
    <3>3. ShownSlots(p, st.stor[a]) = st.stor[a]
      <4>1. \A k \in Key : Current(p, st.stor[a], k) = st.stor[a][k]
        BY <3>1 DEF NewObject, Current, Committed
      <4>2. st.stor[a] \in [Key -> Val]
        BY Zenon DEF Store
      <4>3. QED  BY <4>1, <4>2 DEF ShownSlots
    <3>4. QED  BY ZenonT(60), <1>1, <1>6, <1>8, <2>1, <3>1, <3>2, <3>3 DEF UndoView, ViewOf
  <2>2. CASE e.op = "resetObject"
    <3>1. p = e.prev
      BY <1>3, <1>4, <2>2, EntryElim, ConstantsAssumption DEF RevertedObject, Reloaded
    <3>2. QED  BY ZenonT(30), <1>1, <1>6, <1>8, <2>2, <3>1 DEF UndoView, ViewOf
  <2>3. CASE e.op = "createContract"
    <3>1. o = [objs[a] EXCEPT !.newContract = FALSE]
      BY <1>3, <2>3 DEF RevertedObject
    <3>2. o \in StateObject
      BY ZenonT(60), <1>7, <2>3, <3>1, EntryElim DEF StateObject
    <3>3. p = [objs[a] EXCEPT !.newContract = FALSE]
      BY ZenonT(60), <1>4, <3>1, <3>2, ConstantsAssumption DEF Reloaded
    <3>4. p.nonce = objs[a].nonce /\ p.code = objs[a].code /\ p.selfDestructed = objs[a].selfDestructed /\ p.newContract = FALSE /\ HasOverride(p) = HasOverride(objs[a])
      BY <1>7, <3>3 DEF StateObject, HasOverride
    <3>5. ShownSlots(p, st.stor[a]) = ShownSlots(objs[a], st.stor[a])
      BY <1>7, <3>3 DEF StateObject, Current, Committed, ShownSlots
    <3>6. QED  BY ZenonT(90), <1>1, <1>6, <1>8, <1>9, <2>3, <3>4, <3>5 DEF UndoView, ViewOf
  <2>4. CASE e.op = "selfDestruct"
    <3>1. o = [objs[a] EXCEPT !.selfDestructed = e.prev]
      BY <1>3, <2>4 DEF RevertedObject
    <3>2. o \in StateObject
      BY <1>7, <2>4, <3>1, EntryElim DEF StateObject
    <3>3. p = [objs[a] EXCEPT !.selfDestructed = e.prev]
      BY <1>4, <3>1, <3>2, ConstantsAssumption DEF Reloaded
    <3>4. p.nonce = objs[a].nonce /\ p.code = objs[a].code /\ p.selfDestructed = e.prev /\ p.newContract = objs[a].newContract /\ HasOverride(p) = HasOverride(objs[a])
      BY <1>7, <3>3 DEF StateObject, HasOverride
    <3>5. ShownSlots(p, st.stor[a]) = ShownSlots(objs[a], st.stor[a])
      BY Zenon, <1>7, <3>3 DEF StateObject, Current, Committed, ShownSlots
    <3>6. QED  BY ZenonT(90), <1>1, <1>6, <1>8, <1>9, <2>4, <3>4, <3>5 DEF UndoView, ViewOf
  <2>5. CASE e.op = "nonce"
    <3>1. o = [objs[a] EXCEPT !.nonce = e.prev]
      BY <1>3, <2>5 DEF RevertedObject
    <3>2. o \in StateObject
      BY <1>7, <2>5, <3>1, EntryElim DEF StateObject
    <3>3. p = [objs[a] EXCEPT !.nonce = e.prev]
      BY <1>4, <3>1, <3>2, ConstantsAssumption DEF Reloaded
    <3>4. p.nonce = e.prev /\ p.code = objs[a].code /\ p.selfDestructed = objs[a].selfDestructed /\ p.newContract = objs[a].newContract /\ HasOverride(p) = HasOverride(objs[a])
      BY <1>7, <3>3 DEF StateObject, HasOverride
    <3>5. ShownSlots(p, st.stor[a]) = ShownSlots(objs[a], st.stor[a])
      BY Zenon, <1>7, <3>3 DEF StateObject, Current, Committed, ShownSlots
    <3>6. QED  BY ZenonT(90), <1>1, <1>6, <1>8, <1>9, <2>5, <3>4, <3>5 DEF UndoView, ViewOf
  <2>6. CASE e.op = "code"
    <3>1. o = [objs[a] EXCEPT !.code = e.prevhash]
      BY Zenon, <1>3, <2>6 DEF RevertedObject
    <3>2. o \in StateObject
      BY Zenon, <1>7, <2>6, <3>1, EntryElim DEF StateObject
    <3>3. p = [objs[a] EXCEPT !.code = e.prevhash]
      BY Zenon, <1>4, <3>1, <3>2, ConstantsAssumption DEF Reloaded
    <3>4. p.nonce = objs[a].nonce /\ p.code = e.prevhash /\ p.selfDestructed = objs[a].selfDestructed /\ p.newContract = objs[a].newContract /\ HasOverride(p) = HasOverride(objs[a])
      BY <1>7, <3>3 DEF StateObject, HasOverride
    <3>5. ShownSlots(p, st.stor[a]) = ShownSlots(objs[a], st.stor[a])
      BY Zenon, <1>7, <3>3 DEF StateObject, Current, Committed, ShownSlots
    <3>6. QED  BY ZenonT(90), <1>1, <1>6, <1>8, <1>9, <2>6, <3>4, <3>5 DEF UndoView, ViewOf
  <2>7. CASE e.op = "storage"
    <3>0. e.key \in Key /\ e.prevalue \in Val
      BY <2>7, EntryElim
    <3>1. o = [objs[a] EXCEPT !.dirty[e.key] = e.prevalue]
      BY <1>3, <2>7 DEF RevertedObject
    <3>2. o \in StateObject
      BY <1>7, <3>0, <3>1 DEF StateObject
    <3>3. p = [objs[a] EXCEPT !.dirty[e.key] = e.prevalue]
      BY <1>4, <3>1, <3>2, ConstantsAssumption DEF Reloaded
    <3>4. p.nonce = objs[a].nonce /\ p.code = objs[a].code /\ p.selfDestructed = objs[a].selfDestructed /\ p.newContract = objs[a].newContract /\ HasOverride(p) = HasOverride(objs[a])
      BY <1>7, <3>3 DEF StateObject, HasOverride
    <3>5. \A k \in Key : Current(p, st.stor[a], k) =
                           IF k = e.key THEN e.prevalue ELSE Current(objs[a], st.stor[a], k)
      BY Zenon, <1>7, <3>0, <3>3, ConstantsAssumption DEF StateObject, Current, Committed
    <3>6. ShownStor(objs2, st) = [ShownStor(objs, st) EXCEPT ![a][e.key] = e.prevalue]
      <4>1. ShownSlots(p, st.stor[a]) = [ShownSlots(objs[a], st.stor[a]) EXCEPT ![e.key] = e.prevalue]
        BY ZenonT(60), <3>0, <3>5 DEF ShownSlots
      <4>2. ShownStor(objs, st)[a] = ShownSlots(objs[a], st.stor[a])
        BY <1>7 DEF ShownStor
      <4>3. QED  BY <1>6, <4>1, <4>2
    <3>7. QED  BY ZenonT(90), SMTT(30), <1>1, <1>6, <1>8, <1>9, <2>7, <3>4, <3>6 DEF UndoView, ViewOf
  <2>8. QED  BY <2>1, <2>2, <2>3, <2>4, <2>5, <2>6, <2>7 DEF ObjectOps
<1>11. QED  BY <1>2, <1>10

-----------------------------------------------------------------------------
(* Extending and shortening the chain of views *)

\* A prefix of a sequence.
LEMMA PrefixOfSeq ==
  ASSUME NEW S, NEW s \in Seq(S), NEW k \in 0..Len(s)
  PROVE  /\ SubSeq(s, 1, k) \in Seq(S)
         /\ Len(SubSeq(s, 1, k)) = k
         /\ \A i \in 1..k : SubSeq(s, 1, k)[i] = s[i]
OBVIOUS

\* The current view is the last of the chain.
LEMMA ChainIsGood ==
  ASSUME NEW j \in Seq(Entry), NEW V, NEW st, NEW revs, NEW sv, NEW upto,
         Rewindable(j, V, st, revs, sv, upto)
  PROVE  GoodView(V, st) /\ CleanView(V, st)
BY DEF Rewindable, Rewinds

\* Before execution begins there is nothing to return to.
LEMMA ChainStarts ==
  ASSUME NEW j \in Seq(Entry), NEW V, NEW st, NEW revs, NEW sv,
         GoodView(V, st), CleanView(V, st)
  PROVE  Rewindable(j, V, st, revs, sv, 0)
<1>1. PICK b \in Nat : b = Len(j)
  OBVIOUS
<1>2. PICK R : R = [m \in {b} |-> V]
  BY ZenonT(60)
<1>3. Rewinds(j, V, st, revs, sv, 0, b, R)
  BY <1>1, <1>2 DEF Rewinds
<1>4. QED  BY <1>3 DEF Rewindable

\* An entry that makes its account dirty, or that touches no account, keeps the
\* view clean; resetObject makes nothing dirty and has to be looked at.
LEMMA CleanGrows ==
  ASSUME NEW st, NEW e, NEW V, NEW W, GoodView(V, st), CleanView(V, st), GoodView(W, st), PerAddress(W),
         UndoView(e, W, st) = V, e.op = "resetObject" => CleanView(W, st)
  PROVE  CleanView(W, st)
<1>1. SUFFICES ASSUME e.op # "resetObject", NEW a \in Addr, W.dirties[a] = 0
               PROVE  CleanAt(W, st, a)
  BY Zenon DEF CleanView
<1>2. V.dirties = Drop(W.dirties, e) /\ V.dirties[a] \in Nat /\ W.dirties[a] \in Nat
  BY Zenon DEF UndoView, GoodView
<1>3. a \notin Dirtied(e)
  BY <1>1, <1>2 DEF Drop
<1>4. CleanAt(V, st, a)
  BY <1>1, <1>2, <1>3 DEF Drop, CleanView
<1>5. e.op \in {"createObject", "selfDestruct", "nonce", "code", "storage"} => e.account # a
  BY <1>3 DEF Dirtied
<1>6. V.nonce[a] = W.nonce[a] /\ V.code[a] = W.code[a]
  BY <1>1, <1>5 DEF UndoView, PerAddress
<1>7. V.stor[a] = W.stor[a]
  BY <1>1, <1>5 DEF UndoView, PerAddress
<1>8. V.destructed[a] = W.destructed[a] /\ V.overridden[a] = W.overridden[a]
  BY <1>1, <1>5 DEF UndoView, PerAddress
<1>9. QED  BY Zenon, <1>4, <1>6, <1>7, <1>8 DEF CleanAt

\* An entry whose undoing gives the old view back extends the chain.
LEMMA ChainGrows ==
  ASSUME NEW j \in Seq(Entry), NEW V, NEW st, NEW revs, NEW sv, NEW upto \in Nat,
         Rewindable(j, V, st, revs, sv, upto),
         NEW e, NEW W, GoodView(W, st), PerAddress(W), UndoView(e, W, st) = V,
         e.op = "createObject" => V.dirties[e.account] = 0,
         e.op = "resetObject" => CleanView(W, st)
  PROVE  Rewindable(Append(j, e), W, st, revs, sv, upto)
<1>1. PICK n \in Nat : n = Len(j)
  OBVIOUS
<1>2. PICK b, R : b \in Nat /\ Rewinds(j, V, st, revs, sv, upto, b, R)
  BY DEF Rewindable
<1>3. PICK S : S = [m \in 0..(n + 1) |-> IF m = n + 1 THEN W ELSE R[m]]
  BY ZenonT(60)
<1>4. PICK l : l = Append(j, e)
  BY ZenonT(60)
<1>5. Len(l) = n + 1 /\ l[n + 1] = e /\ \A m \in 1..n : l[m] = j[m]
  BY <1>1, <1>4
<1>6. S[n + 1] = W /\ \A m \in 0..n : S[m] = R[m]
  BY ONLY SMTT(30), Z3T(30), <1>3
<1>7. b \in 0..n /\ R[n] = V
  BY <1>1, <1>2 DEF Rewinds
<1>c. CleanView(W, st)
  BY ZenonT(30), ChainIsGood, CleanGrows
<1>8. ASSUME NEW m \in b..(n + 1)
      PROVE  GoodView(S[m], st) /\ CleanView(S[m], st)
  <2>1. CASE m = n + 1
    BY Zenon, <1>6, <1>c, <2>1
  <2>2. CASE m # n + 1
    <3>1. m \in b..n /\ m \in 0..n
      BY ONLY SMTT(30), Z3T(30), <1>7, <2>2
    <3>2. QED  BY Zenon, <1>1, <1>2, <1>6, <3>1 DEF Rewinds
  <2>3. QED  BY <2>1, <2>2
<1>9. ASSUME NEW m \in (b + 1)..(n + 1)
      PROVE  /\ S[m - 1] = UndoView(l[m], S[m], st)
             /\ l[m].op = "createObject" => S[m - 1].dirties[l[m].account] = 0
  <2>1. CASE m = n + 1
    <3>1. m - 1 = n /\ l[m] = e /\ S[m] = W
      BY ONLY <1>5, <1>6, <2>1
    <3>2. S[n] = V
      BY ONLY SMTT(30), Z3T(30), <1>6, <1>7
    <3>3. QED  BY Zenon, <3>1, <3>2
  <2>2. CASE m # n + 1
    <3>1. m \in (b + 1)..n /\ m - 1 \in 0..n /\ m \in 0..n /\ m \in 1..n
      BY <1>7, <2>2
    <3>2. QED  BY ZenonT(30), <1>1, <1>2, <1>5, <1>6, <3>1 DEF Rewinds
  <2>3. QED  BY Zenon, <2>1, <2>2
<1>10. ASSUME NEW r \in 1..upto
       PROVE  /\ revs[r].journalIndex \in b..(n + 1)
              /\ S[revs[r].journalIndex] = sv[r].view
  <2>1. revs[r].journalIndex \in b..n /\ R[revs[r].journalIndex] = sv[r].view
    BY Zenon, <1>1, <1>2 DEF Rewinds
  <2>2. QED  BY ONLY SMTT(30), Z3T(30), <1>6, <1>7, <2>1
<1>11. b \in 0..Len(l) /\ S[Len(l)] = W
  BY ONLY SMTT(30), Z3T(30), <1>5, <1>6, <1>7
<1>12. Rewinds(l, W, st, revs, sv, upto, b, S)
  BY ZenonT(30), <1>5, <1>8, <1>9, <1>10, <1>11 DEF Rewinds
<1>13. QED  BY <1>2, <1>4, <1>12 DEF Rewindable

\* Undoing the last entry shortens the chain.
LEMMA ChainShrinks ==
  ASSUME NEW j \in Seq(Entry), NEW V, NEW st, NEW revs, NEW sv, NEW upto \in Nat \ {0},
         Rewindable(j, V, st, revs, sv, upto),
         \A r \in 1..upto : revs[r].journalIndex < Len(j)
  PROVE  /\ Rewindable(SubSeq(j, 1, Len(j) - 1), UndoView(j[Len(j)], V, st), st, revs, sv, upto)
         /\ GoodView(UndoView(j[Len(j)], V, st), st)
         /\ j[Len(j)].op = "createObject" => UndoView(j[Len(j)], V, st).dirties[j[Len(j)].account] = 0
<1>1. PICK n \in Nat : n = Len(j)
  BY SMTT(30), Z3T(30)
<1>2. PICK b, R : b \in Nat /\ Rewinds(j, V, st, revs, sv, upto, b, R)
  BY Zenon DEF Rewindable
<1>b. b \in Nat
  BY Zenon, <1>2
<1>3. PICK l : l = SubSeq(j, 1, n - 1)
  BY ZenonT(60)
<1>4. revs[1].journalIndex \in b..n /\ revs[1].journalIndex < n
  <2>1. 1 \in 1..upto
    BY ONLY upto \in Nat \ {0}
  <2>2. QED  BY Zenon, <1>1, <1>2, <2>1 DEF Rewinds
<1>5. n - 1 \in 0..n /\ n - 1 \in b..n /\ n \in (b + 1)..n
  BY <1>2, <1>4
<1>6. Len(l) = n - 1 /\ \A m \in 1..(n - 1) : l[m] = j[m]
  BY ZenonT(30), <1>1, <1>3, <1>5, PrefixOfSeq
<1>7. /\ R[n - 1] = UndoView(j[n], V, st) /\ GoodView(R[n - 1], st)
      /\ j[n].op = "createObject" => R[n - 1].dirties[j[n].account] = 0
  BY <1>1, <1>2, <1>5 DEF Rewinds
<1>8. \A r \in 1..upto : /\ revs[r].journalIndex \in b..(n - 1)
                         /\ R[revs[r].journalIndex] = sv[r].view
  <2>1. ASSUME NEW r \in 1..upto
        PROVE  revs[r].journalIndex \in b..(n - 1) /\ R[revs[r].journalIndex] = sv[r].view
    <3>1. revs[r].journalIndex \in b..n /\ revs[r].journalIndex < n /\ R[revs[r].journalIndex] = sv[r].view
      BY Zenon, <1>1, <1>2 DEF Rewinds
    <3>2. \A i \in b..n : i < n => i \in b..(n - 1)
      BY ONLY <1>b, n \in Nat
    <3>3. QED  BY Zenon, <3>1, <3>2
  <2>2. QED  BY Zenon, <2>1
<1>9. Rewinds(l, R[n - 1], st, revs, sv, upto, b, R)
  <2>1. b \in 0..(n - 1)
    BY ONLY <1>5, <1>b, n \in Nat
  <2>2. /\ \A m \in b..(n - 1) : m \in b..n
        /\ \A m \in (b + 1)..(n - 1) : m \in (b + 1)..n /\ m \in 1..(n - 1)
    BY ONLY <1>b, n \in Nat
  <2>3. \A m \in b..(n - 1) : GoodView(R[m], st) /\ CleanView(R[m], st)
    BY Zenon, <1>1, <1>2, <2>2 DEF Rewinds
  <2>4. \A m \in (b + 1)..(n - 1) :
          /\ R[m - 1] = UndoView(l[m], R[m], st)
          /\ l[m].op = "createObject" => R[m - 1].dirties[l[m].account] = 0
    BY Zenon, <1>1, <1>2, <1>6, <2>2 DEF Rewinds
  <2>5. QED  BY Zenon, <1>6, <1>8, <2>1, <2>3, <2>4 DEF Rewinds
<1>10. QED  BY ZenonT(30), <1>1, <1>2, <1>3, <1>7, <1>9 DEF Rewindable

\* When the journal is back at a revision, the view is the saved one.
LEMMA ChainEnds ==
  ASSUME NEW j \in Seq(Entry), NEW V, NEW st, NEW revs, NEW sv, NEW upto \in Nat \ {0},
         Rewindable(j, V, st, revs, sv, upto), NEW r \in 1..upto, revs[r].journalIndex = Len(j)
  PROVE  V = sv[r].view
BY DEF Rewindable, Rewinds

\* Forgetting revisions from the top.
LEMMA ChainForgets ==
  ASSUME NEW j \in Seq(Entry), NEW V, NEW st, NEW revs, NEW sv, NEW upto \in Nat,
         Rewindable(j, V, st, revs, sv, upto), NEW k \in 0..upto, NEW revs2, NEW sv2,
         \A r \in 1..k : revs2[r] = revs[r] /\ sv2[r] = sv[r]
  PROVE  Rewindable(j, V, st, revs2, sv2, k)
<1>1. PICK b, R : b \in Nat /\ Rewinds(j, V, st, revs, sv, upto, b, R)
  BY Zenon DEF Rewindable
<1>2. Rewinds(j, V, st, revs2, sv2, k, b, R)
  <2>1. \A r \in 1..k : r \in 1..upto
    BY ONLY upto \in Nat, k \in 0..upto
  <2>2. QED  BY ZenonT(30), <1>1, <2>1 DEF Rewinds
<1>3. QED  BY Zenon, <1>1, <1>2 DEF Rewindable

\* Snapshot adds the current view.
LEMMA ChainMarks ==
  ASSUME NEW j \in Seq(Entry), NEW V, NEW st, NEW revs, NEW sv, NEW upto \in Nat,
         Rewindable(j, V, st, revs, sv, upto), NEW revs2, NEW sv2,
         \A r \in 1..upto : revs2[r] = revs[r] /\ sv2[r] = sv[r],
         revs2[upto + 1].journalIndex = Len(j), sv2[upto + 1].view = V
  PROVE  Rewindable(j, V, st, revs2, sv2, upto + 1)
<1>1. PICK b, R : b \in Nat /\ Rewinds(j, V, st, revs, sv, upto, b, R)
  BY Zenon DEF Rewindable
<1>2. ASSUME NEW r \in 1..(upto + 1)
      PROVE  revs2[r].journalIndex \in b..Len(j) /\ R[revs2[r].journalIndex] = sv2[r].view
  <2>1. CASE r = upto + 1
    <3>1. b \in 0..Len(j) /\ R[Len(j)] = V
      BY Zenon, <1>1 DEF Rewinds
    <3>2. Len(j) \in b..Len(j)
      BY ONLY <3>1, j \in Seq(Entry)
    <3>3. QED  BY Zenon, <2>1, <3>1, <3>2
  <2>2. CASE r # upto + 1
    <3>1. r \in 1..upto
      BY ONLY <2>2, upto \in Nat, r \in 1..(upto + 1)
    <3>2. QED  BY Zenon, <1>1, <3>1 DEF Rewinds
  <2>3. QED  BY ZenonT(30), <2>1, <2>2
<1>3. Rewinds(j, V, st, revs2, sv2, upto + 1, b, R)
  BY ZenonT(30), <1>1, <1>2 DEF Rewinds
<1>4. QED  BY Zenon, <1>1, <1>3 DEF Rewindable

-----------------------------------------------------------------------------
(* Appending and removing entries *)

\* The bookkeeping after one entry was appended and the objects became more.
LEMMA BookGrows ==
  ASSUME NEW j, NEW d, NEW objs, Bookkeeping(j, d, objs), NEW e \in Entry, NEW objs2,
         \A a \in Addr : objs[a] # Nil => objs2[a] # Nil,
         e.op \in ObjectOps => objs2[e.account] # Nil,
         e.op = "createObject" => objs[e.account] = Nil
  PROVE  /\ Bookkeeping(Append(j, e), Bump(d, e), objs2)
         /\ e.op = "createObject" => d[e.account] = 0
<1>1. PICK n \in Nat : n = Len(j)
  BY DEF Bookkeeping
<1>2. PICK l : l = Append(j, e)
  BY ZenonT(60)
<1>3. l \in Seq(Entry) /\ Len(l) = n + 1 /\ l[n + 1] = e /\ \A m \in 1..n : l[m] = j[m]
  BY SMTT(30), Z3T(30), <1>1, <1>2 DEF Bookkeeping
<1>4. e.op \in ObjectOps => e.account \in Addr
  BY ZenonT(30), EntryElim
<1>5. Bump(d, e) \in [Addr -> Nat]
  BY SMTT(30), Z3T(30) DEF Bookkeeping, Bump
<1>6. \A a \in Addr : Bump(d, e)[a] # 0 => objs2[a] # Nil
  BY Zenon DEF Bookkeeping, Bump, Dirtied, ObjectOps
<1>7. ASSUME NEW i \in 1..(n + 1), l[i].op \in ObjectOps
      PROVE  objs2[l[i].account] # Nil
  <2>1. CASE i = n + 1
    BY Zenon, <1>3, <1>7, <2>1
  <2>2. CASE i # n + 1
    <3>1. i \in 1..n /\ l[i] = j[i] /\ j[i] \in Entry
      BY ONLY SMTT(30), Z3T(30), <1>1, <1>3, <2>2 DEF Bookkeeping
    <3>2. j[i].account \in Addr
      BY Zenon, <1>7, <3>1, EntryElim
    <3>3. QED  BY Zenon, <1>1, <1>7, <3>1, <3>2 DEF Bookkeeping
  <2>3. QED  BY Zenon, <2>1, <2>2
<1>8. ASSUME NEW i \in 1..(n + 1), NEW h \in 1..(i - 1), l[i].op = "createObject", l[h].op \in ObjectOps
      PROVE  l[h].account # l[i].account
  <2>0. h \in 1..n /\ l[h] = j[h]
    BY ONLY <1>3
  <2>1. CASE i = n + 1
    BY SMTT(30), Z3T(30), <1>1, <1>3, <1>8, <2>0, <2>1 DEF Bookkeeping
  <2>2. CASE i # n + 1
    <3>1. i \in 1..n /\ l[i] = j[i]
      BY ONLY SMTT(30), Z3T(30), <1>3, <2>2
    <3>2. QED  BY <1>1, <1>8, <2>0, <3>1 DEF Bookkeeping
  <2>3. QED  BY Zenon, <2>1, <2>2
<1>9. e.op = "createObject" => d[e.account] = 0
  BY ZenonT(30), <1>4 DEF Bookkeeping, ObjectOps
<1>10. Bookkeeping(l, Bump(d, e), objs2)
  <2>1. \A i \in 1..Len(l) : l[i].op \in ObjectOps => objs2[l[i].account] # Nil
    BY Zenon, <1>3, <1>7
  <2>2. \A i \in 1..Len(l) : \A h \in 1..(i - 1) :
          l[i].op = "createObject" /\ l[h].op \in ObjectOps => l[h].account # l[i].account
    BY Zenon, <1>3, <1>8
  <2>3. QED  BY Zenon, <1>3, <1>5, <1>6, <2>1, <2>2 DEF Bookkeeping
<1>11. QED  BY Zenon, <1>2, <1>9, <1>10

-----------------------------------------------------------------------------
(* Steps between Prepare and Commit, by what they append *)

\* The types of everything an operation may write, the journal apart.
DataOK ==
  /\ NativeOK(native, store)
  /\ stateObjects \in [Addr -> StateObject \cup {Nil}]
  /\ refund \in Nat /\ logs \in Nat /\ nativeEvents \in Nat
  /\ transientStorage \in [Addr -> [Key -> Val]]
  /\ accessList \in [addresses : SUBSET Addr, slots : SUBSET (Addr \X Key)]
  /\ \A p \in accessList.slots : p[1] \in accessList.addresses
  /\ err \in BOOLEAN

\* The invariant gives the types of the data and a good view.
LEMMA InvData ==
  ASSUME Safe, Unfinished
  PROVE  /\ DataOK /\ GoodView(View, store) /\ CleanView(View, store)
         /\ Rewindable(journal, View, store, validRevisions, saved, Upto)
<1>0. RevertInv
  BY SMTT(30), Z3T(30), SafeIs
<1> USE <1>0
<1>1. GoodView(View, store) /\ CleanView(View, store)
  BY ZenonT(30), ChainIsGood DEF RevertInv, TypeOK
<1>2. QED
  BY Zenon, <1>1 DEF RevertInv, TypeOK, DataOK, GoodView, View

\* The view has a value for every address.
LEMMA ViewPerAddress == PerAddress(View) /\ PerAddress(View)'
BY Zenon DEF PerAddress, View, ViewNonce, ViewCode, ViewStor, ViewDestructed, ViewOverridden

\* So has every view of that form.
LEMMA ViewOfPerAddress ==
  ASSUME NEW objs, NEW st, NEW d, NEW n, NEW r, NEW l, NEW ev, NEW t, NEW al
  PROVE  PerAddress(ViewOf(objs, st, d, n, r, l, ev, t, al))
BY Zenon DEF PerAddress, ViewOf, ShownNonce, ShownCode, ShownStor, ShownDestructed, ShownOverridden

\* Well-typed data makes a good view.
LEMMA DataView ==
  ASSUME DataOK', dirties' \in [Addr -> Nat], store' = store
  PROVE  GoodView(View', store)
BY DEF DataOK, GoodView, View

\* The variables no operation but Snapshot, RevertToSnapshot and Prepare touches.
Control == <<store, validRevisions, nextRevisionID, saved, phase, target>>

\* The fields of a revision.
LEMMA RevisionFields ==
  ASSUME NEW revs \in Seq(Revision), NEW r \in 1..Len(revs)
  PROVE  revs[r].id \in Nat /\ revs[r].journalIndex \in Nat
<1>1. revs[r] \in Revision
  OBVIOUS
<1>2. QED  BY <1>1 DEF Revision

\* The journal is a sequence of entries.
LEMMA InvJournal ==
  ASSUME Safe
  PROVE  journal \in Seq(Entry) /\ dirties \in [Addr -> Nat] /\ Len(validRevisions) \in Nat
<1>1. TypeOK
  BY Zenon, SafeIs DEF RevertInv
<1>2. QED  BY <1>1 DEF TypeOK

\* Reassembling the invariant after an operation.
LEMMA Reassemble ==
  ASSUME Safe, phase \in {"setup", "running"}, UNCHANGED Control, DataOK',
         Bookkeeping(journal, dirties, stateObjects)',
         Len(journal') >= Len(journal),
         Rewindable(journal', View', store, validRevisions, saved, Len(validRevisions))
  PROVE  Safe'
<1>0. RevertInv
  BY SMTT(30), Z3T(30), SafeIs
<1> USE <1>0
<1>1. TypeOK'
  <2>1. TypeOK
    BY Zenon DEF RevertInv
  <2>2. /\ store' = store /\ validRevisions' = validRevisions /\ nextRevisionID' = nextRevisionID
        /\ saved' = saved /\ phase' = phase /\ target' = target
    BY Zenon DEF Control
  <2>3. /\ store' \in Store /\ validRevisions' \in Seq(Revision) /\ nextRevisionID' \in Nat
        /\ phase' \in {"setup", "running", "reverting", "committed", "failed"}
        /\ target' \in 0..Len(validRevisions') /\ DOMAIN saved' = 1..Len(validRevisions')
    BY ONLY Zenon, <2>1, <2>2 DEF TypeOK
  <2>4. journal' \in Seq(Entry) /\ dirties' \in [Addr -> Nat]
    BY Zenon DEF Bookkeeping
  <2>5. /\ native' \in Native /\ stateObjects' \in [Addr -> StateObject \cup {Nil}]
        /\ refund' \in Nat /\ logs' \in Nat /\ nativeEvents' \in Nat
        /\ transientStorage' \in [Addr -> [Key -> Val]]
        /\ accessList' \in [addresses : SUBSET Addr, slots : SUBSET (Addr \X Key)]
        /\ err' \in BOOLEAN
    BY Zenon DEF DataOK, NativeOK
  <2>6. QED  BY ONLY Zenon, <2>3, <2>4, <2>5 DEF TypeOK
<1>2. RevisionsOrdered'
  <2>1. validRevisions \in Seq(Revision)
    BY Zenon DEF RevertInv, TypeOK
  <2>2. \A i \in 1..Len(validRevisions) :
          /\ validRevisions[i].journalIndex \in Nat
          /\ validRevisions[i].journalIndex <= Len(journal)
    <3>1. \A i \in 1..Len(validRevisions) : validRevisions[i].journalIndex \in Nat
      BY Zenon, <2>1, RevisionFields
    <3>2. \A i \in 1..Len(validRevisions) : validRevisions[i].journalIndex <= Len(journal)
      BY Zenon DEF RevertInv, RevisionsOrdered
    <3>3. QED  BY <3>1, <3>2
  <2>3. Len(journal) \in Nat /\ Len(journal') \in Nat
    BY SMTT(30), Z3T(30) DEF RevertInv, TypeOK, Bookkeeping
  <2>4. \A i \in 1..Len(validRevisions) : validRevisions[i].journalIndex <= Len(journal')
    BY <2>2, <2>3
  <2>5. QED  BY ZenonT(30), <2>4 DEF RevertInv, RevisionsOrdered, Control
<1>3. Rewindable(journal, View, store, validRevisions, saved, Upto)'
  BY Zenon DEF Control, Upto
<1>4. QED
  BY Zenon, SafeIs, <1>1, <1>2, <1>3 DEF RevertInv, Control

\* An operation that appends nothing and changes nothing the EVM sees.
LEMMA StepStays ==
  ASSUME Safe, phase \in {"setup", "running"}, UNCHANGED Control, DataOK',
         UNCHANGED <<journal, dirties>>, View' = View,
         \A a \in Addr : stateObjects[a] # Nil => stateObjects'[a] # Nil
  PROVE  Safe'
<1>0. RevertInv
  BY SafeIs
<1> USE <1>0
<1>1. Unfinished /\ Upto = Len(validRevisions)
  BY Zenon DEF Unfinished, Upto
<1>2. Bookkeeping(journal, dirties, stateObjects)'
  <2>1. \A i \in 1..Len(journal) : journal[i].op \in ObjectOps => journal[i].account \in Addr
    BY SMTT(30), Z3T(30), EntryElim DEF RevertInv, Bookkeeping
  <2>2. QED  BY ZenonT(30), <2>1 DEF RevertInv, Bookkeeping
<1>3. Rewindable(journal', View', store, validRevisions, saved, Len(validRevisions))
  BY Zenon, <1>1, InvData
<1>4. Len(journal') >= Len(journal)
  BY SMTT(30), Z3T(30), InvJournal
<1>5. QED  BY <1>2, <1>3, <1>4, Reassemble

\* An operation that appends one entry.
LEMMA StepAppends ==
  ASSUME Safe, phase \in {"setup", "running"}, UNCHANGED Control, DataOK',
         NEW e \in Entry, journal' = Append(journal, e), dirties' = Bump(dirties, e),
         \A a \in Addr : stateObjects[a] # Nil => stateObjects'[a] # Nil,
         e.op \in ObjectOps => stateObjects'[e.account] # Nil,
         e.op = "createObject" => stateObjects[e.account] = Nil,
         e.op = "resetObject" => CleanView(View', store),
         UndoView(e, View', store) = View
  PROVE  Safe'
<1>0. RevertInv
  BY Zenon, SafeIs
<1> USE <1>0
<1>b. Bookkeeping(journal, dirties, stateObjects)
  BY ZenonT(30) DEF RevertInv
<1>1. Unfinished /\ Upto = Len(validRevisions) /\ Len(validRevisions) \in Nat
  BY ZenonT(30), InvJournal DEF Unfinished, Upto
<1>2. /\ Bookkeeping(journal', dirties', stateObjects')
      /\ e.op = "createObject" => dirties[e.account] = 0
  <2>1. /\ Bookkeeping(Append(journal, e), Bump(dirties, e), stateObjects')
        /\ e.op = "createObject" => dirties[e.account] = 0
    BY ONLY SMTT(30), Z3T(30), <1>b, BookGrows, e \in Entry,
            \A a \in Addr : stateObjects[a] # Nil => stateObjects'[a] # Nil,
            e.op \in ObjectOps => stateObjects'[e.account] # Nil,
            e.op = "createObject" => stateObjects[e.account] = Nil
  <2>2. QED  BY Zenon, <2>1
<1>3. GoodView(View', store)
  <2>1. dirties' \in [Addr -> Nat]
    BY Zenon, <1>2 DEF Bookkeeping
  <2>2. store' = store
    BY Zenon DEF Control
  <2>3. QED  BY Zenon, <2>1, <2>2, DataView
<1>4. View.dirties = dirties
  BY ZenonT(30) DEF View
<1>5. Rewindable(journal', View', store, validRevisions, saved, Len(validRevisions))
  BY ZenonT(60), <1>1, <1>2, <1>3, <1>4, InvData, InvJournal, ViewPerAddress, ChainGrows
<1>6. Len(journal') >= Len(journal)
  BY SMTT(30), Z3T(30), InvJournal
<1>7. QED  BY ZenonT(30), <1>2, <1>5, <1>6, Reassemble

\* An operation that appends two entries.
LEMMA StepAppendsTwo ==
  ASSUME Safe, phase \in {"setup", "running"}, UNCHANGED Control, DataOK',
         NEW e1 \in Entry, NEW e2 \in Entry, NEW W,
         journal' = Append(Append(journal, e1), e2), dirties' = Bump(Bump(dirties, e1), e2),
         \A a \in Addr : stateObjects[a] # Nil => stateObjects'[a] # Nil,
         e1.op \in ObjectOps => stateObjects'[e1.account] # Nil,
         e2.op \in ObjectOps => stateObjects'[e2.account] # Nil,
         e1.op = "createObject" => stateObjects[e1.account] = Nil,
         e2.op # "createObject", e1.op # "resetObject", e2.op # "resetObject",
         UndoView(e2, View', store) = W, GoodView(W, store), PerAddress(W), UndoView(e1, W, store) = View
  PROVE  Safe'
<1>0. RevertInv
  BY Zenon, SafeIs
<1> USE <1>0
<1>b. Bookkeeping(journal, dirties, stateObjects)
  BY Zenon DEF RevertInv
<1>1. Unfinished /\ Upto = Len(validRevisions) /\ Len(validRevisions) \in Nat
  BY ZenonT(30), InvJournal DEF Unfinished, Upto
<1>2. /\ Bookkeeping(Append(journal, e1), Bump(dirties, e1), stateObjects')
      /\ e1.op = "createObject" => dirties[e1.account] = 0
  BY ONLY SMTT(30), Z3T(30), <1>b, BookGrows, e1 \in Entry,
          \A a \in Addr : stateObjects[a] # Nil => stateObjects'[a] # Nil,
          e1.op \in ObjectOps => stateObjects'[e1.account] # Nil,
          e1.op = "createObject" => stateObjects[e1.account] = Nil
<1>3. Bookkeeping(journal', dirties', stateObjects')
  BY ZenonT(30), <1>2, BookGrows
<1>4. GoodView(View', store)
  <2>1. dirties' \in [Addr -> Nat]
    BY Zenon, <1>3 DEF Bookkeeping
  <2>2. store' = store
    BY Zenon DEF Control
  <2>3. QED  BY Zenon, <2>1, <2>2, DataView
<1>5. View.dirties = dirties
  BY ZenonT(30) DEF View
<1>6. Rewindable(Append(journal, e1), W, store, validRevisions, saved, Len(validRevisions))
  BY Zenon, <1>1, <1>2, <1>5, InvData, InvJournal, ChainGrows
<1>7. Rewindable(journal', View', store, validRevisions, saved, Len(validRevisions))
  BY ZenonT(60), <1>1, <1>2, <1>4, <1>6, ViewPerAddress, ChainGrows DEF Bookkeeping
<1>8. Len(journal') >= Len(journal)
  BY InvJournal
<1>9. QED  BY ZenonT(30), <1>3, <1>7, <1>8, Reassemble

-----------------------------------------------------------------------------
(* Facts about objects and revisions that several modules use *)

\* A slot that is cached shows as before.
LEMMA CachedShown ==
  ASSUME NEW o \in StateObject, NEW slots \in [Key -> Val], NEW k \in Key
  PROVE  /\ Current(o, slots, k) \in Val
         /\ Cached(o, slots, k) \in StateObject
         /\ SameShown(Cached(o, slots, k), o, slots)
<1>1. Committed(o, slots, k) \in Val
  BY DEF StateObject, Committed
<1>2. Current(o, slots, k) \in Val
  BY <1>1 DEF StateObject, Current
<1>3. PICK p : p = Cached(o, slots, k)
  BY ZenonT(30)
<1>4. CASE o.dirty[k] = Nil /\ o.override = Nil
  <2>1. p = [o EXCEPT !.origin[k] = Committed(o, slots, k)]
    BY <1>3, <1>4 DEF Cached
  <2>2. p \in StateObject
    BY <1>1, <2>1 DEF StateObject
  <2>3. /\ p.nonce = o.nonce /\ p.code = o.code /\ p.dirty = o.dirty /\ p.override = o.override
        /\ p.selfDestructed = o.selfDestructed /\ p.newContract = o.newContract
        /\ p.origin = [o.origin EXCEPT ![k] = Committed(o, slots, k)]
    BY <2>1 DEF StateObject
  <2>4. \A h \in Key : Committed(p, slots, h) = Committed(o, slots, h)
    BY ONLY <1>1, <2>3, <1>4, ConstantsAssumption DEF StateObject, Committed
  <2>5. \A h \in Key : Current(p, slots, h) = Current(o, slots, h)
    BY <2>3, <2>4 DEF Current
  <2>6. QED  BY ZenonT(30), <1>2, <1>3, <2>2, <2>3, <2>5 DEF SameShown, HasOverride
<1>5. CASE ~ (o.dirty[k] = Nil /\ o.override = Nil)
  <2>1. p = o
    BY <1>3, <1>5 DEF Cached
  <2>2. QED  BY <1>2, <1>3, <2>1 DEF SameShown
<1>6. QED  BY <1>4, <1>5

\* What getStateObject and getOrNewStateObject return.
LEMMA ObjectFacts ==
  ASSUME Safe, Unfinished, NEW a \in Addr
  PROVE  /\ GetOrNew(a) \in StateObject /\ GetOrNew(a) # Nil
         /\ SameShown(GetOrNew(a), Seen(a), store.stor[a])
         /\ Exist(a) => GetStateObject(a) = GetOrNew(a)
         /\ ~ Exist(a) => stateObjects[a] = Nil
         /\ store.stor[a] \in [Key -> Val]
<1>0. RevertInv
  BY SMTT(30), Z3T(30), SafeIs
<1> USE <1>0
<1>1. TypeOK /\ NativeOK(native, store)
  BY Zenon, InvData DEF RevertInv, DataOK
<1>2. store.stor[a] \in [Key -> Val]
  BY <1>1 DEF TypeOK, Store
<1>3. Exist(a) => GetStateObject(a) = GetOrNew(a)
  BY DEF GetOrNew
<1>4. ~ Exist(a) => stateObjects[a] = Nil
  BY DEF Exist, GetStateObject
<1>5. QED  BY Zenon, <1>1, <1>2, <1>3, <1>4, GetOrNewView

\* The binary search finds a valid revision.
LEMMA SearchFinds ==
  ASSUME Safe, NEW revid, \E i \in 1..Len(validRevisions) : validRevisions[i].id = revid
  PROVE  SearchRevision(revid) \in 1..Len(validRevisions) /\ validRevisions[SearchRevision(revid)].id = revid
<1>0. RevertInv
  BY ZenonT(30), SafeIs
<1> USE <1>0
<1>1. validRevisions \in Seq(Revision) /\ Len(validRevisions) \in Nat
  BY ZenonT(30), InvJournal DEF RevertInv, TypeOK
<1>2. PICK i \in 1..Len(validRevisions) : validRevisions[i].id = revid
  OBVIOUS
<1>3. \A h \in 1..Len(validRevisions) : validRevisions[h].id \in Nat
  BY ZenonT(30), <1>1, RevisionFields
<1>4. \A h, m \in 1..Len(validRevisions) : h < m => validRevisions[h].id < validRevisions[m].id
  BY DEF RevertInv, RevisionsOrdered
<1>5. \A h \in 1..(i - 1) : validRevisions[h].id < revid
  BY ONLY SMTT(30), Z3T(30), <1>1, <1>2, <1>4
<1>6. validRevisions[i].id >= revid
  BY <1>2, <1>3
<1>7. PICK t : t = SearchRevision(revid)
  OBVIOUS
<1>8. /\ t \in 1..Len(validRevisions) /\ validRevisions[t].id >= revid
      /\ \A h \in 1..(t - 1) : validRevisions[h].id < revid
  BY ZenonT(30), <1>5, <1>6, <1>7 DEF SearchRevision
<1>9. t = i
  <2>1. ~ (t < i)
    BY ONLY SMTT(30), Z3T(30), <1>1, <1>2, <1>3, <1>4, <1>8
  <2>2. ~ (i < t)
    <3>1. SUFFICES ASSUME i < t PROVE FALSE
      OBVIOUS
    <3>2. i \in 1..(t - 1)
      BY ONLY SMTT(30), Z3T(30), <1>1, <1>8, <3>1
    <3>3. QED  BY ONLY SMTT(30), Z3T(30), <1>2, <1>3, <1>8, <3>2
  <2>3. QED  BY <1>1, <1>8, <2>1, <2>2
<1>10. QED  BY ZenonT(30), <1>2, <1>7, <1>8, <1>9

\* Revert leaves an object or none.
LEMMA RevertedType ==
  ASSUME NEW e \in Entry, e.op \in ObjectOps, NEW o \in StateObject
  PROVE  /\ e.op = "createObject" => RevertedObject(e, o) = Nil
         /\ e.op # "createObject" => RevertedObject(e, o) \in StateObject
<1>1. e.op = "createObject" => RevertedObject(e, o) = Nil
  BY DEF RevertedObject
<1>2. CASE e.op = "resetObject"
  BY <1>2, EntryElim DEF RevertedObject
<1>3. CASE e.op = "createContract"
  BY ZenonT(60), <1>3 DEF RevertedObject, StateObject
<1>4. CASE e.op = "selfDestruct"
  BY <1>4, EntryElim DEF RevertedObject, StateObject
<1>5. CASE e.op = "nonce"
  BY Zenon, <1>5, EntryElim DEF RevertedObject, StateObject
<1>6. CASE e.op = "code"
  BY <1>6, EntryElim DEF RevertedObject, StateObject
<1>7. CASE e.op = "storage"
  BY ZenonT(30), <1>7, EntryElim DEF RevertedObject, StateObject
<1>8. QED  BY ZenonT(30), <1>1, <1>2, <1>3, <1>4, <1>5, <1>6, <1>7 DEF ObjectOps
=============================================================================
