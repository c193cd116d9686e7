------------------------------ MODULE StateDB ------------------------------
(***************************************************************************)
(* The journaled StateDB of x/evm/statedb: the state the EVM sees during   *)
(* one message.  Nonces, code and contract storage live in state objects   *)
(* that are loaded on demand; balances and auth accounts live in a branch  *)
(* of the Cosmos multistore (cacheMS) that native actions write; every     *)
(* change appends an entry to the journal, and RevertToSnapshot undoes the *)
(* entries one at a time, last first.  Commit writes the branch and then   *)
(* the dirty objects back.                                                 *)
(***************************************************************************)
EXTENDS Integers, Sequences, FiniteSets

CONSTANTS Addr,         \* account addresses
          Key, Val,     \* storage keys and values
          Zero,         \* the zero hash, a member of Val
          Code, NoCode, \* code hashes; NoCode is the hash of empty code
          Module,       \* the evm module account, through which coins are minted and burned
          Blocked,      \* addresses the bank refuses to credit from a module
          Locked,       \* coins of an account that are vesting and cannot be sent
          Nil,          \* Go's nil
          Berlin,       \* whether the Berlin rules are active
          InitStores    \* the committed states a message may start from

CONSTANTS MaxNonce, MaxAmount, MaxSupply, MaxGas, MaxLogs, \* bounds on inputs
          MaxSetup, MaxJournal, MaxRevisions               \* bounds on the run

Account == [nonce : Nat, code : Code]
AuthAccount == [nonce : Nat, code : Code, kind : {"eth", "base"}]
Native == [bal : [Addr \cup {Module} -> Nat], acct : [Addr -> AuthAccount \cup {Nil}], supply : Int]
Store == [native : Native, stor : [Addr -> [Key -> Val]], codes : SUBSET Code]

StateObject ==
  [orig : Account \cup {Nil}, nonce : Nat, code : Code,
   origin : [Key -> Val \cup {Nil}], dirty : [Key -> Val \cup {Nil}],
   override : [Key -> Val] \cup {Nil}, selfDestructed : BOOLEAN, newContract : BOOLEAN]

Revision == [id : Nat, journalIndex : Nat]

\* What the chain guarantees of a committed state: no storage without an
\* account, the code of every account, none on an account type without a code hash.
ConsistentStore(s) ==
  \A a \in Addr :
    /\ s.native.acct[a] = Nil => s.stor[a] = [k \in Key |-> Zero]
    /\ s.native.acct[a] # Nil => s.native.acct[a].code \in s.codes \cup {NoCode}
    /\ s.native.acct[a] # Nil /\ s.native.acct[a].kind = "base" => s.native.acct[a].code = NoCode

ASSUME ConstantsAssumption ==
  /\ Zero \in Val
  /\ NoCode \in Code
  /\ Module \notin Addr
  /\ Blocked \subseteq Addr
  /\ Berlin \in BOOLEAN
  /\ Locked \in [Addr -> Nat]
  /\ Nil \notin Val /\ Nil \notin [Key -> Val]
  /\ Nil \notin Account /\ Nil \notin AuthAccount /\ Nil \notin StateObject
  /\ {MaxNonce, MaxAmount, MaxSupply, MaxGas, MaxLogs, MaxSetup, MaxJournal, MaxRevisions} \subseteq Nat

ASSUME InitStoresAssumption ==
  \A s \in InitStores : s \in Store /\ ConsistentStore(s)

VARIABLES store,            \* the parent context (origCtx)
          native,           \* cacheMS: its branch, written by native actions
          stateObjects,     \* live objects, Nil where none is loaded
          journal, dirties, \* journal entries; number of entries per account
          validRevisions, nextRevisionID,
          refund, logs, nativeEvents, \* logs and events as counts
          transientStorage, accessList,
          err,              \* whether a native action of a balance operation failed
          phase,            \* setup, running, reverting, committed, failed
          target,           \* index in validRevisions of the revert in progress
          saved             \* history: what the EVM saw when each valid revision was taken

journalVars == <<journal, dirties>>
revisionVars == <<validRevisions, nextRevisionID, saved>>
sideVars == <<refund, logs, nativeEvents, transientStorage, accessList>>
controlVars == <<phase, target>>
vars == <<store, native, stateObjects, journal, dirties, validRevisions, nextRevisionID,
          refund, logs, nativeEvents, transientStorage, accessList, err, phase, target, saved>>

-----------------------------------------------------------------------------
(* State objects *)

NewAccount == [nonce |-> 0, code |-> NoCode, kind |-> "eth"]

NewObject(acct) ==
  [orig           |-> acct,
   nonce          |-> IF acct = Nil THEN 0 ELSE acct.nonce,
   code           |-> IF acct = Nil THEN NoCode ELSE acct.code,
   origin         |-> [k \in Key |-> Nil],
   dirty          |-> [k \in Key |-> Nil],
   override       |-> Nil,
   selfDestructed |-> FALSE,
   newContract    |-> FALSE]

\* keeper.GetAccount: an account type without a code hash has NoCode.
GetAccount(n, a) ==
  IF n.acct[a] = Nil THEN Nil
  ELSE [nonce |-> n.acct[a].nonce,
        code  |-> IF n.acct[a].kind = "eth" THEN n.acct[a].code ELSE NoCode]

\* The object getStateObject returns, which it also inserts into the live set.
GetStateObject(a) ==
  IF stateObjects[a] # Nil THEN stateObjects[a]
  ELSE IF GetAccount(native, a) = Nil THEN Nil ELSE NewObject(GetAccount(native, a))

Exist(a) == GetStateObject(a) # Nil

GetOrNew(a) == IF Exist(a) THEN GetStateObject(a) ELSE NewObject(Nil)

CodeDirty(o) == o.orig = Nil \/ o.code # o.orig.code
NonceDirty(o) == o.orig = Nil \/ o.nonce # o.orig.nonce

\* GetCommittedState: override, then cache, then the slots in the keeper.
Committed(o, slots, k) ==
  CASE o.override # Nil -> o.override[k]
    [] o.override = Nil /\ o.origin[k] # Nil -> o.origin[k]
    [] OTHER -> slots[k]

\* GetState of an object, and the object after it has cached what it read.
Current(o, slots, k) == IF o.dirty[k] # Nil THEN o.dirty[k] ELSE Committed(o, slots, k)

Cached(o, slots, k) ==
  IF o.dirty[k] = Nil /\ o.override = Nil
  THEN [o EXCEPT !.origin[k] = Committed(o, slots, k)]
  ELSE o

-----------------------------------------------------------------------------
(* What the EVM can observe, Exist apart: the getters of StateDB.          *)

\* The live object, or else the one the parent's account would give.
Seen(a) == IF stateObjects[a] # Nil THEN stateObjects[a] ELSE NewObject(GetAccount(store.native, a))

ViewNonce == [a \in Addr |-> Seen(a).nonce]
ViewCode == [a \in Addr |-> Seen(a).code]
ViewStor == [a \in Addr |-> [k \in Key |-> Current(Seen(a), store.stor[a], k)]]
ViewDestructed == [a \in Addr |-> Seen(a).selfDestructed]
ViewNewContract == [a \in Addr |-> Seen(a).newContract]
ViewOverridden == [a \in Addr |-> Seen(a).override # Nil]

View ==
  [nonce |-> ViewNonce, code |-> ViewCode, stor |-> ViewStor, destructed |-> ViewDestructed,
   newContract |-> ViewNewContract, overridden |-> ViewOverridden, dirties |-> dirties,
   native |-> native, refund |-> refund, logs |-> logs, events |-> nativeEvents,
   transient |-> transientStorage, access |-> accessList]

-----------------------------------------------------------------------------
(* The journal *)

Dirtied(e) ==
  IF e.op \in {"createObject", "selfDestruct", "nonce", "code", "storage"} THEN {e.account} ELSE {}

Bump(d, e) == [a \in Addr |-> IF a \in Dirtied(e) THEN d[a] + 1 ELSE d[a]]

\* A mutant of Drop: the account whose creation is undone stays dirty.
KeepsCreated(d, e) ==
  [a \in Addr |-> IF a \in Dirtied(e) /\ e.op # "createObject" THEN d[a] - 1 ELSE d[a]]

Drop(d, e) == [a \in Addr |-> IF a \in Dirtied(e) THEN d[a] - 1 ELSE d[a]]

Append1(e) ==
  /\ journal' = Append(journal, e)
  /\ dirties' = Bump(dirties, e)

Append2(e1, e2) ==
  /\ journal' = Append(Append(journal, e1), e2)
  /\ dirties' = Bump(Bump(dirties, e1), e2)

\* The entry getOrNewStateObject(a) leaves, if any, followed by e.
AppendAfterGetOrNew(a, e) ==
  IF Exist(a) THEN Append1(e) ELSE Append2([op |-> "createObject", account |-> a], e)

Room == Len(journal) < MaxJournal
Running == phase = "running" /\ Room
Overriding == phase = "setup" /\ Len(journal) < MaxSetup

-----------------------------------------------------------------------------
(* Loads that leave no journal entry *)

\* Exist, Empty, GetNonce, GetCode, ...: the account is loaded and cached.
Touch(a) ==
  /\ phase = "running"
  /\ stateObjects[a] = Nil /\ Exist(a)
  /\ stateObjects' = [stateObjects EXCEPT ![a] = GetStateObject(a)]
  /\ UNCHANGED <<store, native, journalVars, revisionVars, sideVars, err, controlVars>>

\* GetState and GetCommittedState: the slot is cached in originStorage.
GetState(a, k) ==
  /\ phase = "running"
  /\ Exist(a)
  /\ stateObjects' = [stateObjects EXCEPT ![a] = Cached(GetStateObject(a), store.stor[a], k)]
  /\ UNCHANGED <<store, native, journalVars, revisionVars, sideVars, err, controlVars>>

-----------------------------------------------------------------------------
(* Changes to state objects *)

\* The EVM creates an account only where the nonce is zero and there is no
\* code: it refuses anything else as an address collision.
MayCreate(a) == ViewNonce[a] = 0 /\ ViewCode[a] = NoCode

CreateAccount(a) ==
  /\ Running
  /\ MayCreate(a)
  /\ Append1(IF Exist(a)
             THEN [op |-> "resetObject", account |-> a, prev |-> GetStateObject(a)]
             ELSE [op |-> "createObject", account |-> a])
  /\ stateObjects' = [stateObjects EXCEPT ![a] = NewObject(Nil)]
  /\ UNCHANGED <<store, native, revisionVars, sideVars, err, controlVars>>

CreateContract(a) ==
  /\ Running
  /\ Exist(a)
  /\ ~ GetStateObject(a).newContract
  /\ Append1([op |-> "createContract", account |-> a])
  /\ stateObjects' = [stateObjects EXCEPT ![a] = [GetStateObject(a) EXCEPT !.newContract = TRUE]]
  /\ UNCHANGED <<store, native, revisionVars, sideVars, err, controlVars>>

SetNonce(a, n) ==
  /\ Running \/ Overriding
  /\ AppendAfterGetOrNew(a, [op |-> "nonce", account |-> a, prev |-> GetOrNew(a).nonce])
  /\ stateObjects' = [stateObjects EXCEPT ![a] = [GetOrNew(a) EXCEPT !.nonce = n]]
  /\ UNCHANGED <<store, native, revisionVars, sideVars, err, controlVars>>

SetCode(a, c) ==
  /\ Running \/ Overriding
  /\ AppendAfterGetOrNew(a, [op |-> "code", account |-> a, prevhash |-> GetOrNew(a).code])
  /\ stateObjects' = [stateObjects EXCEPT ![a] = [GetOrNew(a) EXCEPT !.code = c]]
  /\ UNCHANGED <<store, native, revisionVars, sideVars, err, controlVars>>

\* Writing the value a slot already has is not journaled, though the object
\* may have been created to find that out.
SetState(a, k, v) ==
  /\ Running \/ Overriding
  /\ LET prev == Current(GetOrNew(a), store.stor[a], k)
         obj  == Cached(GetOrNew(a), store.stor[a], k)
     IN  \/ /\ prev # v
            /\ AppendAfterGetOrNew(a, [op |-> "storage", account |-> a, key |-> k, prevalue |-> prev])
            /\ stateObjects' = [stateObjects EXCEPT ![a] = [obj EXCEPT !.dirty[k] = v]]
         \/ /\ prev = v
            /\ IF Exist(a) THEN UNCHANGED journalVars
               ELSE Append1([op |-> "createObject", account |-> a])
            /\ stateObjects' = [stateObjects EXCEPT ![a] = obj]
  /\ UNCHANGED <<store, native, revisionVars, sideVars, err, controlVars>>

\* State override for debugging, before execution; not journaled.
SetStorage(a, storage) ==
  /\ Overriding
  /\ IF Exist(a) THEN UNCHANGED journalVars
     ELSE Append1([op |-> "createObject", account |-> a])
  /\ stateObjects' = [stateObjects EXCEPT ![a] =
        [GetOrNew(a) EXCEPT !.override = storage, !.origin = [k \in Key |-> Nil],
                            !.dirty = [k \in Key |-> Nil]]]
  /\ UNCHANGED <<store, native, revisionVars, sideVars, err, controlVars>>

-----------------------------------------------------------------------------
(* Balances: native actions on the branch of the multistore.  A native     *)
(* action returns whether it succeeded and what it left in the branch; one *)
(* that fails half way leaves its first writes there.                      *)

\* bank.SendCoins: creates the auth account of a recipient that has none.
SendCoins(n, from, to, x) ==
  IF n.bal[from] >= x + (IF from \in Addr THEN Locked[from] ELSE 0)
  THEN [ok     |-> TRUE,
        native |-> [n EXCEPT !.bal = [[n.bal EXCEPT ![from] = @ - x] EXCEPT ![to] = @ + x],
                             !.acct = [a \in Addr |-> IF a = to /\ n.acct[a] = Nil THEN NewAccount
                                                      ELSE n.acct[a]]]]
  ELSE [ok |-> FALSE, native |-> n]

MintCoins(n, x) == [n EXCEPT !.bal[Module] = @ + x, !.supply = @ + x]
BurnCoins(n, x) == [n EXCEPT !.bal[Module] = @ - x, !.supply = @ - x]

KeeperAddBalance(n, a, x) ==
  IF a \in Blocked THEN [ok |-> FALSE, native |-> MintCoins(n, x)]
  ELSE SendCoins(MintCoins(n, x), Module, a, x)

KeeperSubBalance(n, a, x) ==
  LET sent == SendCoins(n, a, Module, x)
  IN  IF sent.ok THEN [ok |-> TRUE, native |-> BurnCoins(sent.native, x)]
      ELSE [ok |-> FALSE, native |-> n]

KeeperSetBalance(n, a, x) ==
  CASE x > n.bal[a] -> KeeperAddBalance(n, a, x - n.bal[a])
    [] x < n.bal[a] -> KeeperSubBalance(n, a, n.bal[a] - x)
    [] OTHER        -> [ok |-> TRUE, native |-> n]

\* A mutant of NativeAfter: a failed action is not rolled back.
NoRollback(result) == result.native

\* ExecuteNativeAction: the branch after the action, rolled back if it failed.
NativeAfter(result) == IF result.ok THEN result.native ELSE native

NativeEntry(events) == [op |-> "native", snapshot |-> native, events |-> events]

\* A balance operation; a failure is remembered in err and reported by Commit.
BalanceAction(result) ==
  /\ native' = NativeAfter(result)
  /\ IF result.ok
     THEN Append1(NativeEntry(1)) /\ nativeEvents' = nativeEvents + 1 /\ err' = err
     ELSE UNCHANGED <<journalVars, nativeEvents>> /\ err' = TRUE
  /\ UNCHANGED <<store, stateObjects, revisionVars, refund, logs, transientStorage, accessList,
                 controlVars>>

Transfer(from, to, x) ==
  /\ Running
  /\ x > 0
  /\ BalanceAction(SendCoins(native, from, to, x))

AddBalance(a, x) ==
  /\ Running
  /\ x > 0 /\ native.supply + x <= MaxSupply
  /\ BalanceAction(KeeperAddBalance(native, a, x))

SubBalance(a, x) ==
  /\ Running
  /\ x > 0
  /\ BalanceAction(KeeperSubBalance(native, a, x))

\* Called by a state override only.
SetBalance(a, x) ==
  /\ Overriding
  /\ native.supply + x <= MaxSupply
  /\ BalanceAction(KeeperSetBalance(native, a, x))

\* A stateful precompile: a native transfer, after which the action may still
\* fail; its event is converted to an Ethereum log or not.  The log's entry
\* precedes the native entry, and an error is returned to the EVM instead of
\* being kept in err.
RunPrecompile(from, to, x, fails, converted) ==
  /\ Running
  /\ logs < MaxLogs
  /\ LET sent   == SendCoins(native, from, to, x)
         result == [ok |-> sent.ok /\ ~ fails, native |-> sent.native]
     IN  /\ native' = NativeAfter(result)
         /\ \/ /\ result.ok /\ converted
               /\ Append2([op |-> "addLog"], NativeEntry(1))
               /\ logs' = logs + 1 /\ nativeEvents' = nativeEvents + 1
            \/ /\ result.ok /\ ~ converted
               /\ Append1(NativeEntry(1))
               /\ logs' = logs /\ nativeEvents' = nativeEvents + 1
            \/ /\ ~ result.ok
               /\ UNCHANGED <<journalVars, nativeEvents, logs>>
  /\ UNCHANGED <<store, stateObjects, revisionVars, refund, transientStorage, accessList, err,
                 controlVars>>

\* The object is marked, then its whole balance is burned.
SelfDestruct(a) ==
  /\ Running
  /\ Exist(a)
  /\ LET mark == [op |-> "selfDestruct", account |-> a, prev |-> GetStateObject(a).selfDestructed]
         burn == KeeperSubBalance(native, a, native.bal[a])
     IN  /\ native' = IF native.bal[a] > 0 THEN NativeAfter(burn) ELSE native
         /\ IF native.bal[a] > 0 /\ burn.ok
            THEN Append2(mark, NativeEntry(1)) /\ nativeEvents' = nativeEvents + 1
            ELSE Append1(mark) /\ UNCHANGED nativeEvents
         /\ err' = (err \/ (native.bal[a] > 0 /\ ~ burn.ok))
  /\ stateObjects' = [stateObjects EXCEPT ![a] = [GetStateObject(a) EXCEPT !.selfDestructed = TRUE]]
  /\ UNCHANGED <<store, revisionVars, refund, logs, transientStorage, accessList, controlVars>>

\* EIP-6780: only a contract created in this transaction is destroyed.
Selfdestruct6780(a) ==
  /\ Exist(a)
  /\ GetStateObject(a).newContract
  /\ SelfDestruct(a)

-----------------------------------------------------------------------------
(* Refund counter, logs, transient storage, access list *)

AddRefund(gas) ==
  /\ Running
  /\ refund + gas <= MaxGas
  /\ Append1([op |-> "refund", prev |-> refund])
  /\ refund' = refund + gas
  /\ UNCHANGED <<store, native, stateObjects, revisionVars, logs, nativeEvents, transientStorage,
                 accessList, err, controlVars>>

\* The code panics on gas > refund, which the EVM's gas schedule excludes.
SubRefund(gas) ==
  /\ Running
  /\ gas <= refund
  /\ Append1([op |-> "refund", prev |-> refund])
  /\ refund' = refund - gas
  /\ UNCHANGED <<store, native, stateObjects, revisionVars, logs, nativeEvents, transientStorage,
                 accessList, err, controlVars>>

AddLog ==
  /\ Running
  /\ logs < MaxLogs
  /\ Append1([op |-> "addLog"])
  /\ logs' = logs + 1
  /\ UNCHANGED <<store, native, stateObjects, revisionVars, refund, nativeEvents, transientStorage,
                 accessList, err, controlVars>>

SetTransientState(a, k, v) ==
  /\ Running
  /\ transientStorage[a][k] # v
  /\ Append1([op |-> "transient", account |-> a, key |-> k, prevalue |-> transientStorage[a][k]])
  /\ transientStorage' = [transientStorage EXCEPT ![a][k] = v]
  /\ UNCHANGED <<store, native, stateObjects, revisionVars, refund, logs, nativeEvents, accessList,
                 err, controlVars>>

AddAddressToAccessList(a) ==
  /\ Running
  /\ a \notin accessList.addresses
  /\ Append1([op |-> "accessListAddAccount", address |-> a])
  /\ accessList' = [accessList EXCEPT !.addresses = @ \cup {a}]
  /\ UNCHANGED <<store, native, stateObjects, revisionVars, refund, logs, nativeEvents,
                 transientStorage, err, controlVars>>

AddSlotToAccessList(a, k) ==
  /\ Running
  /\ <<a, k>> \notin accessList.slots
  /\ LET slot == [op |-> "accessListAddSlot", address |-> a, slot |-> k]
     IN  IF a \in accessList.addresses THEN Append1(slot)
         ELSE Append2([op |-> "accessListAddAccount", address |-> a], slot)
  /\ accessList' = [addresses |-> accessList.addresses \cup {a},
                    slots     |-> accessList.slots \cup {<<a, k>>}]
  /\ UNCHANGED <<store, native, stateObjects, revisionVars, refund, logs, nativeEvents,
                 transientStorage, err, controlVars>>

\* Before execution: a fresh access list with the warm addresses (sender,
\* destination, precompiles, coinbase) and the transaction's own list, and
\* fresh transient storage.
Prepare(warm, list) ==
  /\ phase = "setup"
  /\ phase' = "running"
  /\ accessList' = IF Berlin
                   THEN [addresses |-> warm \cup {p[1] : p \in list}, slots |-> list]
                   ELSE accessList
  /\ transientStorage' = [a \in Addr |-> [k \in Key |-> Zero]]
  /\ UNCHANGED <<store, native, stateObjects, journalVars, revisionVars, refund, logs,
                 nativeEvents, err, target>>

-----------------------------------------------------------------------------
(* Snapshots *)

Snapshot ==
  /\ phase = "running"
  /\ nextRevisionID < MaxRevisions
  /\ validRevisions' = Append(validRevisions, [id |-> nextRevisionID, journalIndex |-> Len(journal)])
  /\ nextRevisionID' = nextRevisionID + 1
  /\ saved' = [i \in 1..(Len(validRevisions) + 1) |->
                 IF i <= Len(validRevisions) THEN saved[i]
                 ELSE [view |-> View, exist |-> {a \in Addr : Exist(a)}]]
  /\ UNCHANGED <<store, native, stateObjects, journalVars, sideVars, err, controlVars>>

\* sort.Search: the smallest index whose id is at least revid.
SearchRevision(revid) ==
  CHOOSE i \in 1..Len(validRevisions) :
    /\ validRevisions[i].id >= revid
    /\ \A j \in 1..(i - 1) : validRevisions[j].id < revid

RevertToSnapshot(revid) ==
  /\ phase = "running"
  /\ \E i \in 1..Len(validRevisions) : validRevisions[i].id = revid
  /\ target' = SearchRevision(revid)
  /\ phase' = "reverting"
  /\ UNCHANGED <<store, native, stateObjects, journalVars, revisionVars, sideVars, err>>

\* A mutant of RevertedObject: the slot goes back to the committed value.
ForgetsDirtySlot(e, obj) ==
  CASE e.op = "createObject"   -> Nil
    [] e.op = "resetObject"    -> e.prev
    [] e.op = "createContract" -> [obj EXCEPT !.newContract = FALSE]
    [] e.op = "selfDestruct"   -> [obj EXCEPT !.selfDestructed = e.prev]
    [] e.op = "nonce"          -> [obj EXCEPT !.nonce = e.prev]
    [] e.op = "code"           -> [obj EXCEPT !.code = e.prevhash]
    [] e.op = "storage"        -> [obj EXCEPT !.dirty[e.key] = Nil]

\* A mutant of RevertedObject: an object that was created stays live.
KeepsObject(e, obj) ==
  CASE e.op = "createObject"   -> obj
    [] e.op = "resetObject"    -> e.prev
    [] e.op = "createContract" -> [obj EXCEPT !.newContract = FALSE]
    [] e.op = "selfDestruct"   -> [obj EXCEPT !.selfDestructed = e.prev]
    [] e.op = "nonce"          -> [obj EXCEPT !.nonce = e.prev]
    [] e.op = "code"           -> [obj EXCEPT !.code = e.prevhash]
    [] e.op = "storage"        -> [obj EXCEPT !.dirty[e.key] = e.prevalue]

\* JournalEntry.Revert: the object of the entry's account afterwards.
RevertedObject(e, obj) ==
  CASE e.op = "createObject"   -> Nil
    [] e.op = "resetObject"    -> e.prev
    [] e.op = "createContract" -> [obj EXCEPT !.newContract = FALSE]
    [] e.op = "selfDestruct"   -> [obj EXCEPT !.selfDestructed = e.prev]
    [] e.op = "nonce"          -> [obj EXCEPT !.nonce = e.prev]
    [] e.op = "code"           -> [obj EXCEPT !.code = e.prevhash]
    [] e.op = "storage"        -> [obj EXCEPT !.dirty[e.key] = e.prevalue]

ObjectOps == {"createObject", "resetObject", "createContract", "selfDestruct", "nonce", "code", "storage"}

\* JournalEntry.Revert on the rest of the state.
RevertEntry(e) ==
  /\ stateObjects' = IF e.op \in ObjectOps
                     THEN [stateObjects EXCEPT ![e.account] = RevertedObject(e, GetStateObject(e.account))]
                     ELSE stateObjects
  /\ native' = IF e.op = "native" THEN e.snapshot ELSE native
  /\ nativeEvents' = IF e.op = "native" THEN nativeEvents - e.events ELSE nativeEvents
  /\ refund' = IF e.op = "refund" THEN e.prev ELSE refund
  /\ logs' = IF e.op = "addLog" THEN logs - 1 ELSE logs
  /\ transientStorage' = IF e.op = "transient"
                         THEN [transientStorage EXCEPT ![e.account][e.key] = e.prevalue]
                         ELSE transientStorage
  /\ accessList' =
       CASE e.op = "accessListAddAccount" ->
              [addresses |-> accessList.addresses \ {e.address},
               slots     |-> {p \in accessList.slots : p[1] # e.address}]
         [] e.op = "accessListAddSlot" ->
              [accessList EXCEPT !.slots = @ \ {<<e.address, e.slot>>}]
         [] OTHER -> accessList

\* One turn of the loop of journal.Revert: the last entry is undone, and the
\* dirty count it induced is dropped.
RevertStep ==
  /\ phase = "reverting"
  /\ Len(journal) > validRevisions[target].journalIndex
  /\ RevertEntry(journal[Len(journal)])
  /\ dirties' = Drop(dirties, journal[Len(journal)])
  /\ journal' = SubSeq(journal, 1, Len(journal) - 1)
  /\ UNCHANGED <<store, revisionVars, err, controlVars>>

RevertDone ==
  /\ phase = "reverting"
  /\ Len(journal) = validRevisions[target].journalIndex
  /\ validRevisions' = SubSeq(validRevisions, 1, target - 1)
  /\ saved' = [i \in 1..(target - 1) |-> saved[i]]
  /\ phase' = "running"
  /\ target' = 0
  /\ UNCHANGED <<store, native, stateObjects, journalVars, nextRevisionID, sideVars, err>>

-----------------------------------------------------------------------------
(* Commit *)

DirtyAddrs == {a \in Addr : dirties[a] # 0}

\* keeper.SetAccount on the auth account, created if there is none; an
\* account type without a code hash keeps only the nonce.
SetAccount(acct, obj) ==
  LET base == IF acct = Nil THEN NewAccount ELSE acct
  IN  [base EXCEPT !.nonce = obj.nonce, !.code = IF base.kind = "eth" THEN obj.code ELSE @]

CommittedAccount(a) ==
  LET obj == stateObjects[a]
  IN  CASE obj.selfDestructed -> Nil
        [] ~ obj.selfDestructed /\ (CodeDirty(obj) \/ NonceDirty(obj)) -> SetAccount(native.acct[a], obj)
        [] OTHER -> native.acct[a]

\* A mutant of CommittedSlot: a slot that was cleared is not written.
SkipsZero(a, k) ==
  LET obj == stateObjects[a]
  IN  CASE obj.selfDestructed /\ native.acct[a] # Nil -> Zero
        [] ~ obj.selfDestructed /\ obj.dirty[k] \notin {Nil, Zero} -> obj.dirty[k]
        [] OTHER -> store.stor[a][k]

\* keeper.DeleteAccount clears the storage of an account that exists; for
\* the others only the slots that differ from what was loaded are written.
CommittedSlot(a, k) ==
  LET obj == stateObjects[a]
      loaded == IF obj.origin[k] = Nil THEN Zero ELSE obj.origin[k]
  IN  CASE obj.selfDestructed /\ native.acct[a] # Nil -> Zero
        [] ~ obj.selfDestructed /\ obj.dirty[k] # Nil /\ obj.dirty[k] # loaded -> obj.dirty[k]
        [] OTHER -> store.stor[a][k]

\* The empty code is not stored.
CommittedCodes(written) ==
  {stateObjects[a].code : a \in {b \in written : /\ ~ stateObjects[b].selfDestructed
                                                 /\ CodeDirty(stateObjects[b])}} \ {NoCode}

\* The parent after the branch was written and then the accounts in written.
StoreAfter(written) ==
  [native |-> [native EXCEPT !.acct = [a \in Addr |-> IF a \in written THEN CommittedAccount(a) ELSE @[a]]],
   stor   |-> [a \in Addr |-> [k \in Key |-> IF a \in written THEN CommittedSlot(a, k) ELSE store.stor[a][k]]],
   codes  |-> store.codes \cup CommittedCodes(written)]

\* keeper.DeleteAccount refuses an account that is not an EthAccount.
Undeletable == {a \in DirtyAddrs : /\ stateObjects[a].selfDestructed
                                   /\ native.acct[a] # Nil /\ native.acct[a].kind = "base"}

Commit ==
  /\ phase = "running" /\ ~ err
  /\ Undeletable = {}
  /\ store' = StoreAfter(DirtyAddrs)
  /\ phase' = "committed"
  /\ UNCHANGED <<native, stateObjects, journalVars, revisionVars, sideVars, err, target>>

\* The accounts that sort before the one that cannot be deleted are written.
CommitFailsHalfWay ==
  /\ phase = "running" /\ ~ err
  /\ Undeletable # {}
  /\ \E written \in SUBSET (DirtyAddrs \ Undeletable) : store' = StoreAfter(written)
  /\ phase' = "failed"
  /\ UNCHANGED <<native, stateObjects, journalVars, revisionVars, sideVars, err, target>>

CommitReturnsErr ==
  /\ phase = "running" /\ err
  /\ phase' = "failed"
  /\ UNCHANGED <<store, native, stateObjects, journalVars, revisionVars, sideVars, err, target>>

-----------------------------------------------------------------------------

Init ==
  /\ store \in InitStores
  /\ native = store.native
  /\ stateObjects = [a \in Addr |-> Nil]
  /\ journal = <<>>
  /\ dirties = [a \in Addr |-> 0]
  /\ validRevisions = <<>>
  /\ nextRevisionID = 0
  /\ refund = 0 /\ logs = 0 /\ nativeEvents = 0
  /\ transientStorage = [a \in Addr |-> [k \in Key |-> Zero]]
  /\ accessList = [addresses |-> {}, slots |-> {}]
  /\ err = FALSE
  /\ phase = "setup"
  /\ target = 0
  /\ saved = <<>>

ObjectStep ==
  \E a \in Addr :
    \/ Touch(a)
    \/ \E k \in Key : GetState(a, k)
    \/ CreateAccount(a)
    \/ CreateContract(a)
    \/ \E n \in 0..MaxNonce : SetNonce(a, n)
    \/ \E c \in Code : SetCode(a, c)
    \/ \E k \in Key, v \in Val : SetState(a, k, v)
    \/ \E storage \in [Key -> Val] : SetStorage(a, storage)
    \/ SelfDestruct(a)
    \/ Selfdestruct6780(a)

BalanceStep ==
  \E a \in Addr, x \in 0..MaxAmount :
    \/ \E to \in Addr : Transfer(a, to, x)
    \/ AddBalance(a, x)
    \/ SubBalance(a, x)
    \/ SetBalance(a, x)
    \/ \E to \in Addr, fails, converted \in BOOLEAN : RunPrecompile(a, to, x, fails, converted)

SideStep ==
  \/ \E gas \in 1..MaxGas : AddRefund(gas) \/ SubRefund(gas)
  \/ AddLog
  \/ \E a \in Addr, k \in Key, v \in Val : SetTransientState(a, k, v)
  \/ \E a \in Addr : AddAddressToAccessList(a)
  \/ \E a \in Addr, k \in Key : AddSlotToAccessList(a, k)
  \/ \E warm \in SUBSET Addr, list \in SUBSET (Addr \X Key) : Prepare(warm, list)

RevisionStep ==
  \/ Snapshot
  \/ \E revid \in 0..MaxRevisions : RevertToSnapshot(revid)
  \/ RevertStep
  \/ RevertDone

CommitStep == Commit \/ CommitFailsHalfWay \/ CommitReturnsErr

Next == ObjectStep \/ BalanceStep \/ SideStep \/ RevisionStep \/ CommitStep

Spec == Init /\ [][Next]_vars

-----------------------------------------------------------------------------
(* Properties *)

Entry ==
  [op : {"createObject", "createContract"}, account : Addr]
    \cup [op : {"resetObject"}, account : Addr, prev : StateObject]
    \cup [op : {"selfDestruct"}, account : Addr, prev : BOOLEAN]
    \cup [op : {"nonce"}, account : Addr, prev : Nat]
    \cup [op : {"code"}, account : Addr, prevhash : Code]
    \cup [op : {"storage", "transient"}, account : Addr, key : Key, prevalue : Val]
    \cup [op : {"native"}, snapshot : Native, events : Nat]
    \cup [op : {"refund"}, prev : Nat]
    \cup [op : {"addLog"}]
    \cup [op : {"accessListAddAccount"}, address : Addr]
    \cup [op : {"accessListAddSlot"}, address : Addr, slot : Key]

\* The types of the StateDB's fields.  In particular the counts that Revert
\* decrements (dirties, logs, nativeEvents) never become negative.
TypeOK ==
  /\ store \in Store
  /\ native \in Native
  /\ stateObjects \in [Addr -> StateObject \cup {Nil}]
  /\ journal \in Seq(Entry)
  /\ dirties \in [Addr -> Nat]
  /\ validRevisions \in Seq(Revision)
  /\ nextRevisionID \in Nat
  /\ refund \in Nat /\ logs \in Nat /\ nativeEvents \in Nat
  /\ transientStorage \in [Addr -> [Key -> Val]]
  /\ accessList \in [addresses : SUBSET Addr, slots : SUBSET (Addr \X Key)]
  /\ err \in BOOLEAN
  /\ phase \in {"setup", "running", "reverting", "committed", "failed"}
  /\ target \in 0..Len(validRevisions)
  /\ DOMAIN saved = 1..Len(validRevisions)

\* RevertToSnapshot gives the EVM back exactly what it could observe when the
\* snapshot was taken: nonces, code, storage, self-destruct and new-contract
\* flags, native state with balances, refund, logs, events, transient storage
\* and access list, although objects and slots loaded since stay cached.
RevertRestoresView ==
  phase = "reverting" /\ Len(journal) = validRevisions[target].journalIndex
    => View = saved[target].view

\* Revisions are pushed with increasing ids and journal positions and dropped
\* from the top, so the binary search of RevertToSnapshot finds the revision
\* and Revert never truncates the journal below it.
RevisionsOrdered ==
  /\ \A i, j \in 1..Len(validRevisions) : i < j =>
       /\ validRevisions[i].id < validRevisions[j].id
       /\ validRevisions[i].journalIndex <= validRevisions[j].journalIndex
  /\ \A i \in 1..Len(validRevisions) : validRevisions[i].id < nextRevisionID
  /\ phase # "reverting" => \A i \in 1..Len(validRevisions) : validRevisions[i].journalIndex <= Len(journal)

\* Commit dereferences the object of every dirty address, and Revert the
\* object of every entry it undoes: all of them are live.
NoNilObject ==
  /\ \A a \in Addr : dirties[a] # 0 => stateObjects[a] # Nil
  /\ \A i \in 1..Len(journal) : journal[i].op \in ObjectOps => stateObjects[journal[i].account] # Nil

\* A successful Commit persists what the EVM last saw, for every account and
\* not only for the dirty ones: destructed accounts are gone with their
\* storage, all others have the nonce, code and storage of the view (code
\* only where the account type can hold it, storage unless overridden).
PersistedAccount(a) ==
  LET acct == store'.native.acct[a]
      read == IF acct = Nil THEN NewAccount ELSE acct
      isBase == native.acct[a] # Nil /\ native.acct[a].kind = "base"
  IN  IF View.destructed[a]
      THEN acct = Nil /\ store'.stor[a] = [k \in Key |-> Zero]
      ELSE /\ read.nonce = View.nonce[a]
           /\ isBase \/ read.code = View.code[a]
           /\ read.code \in store'.codes \cup {NoCode}
           /\ View.overridden[a] \/ store'.stor[a] = View.stor[a]

\* The same as a property of every Commit step.
CommitPersistsView ==
  [][Commit => /\ store'.native.bal = native.bal
               /\ \A a \in Addr : PersistedAccount(a)]_vars

\* RevertToSnapshot restores which accounts exist, but for one trace: an
\* account that a native action created on the branch and that was loaded
\* before the revert stays in the live set, because getStateObject keeps no
\* journal entry of what it loads. No account is lost, and no object that
\* the StateDB itself created survives.
RevertRestoresExist ==
  phase = "reverting" /\ Len(journal) = validRevisions[target].journalIndex
    => LET now == {a \in Addr : Exist(a)}
       IN  /\ saved[target].exist \subseteq now
           /\ \A a \in now \ saved[target].exist :
                /\ native.acct[a] = Nil
                /\ stateObjects[a].orig # Nil
=============================================================================
