----------------------------- MODULE MCStateDB -----------------------------
(***************************************************************************)
(* Small instances of StateDB for TLC.                                     *)
(***************************************************************************)
EXTENDS StateDBRefines, FiniteSetsExt, TLC

CONSTANTS a1, a2, mod, c0, c1

MCAddr == {a1, a2}
MCCode == {c0, c1}

\* The first coin of a1 is vesting.
Vesting == [a \in Addr |-> IF a = a1 THEN 1 ELSE 0]

\* One account with its coins and slots; the other one does not exist.
MCStore(owner, acct, coins, slot) ==
  [native |-> [bal    |-> [h \in Addr \cup {Module} |-> IF h = owner THEN coins ELSE 0],
               acct   |-> [a \in Addr |-> IF a = owner THEN acct ELSE Nil],
               supply |-> coins],
   stor   |-> [a \in Addr |-> [k \in Key |-> IF a = owner THEN slot ELSE Zero]],
   codes  |-> Code \ {NoCode}]

\* An account without code hash and coins, and a contract with a coin and a slot.
MCStores ==
  {MCStore(a1, [nonce |-> 1, code |-> c0, kind |-> "base"], 0, 0),
   MCStore(a2, [nonce |-> 1, code |-> c1, kind |-> "eth"], 1, 1)}

\* Refunds, transient storage and the access list are independent of accounts:
\* the instance lets them share a journal with each other only.
SideOps == {"refund", "transient", "accessListAddAccount", "accessListAddSlot"}
Unmixed == LET ops == {journal[i].op : i \in DOMAIN journal} IN ops \subseteq SideOps \/ ops \cap SideOps = {}

MCSpec == Init /\ [][Next /\ Unmixed']_vars

\* Minting, burning and rolling back never lose or create coins: the supply is
\* the sum of all balances and nothing is left in the evm module account,
\* through which AddBalance and SubBalance move coins.
CoinsBacked ==
  /\ native.bal[Module] = 0
  /\ native.supply = MapThenSumSet(LAMBDA h : native.bal[h], Addr \cup {Module})
=============================================================================
