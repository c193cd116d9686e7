------------------------------ MODULE LogQuery ------------------------------
(***************************************************************************)
(* eth_getLogs over a range of blocks (Filter.Logs and blockLogs in        *)
(* rpc/namespaces/ethereum/eth/filters/filters.go): the limits of the      *)
(* range, the loop that fetches the results of one block after the other,  *)
(* the bloom of a block and the matching of its logs.  The node, which     *)
(* adds and prunes blocks during the loop, is external.  The logs of a     *)
(* block are those that GetLogsFromBlockResults reads from its results     *)
(* (see BlockResults), and its bloom is the union of their bits: no hooks  *)
(* alter them (see EvmTx).                                                 *)
(***************************************************************************)
EXTENDS Integers, FiniteSets, Sequences, SequencesExt, LogFilter

CONSTANTS Criteria,            \* queries
          BlockLogs,           \* what a block may emit: sequences of addresses and topics
          Bits,                \* the bits of an address or topic in a bloom
          LogLimit, BlockLimit,\* the node's options logs-cap and block-range-cap
          MaxToOverhang,       \* maxToOverhang
          Fails,               \* whether the results of a stored block may not be fetched or read
          MaxHeight            \* bound on the run

ASSUME LogQueryAssumption ==
  /\ {LogLimit, BlockLimit, MaxToOverhang, MaxHeight} \subseteq Nat
  /\ Fails \in BOOLEAN

VARIABLES head, earliest, \* the last block, and the first that is not pruned
          emitted,        \* the logs of the blocks so far
          pc,             \* idle, loop, ok, error
          crit,           \* the criteria, with the limits of the range
          height, logs,   \* the loop of Logs
          asked,          \* history: the head when the query began
          missed          \* history: whether a block up to that head could not be fetched

nodeVars == <<head, earliest, emitted>>
queryVars == <<pc, crit, height, logs, asked, missed>>
vars == <<head, earliest, emitted, pc, crit, height, logs, asked, missed>>

-----------------------------------------------------------------------------
(* The node *)

NewBlock ==
  /\ head < MaxHeight
  /\ head' = head + 1
  /\ \E ls \in BlockLogs :
       emitted' = Append(emitted, [i \in DOMAIN ls |-> [blockNumber |-> head + 1, address |-> ls[i].address, topics |-> ls[i].topics]])
  /\ UNCHANGED <<earliest, queryVars>>

Prune ==
  /\ earliest < head
  /\ earliest' = earliest + 1
  /\ UNCHANGED <<head, emitted, queryVars>>

Stored(h) == earliest <= h /\ h <= head
Bloom(h) == UNION {Bits[log.address] \cup UNION {Bits[t] : t \in Range(log.topics)} : log \in Range(emitted[h])}

-----------------------------------------------------------------------------
(* The query *)

\* A bound of the range: a negative one is the head, 0 is the first block.
Limit(n) == IF n < 0 THEN head ELSE IF n = 0 THEN 1 ELSE n

\* The limits of the range; the query may end at once.
Start(c) ==
  /\ pc = "idle" /\ head > 0
  /\ LET from == Limit(c.fromBlock)
         to   == Limit(c.toBlock)
         last == IF to > head + MaxToOverhang THEN head + MaxToOverhang ELSE to
     IN  /\ pc' = IF to - from > BlockLimit THEN "error" ELSE IF from > head THEN "ok" ELSE "loop"
         /\ crit' = [c EXCEPT !.fromBlock = from, !.toBlock = last]
         /\ height' = from
  /\ logs' = << >>
  /\ asked' = head
  /\ missed' = FALSE
  /\ UNCHANGED nodeVars

\* The header of the head cannot be fetched.
HeaderFails ==
  /\ pc = "idle"
  /\ Fails \/ head = 0
  /\ pc' = "error"
  /\ UNCHANGED <<nodeVars, crit, height, logs, asked, missed>>

\* blockLogs: nothing when the bloom excludes the block; the range is not looked at again.
FilteredLogs(h) ==
  IF BloomFilter(Bits, Bloom(h), crit)
  THEN FilterLogs(emitted[h], [crit EXCEPT !.fromBlock = -1, !.toBlock = -1]) ELSE << >>

\* A mutant of Fetch: the limit is checked before the logs of the block are counted.
ChecksBefore ==
  /\ pc = "loop" /\ height <= crit.toBlock /\ Stored(height)
  /\ IF Len(logs) > LogLimit THEN pc' = "error" /\ UNCHANGED <<logs, height>>
     ELSE logs' = logs \o FilteredLogs(height) /\ height' = height + 1 /\ UNCHANGED pc
  /\ UNCHANGED <<nodeVars, crit, asked, missed>>

\* The results of the next block: its logs are added unless there are too many.
Fetch ==
  /\ pc = "loop" /\ height <= crit.toBlock /\ Stored(height)
  /\ IF Len(logs) + Len(FilteredLogs(height)) > LogLimit THEN pc' = "error" /\ UNCHANGED <<logs, height>>
     ELSE logs' = logs \o FilteredLogs(height) /\ height' = height + 1 /\ UNCHANGED pc
  /\ UNCHANGED <<nodeVars, crit, asked, missed>>

\* A fetch fails: the query ends with the logs so far, and without an error.
FetchFails ==
  /\ pc = "loop" /\ height <= crit.toBlock
  /\ Fails \/ ~ Stored(height)
  /\ pc' = "ok"
  /\ missed' = (height <= asked)
  /\ UNCHANGED <<nodeVars, crit, height, logs, asked>>

\* The results of a block have no bloom, or logs that cannot be decoded: an error.
BlockFails ==
  /\ pc = "loop" /\ height <= crit.toBlock
  /\ Fails /\ Stored(height)
  /\ pc' = "error"
  /\ UNCHANGED <<nodeVars, crit, height, logs, asked, missed>>

Finish ==
  /\ pc = "loop" /\ height > crit.toBlock
  /\ pc' = "ok"
  /\ UNCHANGED <<nodeVars, crit, height, logs, asked, missed>>

Init ==
  /\ head = 0 /\ earliest = 1 /\ emitted = << >>
  /\ pc = "idle" /\ crit \in Criteria /\ height = 0 /\ logs = << >>
  /\ asked = 0 /\ missed = FALSE

Next == NewBlock \/ Prune \/ Start(crit) \/ HeaderFails \/ Fetch \/ FetchFails \/ BlockFails \/ Finish

Spec == Init /\ [][Next]_vars

-----------------------------------------------------------------------------
(* Properties *)

\* The logs of blocks a to b that match, by definition.
Matching(a, b) == FlattenSeq([k \in 1..(b - a + 1) |-> FilterLogs(emitted[a + k - 1], crit)])

Least(a, b) == IF a < b THEN a ELSE b

\* The logs of a query are exactly the matching ones, in order, of the blocks
\* it went through, although blooms have collisions, blocks are added and
\* pruned meanwhile and a block may fail; and if every block could be fetched
\* it went at least to the head it began with.
QueryExact ==
  /\ pc \in {"ok", "loop"} => logs = Matching(crit.fromBlock, Least(height - 1, head))
  /\ pc = "ok" /\ ~ missed => height > Least(crit.toBlock, asked)

\* A query returns no more logs than LogLimit and reads no more than BlockLimit + 1 blocks.
LimitsHold == pc \in {"ok", "loop"} => Len(logs) <= LogLimit /\ height - crit.fromBlock <= BlockLimit + 1
=============================================================================
