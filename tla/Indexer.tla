------------------------------ MODULE Indexer ------------------------------
(***************************************************************************)
(* The transaction indexer: the service that follows the chain             *)
(* (server/indexer_service.go) with its subscription goroutine, the        *)
(* offline command (server/indexer_cmd.go) and the database both fill      *)
(* through KVIndexer.IndexBlock.  A block is its height; only a block with *)
(* Ethereum transactions leaves entries, which IndexBlock writes in one    *)
(* batch.  The node, which stores a block before its results and may prune *)
(* old ones, is external.  latestBlock is shared without synchronisation;  *)
(* every read is a step of its own, so any delay of the write is covered.  *)
(***************************************************************************)
EXTENDS Integers, FiniteSetsExt

CONSTANTS EthBlocks,  \* heights of the blocks with Ethereum transactions
          Prunes,     \* whether the node prunes blocks
          MaxHeight, MaxErrors, MaxRestarts \* bounds on the run

ASSUME IndexerAssumption ==
  /\ Prunes \in BOOLEAN
  /\ EthBlocks \subseteq 1..MaxHeight
  /\ {MaxHeight, MaxErrors, MaxRestarts} \subseteq Nat

VARIABLES blockHeight, resultHeight, \* the last block stored, the last with results
          earliest,                  \* the first block not pruned
          db,                        \* heights with entries in the database
          pc,                        \* stopped, subscribe, load, check, wait, for, results, index,
                                     \* panicked; forward and backward for the command
          latestBlock, lastBlock, i, \* the variables of OnStart
          allowGap,                  \* the option allow-indexer-gap, read at start
          statusEarliest,            \* SyncInfo.EarliestBlockHeight at start
          header,                    \* the last header event the goroutine received
          newBlockSignal,            \* whether the channel of capacity 1 is full
          errors, restarts,          \* counted against the bounds
          resumed,                   \* history: the height the start resumed after
          passed,                    \* history: heights a start stepped over although the node had them
          failed, skipped            \* history: heights whose indexing failed, or that the node had no more

nodeVars == <<blockHeight, resultHeight, earliest>>
sharedVars == <<latestBlock, newBlockSignal, header>>
startVars == <<allowGap, statusEarliest, restarts, resumed, passed>>
vars == <<blockHeight, resultHeight, earliest, db, pc, latestBlock, lastBlock, i, allowGap, statusEarliest, header,
          newBlockSignal, errors, restarts, resumed, passed, failed, skipped>>

Loop == {"check", "wait", "for", "results", "index"}
Following == {"load"} \cup Loop

-----------------------------------------------------------------------------
(* The node *)

\* The block store is ahead of the results by at most one block.
NewBlock ==
  /\ pc \notin {"forward", "backward"}
  /\ blockHeight = resultHeight /\ blockHeight < MaxHeight
  /\ blockHeight' = blockHeight + 1
  /\ UNCHANGED <<resultHeight, earliest, db, pc, sharedVars, lastBlock, i, startVars, errors, failed, skipped>>

SaveResults ==
  /\ pc \notin {"forward", "backward"}
  /\ resultHeight < blockHeight
  /\ resultHeight' = blockHeight
  /\ UNCHANGED <<blockHeight, earliest, db, pc, sharedVars, lastBlock, i, startVars, errors, failed, skipped>>

Prune ==
  /\ Prunes /\ pc \notin {"forward", "backward"}
  /\ earliest < resultHeight
  /\ earliest' = earliest + 1
  /\ UNCHANGED <<blockHeight, resultHeight, db, pc, sharedVars, lastBlock, i, startVars, errors, failed, skipped>>

-----------------------------------------------------------------------------
(* The database *)

LastIndexedBlock == IF db = {} THEN -1 ELSE Max(db)
FirstIndexedBlock == IF db = {} THEN -1 ELSE Min(db)

\* The database after a successful IndexBlock.
Indexed(h) == db \cup ({h} \cap EthBlocks)

-----------------------------------------------------------------------------
(* OnStart *)

Start ==
  /\ pc = "stopped" /\ restarts < MaxRestarts
  /\ restarts' = restarts + 1
  /\ latestBlock' = blockHeight /\ statusEarliest' = earliest
  /\ allowGap' \in BOOLEAN
  /\ pc' = "subscribe"
  /\ UNCHANGED <<nodeVars, db, resumed, passed, lastBlock, i, header, newBlockSignal, errors, failed, skipped>>

\* Subscribe sees the headers of later blocks only.
Subscribe ==
  /\ pc = "subscribe"
  /\ header' = resultHeight
  /\ pc' = "load"
  /\ UNCHANGED <<nodeVars, db, latestBlock, newBlockSignal, lastBlock, i, startVars, errors, failed, skipped>>

\* One turn of the goroutine.
ReceiveHeader ==
  /\ pc \in Following
  /\ header < resultHeight
  /\ header' = header + 1
  /\ IF header + 1 > latestBlock
     THEN latestBlock' = header + 1 /\ newBlockSignal' = TRUE
     ELSE UNCHANGED <<latestBlock, newBlockSignal>>
  /\ UNCHANGED <<nodeVars, db, pc, lastBlock, i, startVars, errors, failed, skipped>>

\* A mutant of ResumeFrom: from the latest block although the database has entries.
ResumeFromLatest(last) == IF latestBlock <= 0 THEN 1 ELSE latestBlock

\* The height before the first block to index, for the last one in the database.
ResumeFrom(last) ==
  LET from == CASE last = -1 -> latestBlock
                [] last # -1 /\ last < statusEarliest -> statusEarliest
                [] OTHER -> last
  IN  IF from <= 0 THEN 1 ELSE from

\* Where the node has no block next to the database the service panics, or resumes
\* AFTER the earliest block: those below it are gone, itself is not.
LoadLast ==
  /\ pc = "load"
  /\ IF LastIndexedBlock # -1 /\ LastIndexedBlock < statusEarliest
     THEN /\ IF allowGap
             THEN /\ pc' = "check"
                  /\ lastBlock' = ResumeFrom(LastIndexedBlock) /\ resumed' = lastBlock'
                  /\ skipped' = skipped \cup (LastIndexedBlock + 1)..(statusEarliest - 1)
                  /\ passed' = passed \cup {statusEarliest}
             ELSE pc' = "panicked" /\ UNCHANGED <<lastBlock, resumed, skipped, passed>>
     ELSE /\ pc' = "check"
          /\ lastBlock' = ResumeFrom(LastIndexedBlock) /\ resumed' = lastBlock'
          /\ UNCHANGED <<skipped, passed>>
  /\ UNCHANGED <<nodeVars, db, sharedVars, i, allowGap, statusEarliest, restarts, errors, failed>>

\* The outer loop.
Check ==
  /\ pc = "check"
  /\ IF latestBlock <= lastBlock
     THEN pc' = "wait" /\ UNCHANGED i
     ELSE pc' = "for" /\ i' = lastBlock + 1
  /\ UNCHANGED <<nodeVars, db, sharedVars, lastBlock, startVars, errors, failed, skipped>>

\* A signal or the timeout.
Wait ==
  /\ pc = "wait"
  /\ pc' = "check"
  /\ newBlockSignal' \in {newBlockSignal, FALSE}
  /\ UNCHANGED <<nodeVars, db, latestBlock, header, lastBlock, i, startVars, errors, failed, skipped>>

ForDone ==
  /\ pc = "for"
  /\ i > latestBlock
  /\ pc' = "check"
  /\ UNCHANGED <<nodeVars, db, sharedVars, lastBlock, i, startVars, errors, failed, skipped>>

\* client.Block, then client.BlockResults.
Fetch ==
  /\ \/ pc = "for" /\ i <= latestBlock /\ pc' = "results"
     \/ pc = "results" /\ i <= resultHeight /\ pc' = "index"
  /\ i >= earliest
  /\ UNCHANGED <<nodeVars, db, sharedVars, lastBlock, i, startVars, errors, failed, skipped>>

\* The height is pruned: the error says that it is not available.
FetchNotAvailable ==
  /\ (pc = "for" /\ i <= latestBlock) \/ pc = "results"
  /\ i < earliest
  /\ IF allowGap
     THEN pc' = "for" /\ i' = i + 1 /\ skipped' = skipped \cup {i}
     ELSE pc' = "check" /\ UNCHANGED <<i, skipped>>
  /\ UNCHANGED <<nodeVars, db, sharedVars, lastBlock, startVars, errors, failed>>

\* A mutant of FetchFails: the service ends with the error.
ReturnsError ==
  /\ (pc = "for" /\ i <= latestBlock) \/ pc = "results"
  /\ \/ pc = "results" /\ i > resultHeight /\ UNCHANGED errors
     \/ errors < MaxErrors /\ errors' = errors + 1
  /\ pc' = "panicked"
  /\ UNCHANGED <<nodeVars, db, sharedVars, lastBlock, i, startVars, failed, skipped>>

\* Any other error ends the inner loop: no results yet, or a transient failure.
FetchFails ==
  /\ (pc = "for" /\ i <= latestBlock) \/ pc = "results"
  /\ \/ pc = "results" /\ i > resultHeight /\ UNCHANGED errors
     \/ errors < MaxErrors /\ errors' = errors + 1
  /\ pc' = "check"
  /\ UNCHANGED <<nodeVars, db, sharedVars, lastBlock, i, startVars, failed, skipped>>

IndexBlock ==
  /\ pc = "index"
  /\ db' = Indexed(i)
  /\ lastBlock' = i
  /\ pc' = "for" /\ i' = i + 1
  /\ UNCHANGED <<nodeVars, sharedVars, startVars, errors, failed, skipped>>

\* An error of IndexBlock is logged only.
IndexBlockFails ==
  /\ pc = "index"
  /\ errors < MaxErrors /\ errors' = errors + 1
  /\ failed' = failed \cup {i}
  /\ lastBlock' = i
  /\ pc' = "for" /\ i' = i + 1
  /\ UNCHANGED <<nodeVars, db, sharedVars, startVars, skipped>>

\* The process ends, by a crash or a panic; the database stays.
Crash ==
  /\ pc # "stopped" /\ restarts < MaxRestarts
  /\ pc' = "stopped"
  /\ newBlockSignal' = FALSE
  /\ UNCHANGED <<nodeVars, db, latestBlock, header, lastBlock, i, startVars, errors, failed, skipped>>

-----------------------------------------------------------------------------
(* The command index-eth-tx *)

StartForward ==
  /\ pc = "stopped" /\ restarts < MaxRestarts
  /\ restarts' = restarts + 1
  /\ pc' = "forward"
  /\ i' = IF LastIndexedBlock = -1 THEN 1 ELSE LastIndexedBlock + 1
  /\ UNCHANGED <<nodeVars, db, sharedVars, lastBlock, allowGap, statusEarliest, resumed, passed, errors, failed, skipped>>

StartBackward ==
  /\ pc = "stopped" /\ restarts < MaxRestarts
  /\ restarts' = restarts + 1
  /\ pc' = "backward"
  /\ i' = (IF FirstIndexedBlock = -1 THEN blockHeight ELSE FirstIndexedBlock) - 1
  /\ UNCHANGED <<nodeVars, db, sharedVars, lastBlock, allowGap, statusEarliest, resumed, passed, errors, failed, skipped>>

CommandRunning == (pc = "forward" /\ i <= blockHeight) \/ (pc = "backward" /\ i > 0)

CommandIndexes ==
  /\ CommandRunning
  /\ i \in earliest..resultHeight
  /\ db' = Indexed(i)
  /\ i' = IF pc = "forward" THEN i + 1 ELSE i - 1
  /\ UNCHANGED <<nodeVars, pc, sharedVars, lastBlock, startVars, errors, failed, skipped>>

\* The command ends: it is done, a block or its results are missing, or IndexBlock fails.
CommandEnds ==
  /\ pc \in {"forward", "backward"}
  /\ \/ (~ CommandRunning \/ i \notin earliest..resultHeight) /\ UNCHANGED errors
     \/ errors < MaxErrors /\ errors' = errors + 1
  /\ pc' = "stopped"
  /\ UNCHANGED <<nodeVars, db, sharedVars, lastBlock, i, startVars, failed, skipped>>

-----------------------------------------------------------------------------

Init ==
  /\ blockHeight \in 0..1 /\ resultHeight = blockHeight /\ earliest = 1
  /\ db = {} /\ pc = "stopped"
  /\ latestBlock = 0 /\ lastBlock = 0 /\ i = 0 /\ allowGap = FALSE /\ statusEarliest = 0 /\ header = 0
  /\ newBlockSignal = FALSE
  /\ errors = 0 /\ restarts = 0 /\ resumed = 0
  /\ passed = {} /\ failed = {} /\ skipped = {}

Service ==
  \/ Subscribe \/ LoadLast \/ Check \/ Wait \/ ForDone \/ Fetch \/ FetchNotAvailable \/ FetchFails
  \/ IndexBlock \/ IndexBlockFails

Next ==
  \/ NewBlock \/ SaveResults \/ Prune
  \/ Start \/ Service \/ ReceiveHeader \/ Crash
  \/ StartForward \/ StartBackward \/ CommandIndexes \/ CommandEnds

\* The service and its goroutine keep running, and the node finishes a block.
Spec == Init /\ [][Next]_vars /\ WF_vars(Service) /\ WF_vars(ReceiveHeader) /\ WF_vars(SaveResults)

-----------------------------------------------------------------------------
(* Properties *)

\* Whatever mixture of service, command, crashes and failures filled the
\* database: between two indexed blocks, and between the height from which the
\* service resumed and the one it has come to, only those are missing whose
\* indexing failed, that a service with allow-indexer-gap found pruned, and one
\* more for each of its starts below the earliest block of the node: that
\* earliest block, which the node has and indexer_service.go:110 steps over, even
\* if it is the next one.  A block counted as pruned is gone from the node.  (On
\* an empty database the service resumes after the latest block, and at least
\* after 1.)
NoSilentGap ==
  /\ \A h \in EthBlocks :
       (\E a, b \in db : a < h /\ h < b) \/ (pc \in Loop /\ resumed < h /\ h <= lastBlock)
         => h \in db \cup failed \cup skipped \cup passed
  /\ \A h \in skipped : h < earliest

\* A block the service knows of is eventually indexed, skipped or logged as
\* failed, although fetches fail and headers arrive during the loop, unless
\* the process ends or the next block is pruned and may not be skipped.
CatchesUp ==
  \A h \in EthBlocks :
    (pc \in Loop /\ lastBlock < h /\ h <= latestBlock)
      ~> \/ h \in db \cup failed \cup skipped
         \/ pc = "stopped"
         \/ ~ allowGap /\ lastBlock + 1 < earliest
=============================================================================
