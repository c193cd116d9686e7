---------------------------- MODULE BlockResults ----------------------------
(***************************************************************************)
(* From the results of a block's transactions to what the JSON-RPC server  *)
(* says about them: the patching of responses (x/evm/types/response.go),   *)
(* the parsing of results (rpc/types/parsed_tx.go), the entries the        *)
(* indexer stores (indexer/kv_indexer.go), and the logs and indexes that   *)
(* receipts and blocks report (x/evm/types/utils.go, rpc/backend).  An     *)
(* Ethereum message is its hash.  Gas is left out.  The Cosmos SDK, which  *)
(* runs the messages of a transaction and reverts all of them when one     *)
(* fails, is external; whether it then keeps the events of the messages    *)
(* before the failing one is open.                                         *)
(***************************************************************************)
EXTENDS Integers, FiniteSets, Sequences, SequencesExt

CONSTANTS Hashes,                   \* Ethereum messages
          KeepsEvents,              \* what the SDK may do with events of a failing transaction
          MaxMsgs, MaxLogs, MaxTxs, MaxBlocks \* bounds: per transaction, per message, in all, in all

ASSUME BlockResultsAssumption ==
  /\ KeepsEvents \subseteq BOOLEAN
  /\ {MaxMsgs, MaxLogs, MaxTxs, MaxBlocks} \subseteq Nat

VARIABLES chain,    \* blocks: the messages of each transaction, and its result
          ended,    \* whether the last block is complete
          executed, \* messages that must not be included again
          byHash, byIndex, \* the entries of the indexer's database, by their kind of key
          order     \* history: the blocks that were indexed, in the order of indexing

vars == <<chain, ended, executed, byHash, byIndex, order>>
dbVars == <<byHash, byIndex, order>>

-----------------------------------------------------------------------------
(* Results of transactions *)

\* The log of a failure that is not the JSON of a VM error.
Other == [msgIndex |-> -1]

\* A transaction in a block: eth for one with the Ethereum extension option,
\* cosmos, or garbage that cannot be decoded.  The data of a result has one
\* response per message, only when all succeed.
Tx(kind, msgs, code, events, data, log) ==
  [kind |-> kind, msgs |-> msgs, code |-> code, events |-> events, data |-> data, log |-> log]

\* The logs of a message as the keeper returns them: the indexes are filled in later.
Emitted(hash, n) == [k \in 1..n |-> [hash |-> hash, nth |-> k, txIndex |-> 0, index |-> 0]]

\* EthereumTx for each message: a response and an event.
Success(msgs, counts) ==
  Tx("eth", msgs, "ok", msgs, [i \in DOMAIN msgs |-> [hash |-> msgs[i], logs |-> Emitted(msgs[i], counts[i])]], Other)

\* Message k (from 0) fails in the EVM: codespace evm, and its index, hash and error in the log.
VmError(msgs, k, kept) ==
  Tx("eth", msgs, "evm", IF kept THEN SubSeq(msgs, 1, k) ELSE << >>, << >>, [msgIndex |-> k, hash |-> msgs[k + 1]])

\* Any other failure, in a message or before: block gas exceeded, a wrong nonce, EVM calls disabled.
Failure(msgs, code) == Tx("eth", msgs, code, << >>, << >>, Other)

Cosmos == Tx("cosmos", << >>, "ok", << >>, << >>, Other)

\* A Cosmos transaction with Ethereum messages in it, which its ante handler rejects.
Rejected(msgs) == Tx("cosmos", msgs, "other", << >>, << >>, Other)

Garbage == Tx("garbage", << >>, "other", << >>, << >>, Other)

-----------------------------------------------------------------------------
(* PatchTxResponses *)

\* Fills the indexes of the logs of one response; acc counts messages and logs.
PatchResponse(acc, rsp) ==
  [txIndex  |-> acc.txIndex + 1,
   logIndex |-> acc.logIndex + Len(rsp.logs),
   data     |-> Append(acc.data,
                  [rsp EXCEPT !.logs = [k \in DOMAIN @ |-> [@[k] EXCEPT !.txIndex = acc.txIndex,
                                                                        !.index = acc.logIndex + k - 1]]])]

\* A mutant of PatchTx: log indexes start again in every transaction.
RestartsLogIndex(acc, tx) ==
  LET r == FoldLeft(PatchResponse, [txIndex |-> acc.txIndex, logIndex |-> 0, data |-> << >>], tx.data)
  IN  [txIndex |-> r.txIndex, logIndex |-> 0, txs |-> Append(acc.txs, [tx EXCEPT !.data = r.data])]

PatchTx(acc, tx) ==
  LET r == FoldLeft(PatchResponse, [txIndex |-> acc.txIndex, logIndex |-> acc.logIndex, data |-> << >>], tx.data)
  IN  IF tx.code # "ok" THEN [acc EXCEPT !.txs = Append(@, tx)]
      ELSE [txIndex |-> r.txIndex, logIndex |-> r.logIndex, txs |-> Append(acc.txs, [tx EXCEPT !.data = r.data])]

PatchTxResponses(txs) == FoldLeft(PatchTx, [txIndex |-> 0, logIndex |-> 0, txs |-> << >>], txs).txs

-----------------------------------------------------------------------------
(* ParseTxResult *)

\* A mutant of ParseTxResult: the messages before the failing one are not marked as failed.
FailsLastOnly(tx) ==
  LET events == [i \in DOMAIN tx.events |-> [msgIndex |-> i - 1, hash |-> tx.events[i], failed |-> FALSE]]
      failed == [msgIndex |-> tx.log.msgIndex, hash |-> tx.log.hash, failed |-> TRUE]
      items  == IF tx.code = "evm" /\ tx.log # Other THEN Append(events, failed) ELSE events
  IN  [err |-> tx.code = "evm" /\ tx.log = Other,
       txs |-> items,
       txHashes |-> [h \in {items[i].hash : i \in DOMAIN items} |->
                       (CHOOSE item \in Range(items) : item.hash = h).msgIndex]]

\* One item per event, then one for the message named in the log; and the map
\* from hashes to positions.  A log that names no message is an error.
ParseTxResult(tx) ==
  LET events == [i \in DOMAIN tx.events |-> [msgIndex |-> i - 1, hash |-> tx.events[i], failed |-> tx.code # "ok"]]
      failed == [msgIndex |-> tx.log.msgIndex, hash |-> tx.log.hash, failed |-> TRUE]
      items  == IF tx.code = "evm" /\ tx.log # Other THEN Append(events, failed) ELSE events
  IN  [err |-> tx.code = "evm" /\ tx.log = Other,
       txs |-> items,
       txHashes |-> [h \in {items[i].hash : i \in DOMAIN items} |->
                       (CHOOSE item \in Range(items) : item.hash = h).msgIndex]]

\* Positions are counted from 0, as in the code.
HasMsgIndex(parsed, i) == i < Len(parsed.txs)
GetTxByMsgIndex(parsed, i) == parsed.txs[i + 1]

-----------------------------------------------------------------------------
(* KVIndexer.IndexBlock *)

\* A mutant of SaveTxResult: the entry of a hash is never overwritten.
KeepsFirst(acc, hash, result) ==
  [ethTxIndex |-> acc.ethTxIndex + 1,
   byHash  |-> [h \in DOMAIN acc.byHash \cup {hash} |-> IF h \in DOMAIN acc.byHash THEN acc.byHash[h] ELSE result],
   byIndex |-> [k \in DOMAIN acc.byIndex \cup {<<result.height, result.ethTxIndex>>} |->
                  IF k = <<result.height, result.ethTxIndex>> THEN hash ELSE acc.byIndex[k]]]

\* The entries saveTxResult adds for a message.
SaveTxResult(acc, hash, result) ==
  [ethTxIndex |-> acc.ethTxIndex + 1,
   byHash  |-> [h \in DOMAIN acc.byHash \cup {hash} |-> IF h = hash THEN result ELSE acc.byHash[h]],
   byIndex |-> [k \in DOMAIN acc.byIndex \cup {<<result.height, result.ethTxIndex>>} |->
                  IF k = <<result.height, result.ethTxIndex>> THEN hash ELSE acc.byIndex[k]]]

\* A message of a transaction: failed outside of the EVM, or found in the parsed result, or skipped.
IndexMsg(acc, height, txIndex, tx, i) ==
  LET parsed == ParseTxResult(tx)
      Result(failed) == [height |-> height, txIndex |-> txIndex, msgIndex |-> i,
                         ethTxIndex |-> acc.ethTxIndex, failed |-> failed]
  IN  IF tx.code = "other" THEN SaveTxResult(acc, tx.msgs[i + 1], Result(TRUE))
      ELSE IF ~ HasMsgIndex(parsed, i) THEN acc
      ELSE SaveTxResult(acc, GetTxByMsgIndex(parsed, i).hash, Result(GetTxByMsgIndex(parsed, i).failed))

IndexTx(acc, height, txIndex, tx) ==
  IF tx.kind # "eth" \/ ParseTxResult(tx).err THEN acc
  ELSE FoldLeft(LAMBDA a, i : IndexMsg(a, height, txIndex, tx, i - 1), acc, [i \in DOMAIN tx.msgs |-> i])

\* All of a block, in one batch; transactions are counted from 0.
IndexBlock(height, txs) ==
  FoldLeft(LAMBDA acc, t : IndexTx(acc, height, t - 1, txs[t]),
           [ethTxIndex |-> 0, byHash |-> byHash, byIndex |-> byIndex], [t \in DOMAIN txs |-> t])

-----------------------------------------------------------------------------
(* What the server reports *)

\* logsFromTxResponse: appends the logs of a response; nothing for a response without logs.
LogsFromTxResponse(dst, rsp) == IF rsp.logs = << >> THEN << >> ELSE dst \o rsp.logs

\* DecodeMsgLogsFromEvents; no part of the program emits tx_log events any more.
DecodeMsgLogs(tx, msgIndex) ==
  IF msgIndex < Len(tx.data) THEN LogsFromTxResponse(<< >>, tx.data[msgIndex + 1]) ELSE << >>

\* A mutant of GetLogsFromBlockResults: the logs of all transactions are collected in one list.
CollectsInOne(txs) ==
  FoldLeft(LogsFromTxResponse, << >>, FlattenSeq([t \in DOMAIN txs |-> txs[t].data]))

\* GetLogsFromBlockResults with DecodeTxLogsFromEvents, flattened as the callers do.
GetLogsFromBlockResults(txs) ==
  FlattenSeq([t \in DOMAIN txs |-> FoldLeft(LogsFromTxResponse, << >>, txs[t].data)])

\* A mutant of EthMsgs: only the messages of successful transactions.
OnlySuccessful(txs) == FlattenSeq([t \in DOMAIN txs |-> IF txs[t].code = "ok" THEN txs[t].msgs ELSE << >>])

\* EthMsgsFromTendermintBlock: the messages a block is said to have, failed ones
\* and those of rejected Cosmos transactions included.
EthMsgs(txs) == FlattenSeq([t \in DOMAIN txs |-> txs[t].msgs])

\* GetTransactionReceipt of a message in the database.
Receipt(hash) ==
  LET res == byHash[hash]
  IN  [failed |-> res.failed, transactionIndex |-> res.ethTxIndex,
       of     |-> chain[res.height][res.txIndex + 1].msgs[res.msgIndex + 1],
       logs   |-> DecodeMsgLogs(chain[res.height][res.txIndex + 1], res.msgIndex)]

-----------------------------------------------------------------------------
(* Blocks *)

\* Messages of a new transaction: one that could not run may be included again.
Runnable == Hashes \ executed
Batches == {m \in SeqOf(Runnable, MaxMsgs) : m # << >> /\ IsInjective(m)}

Deliver(tx, ran) ==
  /\ ~ ended /\ Len(FlattenSeq(chain)) < MaxTxs
  /\ chain' = [chain EXCEPT ![Len(chain)] = Append(@, tx)]
  /\ executed' = executed \cup ran
  /\ UNCHANGED <<ended, dbVars>>

DeliverSuccess == \E msgs \in Batches : \E counts \in [DOMAIN msgs -> 0..MaxLogs] :
                    Deliver(Success(msgs, counts), Range(msgs))
DeliverVmError == \E msgs \in Batches : \E k \in 0..(Len(msgs) - 1), kept \in KeepsEvents :
                    Deliver(VmError(msgs, k, kept), Range(msgs))
DeliverFailure == \E msgs \in Batches, code \in {"evm", "other"} : Deliver(Failure(msgs, code), {})
DeliverNonEth == \E tx \in {Cosmos, Garbage} \cup {Rejected(<<h>>) : h \in Hashes} : Deliver(tx, {})

\* The application patches the results of a block.
EndBlock ==
  /\ ~ ended
  /\ chain' = [chain EXCEPT ![Len(chain)] = PatchTxResponses(@)]
  /\ ended' = TRUE
  /\ UNCHANGED <<executed, dbVars>>

BeginBlock ==
  /\ ended /\ Len(chain) < MaxBlocks
  /\ chain' = Append(chain, << >>)
  /\ ended' = FALSE
  /\ UNCHANGED <<executed, dbVars>>

\* The blocks that are complete, and those with entries in the database.
Blocks == IF ended THEN DOMAIN chain ELSE DOMAIN chain \ {Len(chain)}
WithEntries == {key[1] : key \in DOMAIN byIndex}

\* The service and the command forward go on above the last block in the database,
\* the command backward below the first one, and an empty database is begun at any
\* block.  (IndexBlock may fail or panic; it then writes nothing.)
Index(b) ==
  /\ b \in Blocks \ Range(order)
  /\ (\A a \in WithEntries : b > a) \/ (\A a \in WithEntries : b < a)
  /\ LET indexed == IndexBlock(b, chain[b])
     IN  byHash' = indexed.byHash /\ byIndex' = indexed.byIndex
  /\ order' = Append(order, b)
  /\ UNCHANGED <<chain, ended, executed>>

Init ==
  /\ chain = << << >> >> /\ ended = FALSE /\ executed = {}
  /\ byHash = << >> /\ byIndex = << >> /\ order = << >>

Next ==
  \/ DeliverSuccess \/ DeliverVmError \/ DeliverFailure \/ DeliverNonEth \/ EndBlock \/ BeginBlock
  \/ \E b \in 1..MaxBlocks : Index(b)

Spec == Init /\ [][Next]_vars

-----------------------------------------------------------------------------
(* Properties *)

AllLogs(b) == FlattenSeq([t \in DOMAIN chain[b] |-> FlattenSeq([i \in DOMAIN chain[b][t].data |-> chain[b][t].data[i].logs])])

\* Whether a transaction failed in a message after the first and its events were dropped.
LateFailure(tx) == tx.log # Other /\ tx.log.msgIndex # Len(tx.events)

\* Whether block b has an inclusion of the message that failed outside of the EVM.
NotRun(h, b) == \E tx \in Range(chain[b]) : tx.kind = "eth" /\ tx.code = "other" /\ h \in Range(tx.msgs)

\* Whether block b was indexed after block c.
IndexedAfter(b, c) == \E n, o \in DOMAIN order : n > o /\ order[n] = b /\ order[o] = c

\* The entry by index leads to the entry by hash of the same position.  Only if the
\* message was included twice it may lead to the other inclusion, the one indexed
\* last: a later one when blocks are indexed upwards, an earlier one, although it
\* did not run, when the command indexes backward (kv_indexer.go:240,
\* indexer_cmd.go:105).  The earlier inclusion failed outside of the EVM.
FoundOnceRun ==
  \A key \in DOMAIN byIndex :
    LET found == <<byHash[byIndex[key]].height, byHash[byIndex[key]].ethTxIndex>>
    IN  \/ found = key
        \/ /\ found \in DOMAIN byIndex /\ byIndex[found] = byIndex[key]
           /\ IndexedAfter(found[1], key[1]) \/ (found[1] = key[1] /\ found[2] > key[2])
           /\ NotRun(byIndex[key], IF found[1] < key[1] THEN found[1] ELSE key[1])

\* Logs are numbered through the block, whatever fails between them, and the
\* logs of one message, and only they, have the same transaction index.  It is
\* never above the index in the receipt of the message, and equal to it when no
\* transaction before it in the block failed.
LogsNumbered ==
  /\ \A b \in Blocks :
       LET logs == AllLogs(b)
       IN  \A i, j \in DOMAIN logs :
             /\ logs[i].index = i - 1
             /\ (logs[i].txIndex = logs[j].txIndex) = (logs[i].hash = logs[j].hash)
  /\ \A h \in DOMAIN byHash : \A log \in Range(Receipt(h).logs) :
       /\ log.txIndex <= Receipt(h).transactionIndex
       /\ (\A t \in 1..byHash[h].txIndex : chain[byHash[h].height][t].code = "ok") =>
            log.txIndex = Receipt(h).transactionIndex

\* Whether the entry of a message that succeeded in block b was overwritten: the
\* command indexed backward an earlier block in which it had not run.
Overwritten(h, b) == \E c \in Blocks : c < b /\ IndexedAfter(c, b) /\ NotRun(h, c)

\* Receipts report success exactly: every message of a successful transaction in
\* an indexed block has one that says so and has its logs, also if the message
\* failed before, unless that failure was indexed backward, afterwards; no other
\* receipt claims success or has logs.  And a receipt leads to its message, but
\* for a message that failed after others whose events were dropped: its receipt
\* is that of the first message of the transaction.
ReceiptsExact ==
  LET succeeded == {<<b, rsp>> \in UNION {{b} \X UNION {Range(tx.data) : tx \in Range(chain[b])} : b \in Range(order)} :
                      ~ Overwritten(rsp.hash, b)}
  IN  /\ \A <<b, rsp>> \in succeeded :
           /\ rsp.hash \in DOMAIN byHash
           /\ ~ Receipt(rsp.hash).failed /\ Receipt(rsp.hash).logs = rsp.logs
      /\ \A h \in DOMAIN byHash \ {s[2].hash : s \in succeeded} : Receipt(h).failed /\ Receipt(h).logs = << >>
      /\ \A h \in DOMAIN byHash :
           LET tx == chain[byHash[h].height][byHash[h].txIndex + 1]
           IN  Receipt(h).of = IF LateFailure(tx) THEN tx.msgs[1] ELSE h

\* The logs reported for a block are its logs in their order; missing are
\* those, and only those, before a message without logs in the same transaction.
BlockLogsReported ==
  \A b \in Blocks :
    GetLogsFromBlockResults(chain[b]) =
      SelectSeq(AllLogs(b), LAMBDA log :
        \A t \in DOMAIN chain[b] : \A i, j \in DOMAIN chain[b][t].data :
          i < j /\ chain[b][t].data[i].hash = log.hash => chain[b][t].data[j].logs # << >>)

\* The index of a message in its block is the same with the indexer and with the
\* fallback that counts messages, as long as the indexer left out none so far:
\* no transaction up to that one has an unreadable result, failed in the EVM
\* before its last message, or is a Cosmos one with Ethereum messages.
FallbackAgrees ==
  \A h \in DOMAIN byHash :
    LET b == byHash[h].height
    IN  (\A t \in 1..(byHash[h].txIndex + 1) :
           LET tx == chain[b][t]
           IN  /\ tx.kind # "eth" => tx.msgs = << >>
               /\ tx.code = "evm" => tx.log # Other /\ ~ LateFailure(tx) /\ tx.log.msgIndex = Len(tx.msgs) - 1)
        => byHash[h].ethTxIndex < Len(EthMsgs(chain[b])) /\ EthMsgs(chain[b])[byHash[h].ethTxIndex + 1] = h
=============================================================================
