# A TLA+ verification of Ethermint

Ethermint runs an Ethereum virtual machine as a module of a Cosmos SDK chain.
This directory holds TLA+ models of its parts, the TLC configurations that check
them on small instances, and TLAPS proofs of the most important properties for
every value of the constants. Definitions keep the names of the Go code;
`PROJECT.json` maps each of them to the lines it models.

## The system and its parts

| Part | Source | State and concurrency | Modules |
| --- | --- | --- | --- |
| StateDB | `x/evm/statedb`, `x/evm/keeper/statedb.go` | journal, state objects, multistore branch; one goroutine, deep sequences of calls | `StateDB`, `Revertible`, `StateDBRefines` |
| Transaction pipeline | `app/ante`, `x/evm/keeper/{state_transition,msg_server,gas,utils,abci,bloom,config}.go` | balances, nonces, fees, block gas, blooms; mempool against block state | `EvmTx` |
| Authz limiter | `app/ante/authz.go` | pure, recursive | `AuthzLimiter` |
| Fee market | `x/feemarket` | base fee and recorded gas in the store; block handlers and governance | `FeeMarket` |
| Gas estimation | `x/evm/keeper/grpc_query.go`, `x/evm/types/utils.go` | a binary search over executions | `EstimateGas` |
| Event stream | `rpc/stream/stream.go`, `cond.go`, `queue.go` | bounded buffer in a ring queue, shared by goroutines | `StreamBuffer`, `RingQueue`, `Stream` |
| Polling filters | `rpc/namespaces/ethereum/eth/filters/api.go`, `utils.go` | filter table, mutex, timers, timeout loop | `Filters`, `LogFilter` |
| Log queries | `rpc/namespaces/ethereum/eth/filters/filters.go` | a loop over a node that moves on | `LogQuery`, `LogFilter` |
| Websockets | `rpc/websockets.go` | a connection shared by goroutines | `Websocket`, over `Stream` |
| Indexer service | `server/indexer_service.go`, `indexer_cmd.go` | database, subscription goroutine, restarts | `Indexer` |
| Results of a block | `rpc/types/parsed_tx.go`, `x/evm/types/{utils,response}.go`, `indexer/kv_indexer.go`, `rpc/backend` | pure functions and a database | `BlockResults` |

How they interact: a block begins with the fee market computing its base fee. A
transaction passes the ante handlers, which take the fee and the nonce; the state
transition then creates a StateDB over a branch of the store, runs the EVM on it and
commits it. The end of the block records its gas and bloom filter. The node emits
block events; the RPC stream puts headers, transactions and logs into streams that
websockets and filters read, and the indexer writes a database of transactions.

The compositions in the models: `Websocket` extends `Stream`, so its goroutines are
Stream's subscribers with the callback's writes in between; `Filters` and `Stream` share
the buffer of `StreamBuffer`, and `Stream` carries the ring queue of `RingQueue` along with
the sequence of segments it must hold; `Filters` and `LogQuery` share the matching of `LogFilter`;
`BlockResults` holds the responses of the execution, the database of the indexer and
the answers of the JSON-RPC server side by side. `EvmTx` takes the base fee of a block
as an input from a set, which contains whatever `FeeMarket` computes, and the outcome
of the machine as a choice; what the machine does to the state is `StateDB`.

## Modules

### StateDB

`StateDB` models one message: the operations of `vm.StateDB` as the EVM and
the precompiles call them, from `NewWithParams` (Init) to `Commit`.

* `store` is the parent context, `native` the branch `cacheMS` with balances and
  auth accounts, `stateObjects` the cache of nonce, code and storage.
* `journal`, `dirties`, `validRevisions` and `nextRevisionID` are the fields of those
  names. `RevertToSnapshot` starts a revert, `RevertStep` undoes one entry as the
  loop in `journal.Revert` does, `RevertDone` truncates the revisions.
* `phase` distinguishes the state overrides applied before the message (`setup`), the
  message, a revert in progress, and the outcomes of Commit: success, an error of
  an earlier balance operation, and a failure of `DeleteAccount` half-way.
* A balance operation is a native action: it works on a copy of the branch and either
  replaces it and journals the old one, or leaves it alone. Bank keepers are
  external; they are modelled by what they do to balances and accounts,
  including the refusal of blocked recipients and vesting coins. `RunPrecompile`
  stands for a precompile's native action with a nested log.
* Loads are actions too (`Touch`, `GetState`): they fill caches without a
  journal entry, which is what makes the revert argument interesting.
* Log contents and events are counts; codes, keys and values are small sets.

`Revertible` is the abstract promise: a stack of copies of the state.
`StateDBRefines` maps StateDB to it. The mapping's `state` is the view of all
getters, and during a revert the saved view the call must arrive at, so the
refinement fails unless the undone journal really leads there.

### EvmTx

Accounts with balance, sequence and existence, once as the blocks leave them
(`deliver`) and once as the mempool sees them (`check`). `AnteOK` and `AnteState` are the
handler of Ethereum transactions in its three modes (check, recheck, deliver), check by
check in the order of `newEthAnteHandler`. In a block the fee goes to `escrow`, then the messages
of the transaction run one by one on a `branch` (`ApplyTransaction`, with the refund
at the effective price); a failing message (`MessageFails`, `MessageErrors`) discards the
branch but not the fee and the nonces. With `Hooks`, modules that hook into the end of a message
may alter the logs of its response, after the bloom was stored. `EndBlock` gathers the blooms from the object store,
and the mempool rechecks its transactions against the new state. baseapp, the mempool and
the bank are external.

### AuthzLimiter and EstimateGas

`AuthzLimiter` builds every forest of messages up to `MaxNodes` nodes and applies the
recursive check of the decorator; the properties compare it with definitions
of what is nested where. `EstimateGas` runs the query for every combination of
its caps against calls whose outcome is any function of the gas limit, since a contract
may look at the gas it has left. Limits are `uint64`: `MaxUint64` is a parameter, and the
middle of the search wraps.

### FeeMarket

The parameters (which contain the base fee), the recorded gas and the consensus
parameter `Block.MaxGas`. Actions are BeginBlock, transactions that add gas, a
parameter update by governance, a change of consensus parameters, and EndBlock;
the panic of a division by zero and the overflow error of EndBlock halt the chain.
Decimals are integers scaled by `Dec`, and `MaxInt256` and `MaxUint64` are parameters,
so that TLC meets saturation and overflow with small numbers and the proofs cover the
real widths.

### RingQueue, StreamBuffer and Stream

`RingQueue` has the operations of the queue on its array, head, tail and count; positions
wrap by the bitwise and of the code. `Add` of `Stream` stores and prunes segments with them,
so the queue goes through exactly the calls the stream makes. In that use the queue only
ever grows, while its head is at 0: pruning starts when the stream is at its capacity and
leaves it there, so the shrinking branch of `Remove` is modelled but not reached.

In `StreamBuffer` items are their ids; `Push` is the body of `Add` for one item with
its pruning, and `DoRead` is `doRead`. In `Stream`, `Add`, one turn of the loop of `ReadBlocking` and
one polling read are critical sections of the mutex, hence single steps; the gap between
`RUnlock` and the fetch of the condition's channel is a state of its own (`gap`).
A channel is the number of channels closed before it, so `waitCh # ch` says that
the channel a subscriber holds was closed. `start`, `got` and `overrun` are history
variables.

### Filters, LogFilter and LogQuery

`Filters` has the map of installed filters, the holder of `filtersMu` (`mu`) and what the
holder is about to do, and Go's timers: a countdown, then one value in the channel
(`TimerFires`), with `Stop` reporting whether the timer was still active. A
poll takes the mutex, stops and drains the timer, reads the stream chunk by chunk while it
grows, and resets the timer. The timeout loop receives a tick, takes the mutex and
deletes every filter whose channel holds a value. `idle` is the history of the time since a
filter was last polled.

`LogFilter` is the matching of logs with criteria; `LogQuery` is `Filter.Logs` over a
range: limits, one fetch per block from a node that adds and prunes blocks meanwhile, the
bloom, the matching, and each way the query can end early. The logs of a block are those that
`GetLogsFromBlockResults` reads from its results, which `BlockResults` compares with what was emitted.

### Websocket

The state of one connection (`open`, closed by the peer, broken, closed here), the read loop that
answers `eth_subscribe` and `eth_unsubscribe`, the goroutine of each subscription with its
callback, which filters a chunk by the criteria of the subscription (`Wanted`) and writes what is
left item by item, and the cancellations at the end of the read loop.

### Indexer and BlockResults

`Indexer` has the chain with pruning, the service with its steps (start, wait, fetch a
block, fetch its results, index, advance), the subscription goroutine that writes
`latestBlock`, the offline command, crashes and restarts. Fetches fail and blocks are
pruned between the steps. `failed`, `skipped` and `passed` are the history of the blocks that
the service left out: their indexing failed, they were pruned, or they were the earliest
stored block when it skipped the pruned ones.

`BlockResults` takes blocks of successful, failing, foreign and unreadable transactions, and Cosmos
transactions rejected for an Ethereum message in them, patches the responses as `PatchTxResponses` does,
indexes complete blocks with `IndexBlock`, above the last indexed block as the service and the forward
command do or below the first one as the backward command does (`Index`), and defines
what receipts, block logs and lookups answer. Whether the SDK keeps the events of
the messages before a failing one is left open (`KeepsEvents`).

## What the runs check

| Run | Checks | Bounds |
| --- | --- | --- |
| `statedb` | a revert acts as putting back a copy (refinement of `Revertible`) and loses no account, no nil object is dereferenced, coins are backed, Commit persists the view | 2 accounts (one missing; one vesting, one blocked), stores with and without code hash, 1 key, 2 values, 2 codes, a state override, journal of 2, 2 nested snapshots |
| `evmtx` | conservation of coins, escrow, fees against gas, no replay, the mempool's sequences, acceptance in CheckTx and in a block, blooms | 2 senders, 8 transactions of 1 or 2 messages, 3 configurations, hooks, 2 blocks, 2 transactions, mempool of 2 |
| `authz_limiter` | nothing disabled inside a MsgExec or a grant and bounded nesting in what passes, a cause for what is refused | forests of 6 messages, limit 3 |
| `estimate_gas` | the estimate executes; one unit less does not, and the search ends, unless its arithmetic wraps; failure only at the allowance | `MaxUint64` 31, every gas and cap, intrinsic gas 3 |
| `feemarket` | fee follows demand, bounded change, division by zero only below the elasticity multiplier | 28 proposals, block limits -1, 1, 2 and 5, 3 blocks, widths 20 and 12 |
| `stream` | the ring queue holds the segments, each read goes on where the last one ended, ids in order and complete, a signalled subscriber catches up | segments of 2, 4 retained, 9 items, batches of 3, a queue that grows from 2 and wraps |
| `stream_delivery` | expected to fail: every item is delivered | segments of 2, 3 items |
| `filters` | polls return every matching item once and in order, no poll blocks with the mutex held, only inactive filters are removed, and they are in the end | 3 ids, cap 2, deadline 2, segments of 2, 5 items |
| `log_query` | exactly the matching logs of the blocks gone through, all of them unless a fetch failed, within both limits | 3 blocks, colliding blooms, 225 criteria, limits 3 and 2 |
| `websocket` | each subscription is sent exactly the published items that match it, once and in order; after unsubscribing, closing and failing no goroutine stays where it waits or writes | 2 subscriptions with 2 items, 1 with 5, segments of 2, 2 retained, batches of 2 |
| `block_results` | numbering of logs, success reported exactly for what succeeded, lookups by index, block logs, the fallback | 3 hashes, 3 transactions of up to 2 messages and 2 logs, 2 blocks, indexed in any order |
| `indexer` | only blocks that failed, were pruned or are the earliest stored one are missing, also after restarts, and the service catches up | 4 blocks, 2 errors, 3 restarts, pruning, with and without allow-indexer-gap |

Four MC modules restrict the instance to what can interact. `MCStateDB` keeps refunds,
transient storage and access list in journals of their own (`Unmixed`): their entries
touch no account. `MCStream` has readers of one kind per behaviour (`OneKind`): readers do
not change the stream. `MCFilters` either publishes to one stream with one filter or has
several filters (`Apart`), and gives out ids in order: filters meet at the mutex and the cap only.
`MCWebsocket` has two subscriptions while at most `MaxShared` items are published and one when more
are, which the stream may overrun (`Apart`): subscriptions meet at the connection only.

Why the bounds are enough: a journal of two entries holds every pair of entry types on
one account, with one of them below the snapshot; two revisions give nested and sibling
snapshots; and the proofs remove the bounds for the revert properties. In `EvmTx` the
transactions include a creation alone and before a call, two messages of one sender, two of
two senders, one above the block gas and one whose tip matters, so a second transaction meets
every outcome of the first. In `Stream` nine items in segments of two fill four segments,
prune and go round the queue, and a batch can prune while it is added. In `Filters` two filters
below the cap and one above it, and a deadline of two ticks, let a poll arrive before, at and
after expiry; the proofs cover any number. In `FeeMarket` three blocks are enough for a fee
to rise, saturate, fall to the floor and be replaced by governance; the proofs cover the rest.
In `BlockResults` three transactions let a message fail, be included again and meet a
failure between two successes, and two blocks are indexed upwards and backward. In `EstimateGas` the range is
wide enough for several turns of the search to wrap. In `Websocket` five items prune a segment under a slow subscription,
and close the channel of a waiting one while it is cancelled. In `Indexer` four blocks, one without Ethereum transactions, leave one before,
at and after each point where the service, the goroutine or the pruning can be.
Deadlock is not checked where the system may stop: a message after Commit, a
stream when its bound on items is reached, the chain at the last height or after a
halt, a log query that has answered, a connection that is closed.

### Disagreements

`stream_delivery` is expected to fail: `ReadBlocking` unlocks before `Cond.Wait` reads the
channel, and an `Add` in between leaves the subscriber asleep with an unread item until the
next `Add`. The comment and the test it contradicts are quoted under `findings` in `PROJECT.json`.

Elsewhere the code does less than a comment, a name or a document suggests. These
cases are exceptions that the properties state exactly, so a run fails if the
code's deviation becomes larger:

| Property | Exception |
| --- | --- |
| RevertRestoresExist | `getStateObject` caches an account created by a native action; reverting the action does not drop the object, and `Exist` still answers true. |
| NoReplay | A creation sets the nonce to the message's plus one, after the ante handler counted the later messages of the same sender: the sequence ends too low. |
| NoDivisionByZero | Nothing checks that the block gas limit is at least the elasticity multiplier; below it BeginBlock panics. |
| GasRecorded (proved) | EndBlock stores the larger of the gas used and a share of the gas wanted, not the gas used. |
| ReadsOn | After its segment was pruned a reader moves to the earliest segment but keeps its position inside the segment, and skips items that are still there. |
| QueryExact | A query whose first block was pruned returns nothing and no error, although later blocks of its range are stored. |
| UnsubscribeEnds, ConnectionEnds | `ReadBlocking` looks at the context only where it waits. After the response to `eth_unsubscribe` the goroutine sends what it had read, and goes on to read and to send as long as the stream is ahead of it; `tests/integration_tests/test_websockets.py:95-99` expects no more messages. After the end of a connection it goes on in the same way until it has something to write. The properties say that it does not stay where it writes or waits. |
| FeesMatchGas | A transaction with a failing message pays for its whole gas limit, whatever gas its receipt reports: the refund is on the branch that is discarded. `x/evm/handler_test.go:420-421` and `508-509` expect "only deducted fee for gas used, rather than gas limit", of the message server alone. |
| BloomExact | The bloom is stored before the hooks run, which "can alter the log" (`state_transition.go:245`): with hooks it covers what the machine emitted, not what the response reports. |
| EstimateTight, Answered | `(hi + lo) / 2` is `uint64` arithmetic and wraps when the allowance is above 2^63, which the cap of a gRPC query may be (it is checked from below only; that of JSON-RPC is the node's option, 25,000,000 by default). The search then may end with an estimate that is not tight, or, if the call fails at every limit, never. |
| BlockLogsReported | A message without logs hides the logs of the earlier messages of its transaction. |
| LogsNumbered | After a failed transaction the transaction index in logs is lower than the one in the receipt. |
| FoundOnceRun, ReceiptsExact | Of a message that was included twice, a lookup by hash or by block and index returns the inclusion indexed last. Upwards this is the later one. If the backward command indexes the earlier, failed one last, it overwrites the entry of the success: the receipt of a message that succeeded says that it failed. |
| ReceiptsExact | A failure in a later message of a transaction whose events were dropped: its receipt leads to the first message. |
| FallbackAgrees | The fallback that counts messages disagrees with the indexer after a transaction the indexer left out, a Cosmos transaction with Ethereum messages, or a failure in a later message whose earlier events were dropped: its item is then not at the message's position. |
| NoSilentGap | A block whose indexing failed is passed over, also with allow-indexer-gap off; on an empty chain block 1 is never indexed. With allow-indexer-gap, a service that finds its last block below the earliest stored one goes on after that one (`indexer_service.go:110`): the earliest block is stored and never indexed, even when it is the next one. |
| CatchesUp | Without allow-indexer-gap the service waits for ever for a block that was pruned. |
| PassedIsAllowed | The limit on MsgExecs is per branch: the total may exceed it. |

Four more were met while modelling and are in the models, but no property is about them: the refund
counter of the machine does not lower the gas charged; an unlimited block gas (-1) makes the
block gas limit of the ante handler 0; `NewFilter` accepts a range whose bounds are reversed;
a websocket subscription begins at the end of the stream at a moment after the response.

### Fairness

* `Stream`: a subscriber's goroutine is scheduled (weak fairness of its own steps), and
  Go's `select` picks among ready cases at random, so a context that stays done is
  eventually chosen (strong fairness of `CtxDone`). `Add`, `Cancel` and `Subscribe` are
  not fair: nothing forces them.
* `Filters`: time passes (`Tick`), the runtime fires expired timers, a poll that was begun
  goes on and the timeout loop receives its tick (weak fairness). The loop's
  turn to lock the mutex is strongly fair: a `sync.Mutex` hands itself to a waiter
  that has starved for a millisecond. Nothing forces a client to poll.
* `Websocket`: the read loop goes on with what it has begun, a read of a closed
  connection fails, and the goroutines are scheduled (weak fairness); `Done` as in `Stream`.
  Requests, items and the end of the connection are not fair.
* `Indexer`: the service and the subscription goroutine are scheduled, and a node that stored a
  block stores its results. Failures, crashes and pruning are not fair, and bounded.
* `EstimateGas`: the query runs to its end.

## What is proved

Assumptions are those named in the modules, which TLC evaluates on every run:
`ConstantsAssumption` and `InitStoresAssumption` of `StateDB` (a committed store is
consistent: no storage without account, code present), `FeeMarketAssumption`,
`BufferAssumption` (positive segment size and capacity), `FiltersAssumption`, and
`EvmTxAssumption` (finitely many accounts, transactions that pass ValidateBasic's bound of
the tip by the fee cap, parameters of the types the code gives them).

**StateDB** (`StateDBViews`, `StateDBSteps`, `StateDBLoads`, `StateDBProofs`): TypeOK, RevertRestoresView,
RevisionsOrdered, NoNilObject and RevertRestoresExist are invariant and CommitPersistsView holds, for any accounts, keys, codes, committed state, journal
length and nesting. RevertRestoresView is not inductive, because it only says
something when the last entry has been undone. The invariant `RevertInv` adds the
missing history: there is a sequence of views, one per journal length, such that
undoing entry `i` of the journal turns view `i` into view `i - 1` (`UndoView`), the
current view is the last one, and each valid revision's saved view is the one at its
journal index (`Rewindable`). A step that appends an entry extends the sequence
(`ChainGrows`), a load leaves the view alone (`SameView`), a revert step drops the last
view (`ChainShrinks`). `Bookkeeping` says that every journalled object is live and that
the dirty count of an account is positive only for live objects; it is what makes the
undo of an entry well defined. The modules follow the argument: views and chains
(`StateDBViews`), the operations of a message (`StateDBSteps`), what objects have loaded
(`StateDBLoads`), snapshots, reverts and the theorems (`StateDBProofs`).

`CommitPersists` and `RevertRestoresAccounts` need more than views, because the view hides what an
object has cached: Commit writes a slot only where it differs from the cached `origin`, and a load makes
an object live without a journal entry. Two additions make them inductive.

* `CleanView`, a part of `RevertInv` at every journal length: an account with dirty count 0 shows what
  the parent holds. Commit skips such an account, so this is what makes skipping it sound.
* `Held`, an invariant beside `RevertInv`. `ObjectsLoaded` says that what a live object has loaded is
  what the parent holds, that it wrote no slot it had not read (`Faithful`), and that it has read every
  slot that a storage entry will put back in it (`HasRead`); the same of the objects that
  `resetObject` entries keep, since Revert makes those live again. `ExistenceKept` says for every valid
  revision that an account that existed is still on that revision's branch or live and not created
  since, and that the object of one that did not exist was loaded or was made by an entry that the
  revert will undo. `Indexed` bounds the journal indices of the revisions.

A step adds an entry (`HeldAppends`), loads (`HeldLoads`) or changes an object (`HeldChanges`), a revert step
undoes one entry (`EntryUndone`), and a snapshot records what exists now (`ExistenceRecorded`).

`JournalImplementsCopies` proves the refinement of `Revertible` from it: `Snapshot`,
`RevertToSnapshot` and the return of a revert are the steps of the same names,
a revert step is a stutter, and everything else is `Modify` (`OtherSteps`). The return is a
step of `Revertible` because the view is then the saved one.

**FeeMarket** (`NodeProofs`): all properties of the run, and TypeOK, FloorKept and
GasRecorded, for every width, precision, parameters and limits. The lemmas about division (`DivLe`,
`DivMono`, `FeeDeltaBound`) carry the arithmetic; TypeOK is inductive, and the action
properties follow from it and `NewFeeFacts`, which says what `CalculateBaseFee` returns.
`NeverDividesByZero` is conditional: the code checks nowhere that the block gas
limit is at least the elasticity multiplier.

**EstimateGas** (`NodeProofs`): EstimateTight and FailsAtAllowance, for every request, caps, width and outcomes of
the call, monotone in the gas or not. Both speak of the answer; the invariant `EstInv` adds
what the interval of BinSearch means while it runs (`Searching`): `hi` went through, or is still the allowance
and nothing executed so far went through, whether or not the middle wraps; and where it does not wrap, `lo` failed or is
one below the intrinsic gas (`LowerEnd`).

**Indexer** (`NodeProofs`): NoSilentGap, for every chain, any number of restarts, failures and prunings, and any order of service
and command. That the database has no silent gap is not inductive: the block
that a step indexes closes or opens one depending on where the loop stands. `IndexInv` says it for
each loop: in the service nothing above `lastBlock` is indexed and all below it is accounted
for (`ServiceInv`), within a round the blocks before `i` were skipped (`RoundInv`), and the command has come
to `i` from the ends of the database (`ForwardInv`, `BackwardInv`). What was skipped as pruned is
gone from the node (`PrunedInv`), since the earliest block only moves up.

`NodeProofs` extends `FeeMarket` and takes the other two as instances (`Est`, `Idx`), so their assumptions
(`GasAssumption`, `IndexerAssumption`) are hypotheses of these theorems.

**StreamBuffer** (`FiltersProofs`): for every segment size and capacity, `Push` keeps
the buffer well formed (`PushWellFormed`: full segments but the last, ids that agree with
positions, no more segments than retained), and a read at an offset that was not pruned returns
what follows it without a gap (`ReadsFollowing`).

**Filters** (`FiltersProofs`): the invariant `IInv` says that a timer is off exactly when its
channel holds a value, that countdown and idle time together cover the deadline
(`TimerInv`), that the mutex is held only for an installed filter and a poll that waits for
a value found the timer off (`MutexInv`), and that the cap holds (`CapInv`). From it, for any number
of filters, cap, deadline and buffer: TypeOK (with the cap), NeverBlocks, RemovesOnlyInactive and, with
`PushWellFormed`, StreamsWellFormed.

**EvmTx** (`EvmTxLedger`, `EvmTxProofs`): every safety property of the run but
MempoolSequences, for any finite set of accounts, any transactions, block configurations and
bounds.

* Balances and fees are sums over accounts and messages, computed by the library's folds, about
  which the library states no theorem. `EvmTxLedger` derives what is needed from the definition of
  the fold: the recursion has exactly one solution (`SumsAgree`, `SumExists`), its elements may be
  taken in any order (`SumRemove`), and hence how a sum changes with one value (`SumUpdate`), that sums
  add up (`SumAdd`), compare (`SumAtMost`) and may be grouped by a key (`SumByKey`, for the fees of
  the senders of a transaction). Each is an induction over the subsets of a finite set, written as an
  argument about a minimal counterexample (`LeastSubset`), which the provers can follow where an
  induction rule with a predicate parameter is beyond them.
* `CoinsAreConserved`: what the ante handler takes from the senders is what enters the fee
  collector (`AnteMoves`), a message moves its value and its refund (`ExecutedMoves`), and a failing
  message leaves the state of before the transaction. With the types of the block state
  (`BlockTypes`) CoinsConserved is inductive.
* `FeesMatchTheGas` and `EscrowIsEnough`: FeesMatchGas speaks of finished transactions only. The
  invariant `FeeInv` says what holds between messages: the fee collector holds the price of the gas
  that the finished messages were charged and the full fees of the others (`Charged`).
  `NextResult` replaces one full fee by one price, and `ChargedSums` compares the total with the
  minimum gas price and the offer. The refund of a message never exceeds what is left.
* `AdmittedIsDelivered`: the checks of DeliverTx follow from those of CheckTx one by one
  (`DeliverAsksLess`).
* `BloomIsExact`: `BloomInv` follows the object store while a transaction runs, with the keys
  of its messages so far (`EmittedAt`), so that the receipt adds exactly what its messages emitted; without
  hooks these are the logs of their responses.
* `NothingIsReplayed`: NoReplay is inductive only with the sequences of the accounts. `NonceInv` says that
  the nonces a sender has used, those of excused messages apart, are below its sequence (`UsedUp`), and while a transaction runs, that
  its nonces are new and that its branch sets the sequence of a sender to the one the ante handler
  left, or to that of a creation plus one, which is above all nonces used before it (`BranchSequences`).

## Only model-checked

* Liveness, which is outside the prover's reach, and what rests on ENABLED.
* MempoolSequences: the recheck is a recursion over the mempool, whose invariant has to be carried
  through every prefix, an induction over data. CoinsBacked, a sum over the balances of the whole
  committed state, which is stated for the instance.
* `QueueHoldsSegments` (the queue's bitwise operations), `AuthzLimiter` (a recursive operator), and the folds
  and selections over sequences of `LogQuery` and `BlockResults`: the prover's library has no
  definition of `SelectSeq` and no theorem about the folds of sequences.
* PollsReturnAll, which selects from a sequence as `LogQuery` does; `Stream` beyond its buffer and `Websocket`,
  which reach the buffer through the queue.

## Not modelled

* The goroutine of the RPC stream (`rpc/stream/rpc.go`) translates node events into `Add`,
  which `Stream` takes as input; its `Close` has no caller. The event bus in
  `rpc/ethereum/pubsub` is used by its own tests only.
* The query of logs of one block by its hash, which is one turn of the loop of `LogQuery`.
* `eth_call` and the tracing queries run messages through the state transition and
  commit nothing; tracers observe and change no state.
* The rest of the JSON-RPC backend is stateless translation of requests and results.
* The v1 format of the base fee, store migrations and simulation: one-shot conversions
  and random inputs.
* The decorators of Cosmos transactions other than the authz limiter are the SDK's or
  check formats and signatures. Cryptography, EIP-712 and encodings are
  outside what a model checker decides.
* Configuration, commands and application wiring: I/O and construction. The order of
  the block handlers it fixes is used by `FeeMarket` and `EvmTx`.
* Gas is a natural number in `EvmTx`, where it is bounded by the limits of the messages, and `EvmTx` runs at heights above 0
  (`DeductFees` takes no fee at height 0).
* The error or panic of `IndexBlock` in `BlockResults`: nothing is written, and `Indexer` goes on from it.
