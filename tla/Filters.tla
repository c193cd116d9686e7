------------------------------ MODULE Filters ------------------------------
(***************************************************************************)
(* The polling filters of the JSON-RPC server (PublicFilterAPI in          *)
(* rpc/namespaces/ethereum/eth/filters/api.go) over the event streams of   *)
(* Stream: installation, eth_getFilterChanges, uninstallation, and the     *)
(* timeout loop that removes filters nobody polls.  The mutex filtersMu is *)
(* held over a whole call, but the streams grow and timers expire while it *)
(* is.  A timer is Go's: it counts down to 0, then the runtime puts one    *)
(* value into its channel, and Stop reports whether it was still active.   *)
(* Filters of pending transactions and of blocks differ only in the stream *)
(* they read.                                                              *)
(***************************************************************************)
EXTENDS FiniteSets, StreamBuffer, LogFilter

CONSTANTS Ids,              \* what rpc.NewID may return; an id is never used again
          Types,            \* the kinds of filters in use: block, pending or logs
          Criteria,         \* the criteria of log filters
          LogOf,            \* the log with a given id of the log stream
          FilterCap,        \* the node's option filter-cap
          Deadline,         \* the deadline, and the period of the timeout loop, in ticks
          MaxItems          \* bound on the length of a stream

Nil == [typ |-> "none"]
Off == -1

ASSUME FiltersAssumption ==
  /\ Types \subseteq {"block", "pending", "logs"} /\ Nil \notin Ids
  /\ FilterCap \in Nat /\ Deadline \in Nat \ {0} /\ MaxItems \in Nat

VARIABLES streams,      \* for each type, the buffer of its stream and the number of items added
          filters,      \* the map of installed filters
          used,         \* ids that were given out
          mu, step,     \* the poll that holds the mutex, and what it does next
          polled,       \* what it has read so far
          ticker,       \* the ticker of the timeout loop
          loop,         \* the timeout loop: at its ticker, or waiting for the mutex
          idle,         \* history: ticks since a filter was made or polled, capped
          start, got,   \* history: where a filter began, and what polls returned
          overrun       \* history: whether a poll began behind the oldest segment

vars == <<streams, filters, used, mu, step, polled, ticker, loop, idle, start, got, overrun>>
history == <<idle, start, got, overrun>>

Installed == {id \in Ids : filters[id] # Nil}
Active == [left |-> Deadline, fired |-> FALSE]

-----------------------------------------------------------------------------
(* Time and the streams *)

\* Time passes: timers count down, the ticker starts again at 0 and drops its
\* tick when the previous one was not received.
Tick ==
  /\ filters' = [id \in Ids |-> IF id \in Installed /\ filters[id].timer.left > 0
                                THEN [filters[id] EXCEPT !.timer.left = @ - 1] ELSE filters[id]]
  /\ ticker' = IF ticker.left = 0 THEN [left |-> Deadline, fired |-> TRUE] ELSE [ticker EXCEPT !.left = @ - 1]
  /\ idle' = [id \in Ids |-> IF id \in Installed /\ idle[id] <= Deadline THEN idle[id] + 1 ELSE idle[id]]
  /\ UNCHANGED <<streams, used, mu, step, polled, loop, start, got, overrun>>

\* The runtime sends on the channel of a timer whose time has come.
TimerFires(id) ==
  /\ id \in Installed /\ filters[id].timer.left = 0
  /\ filters' = [filters EXCEPT ![id].timer = [left |-> Off, fired |-> TRUE]]
  /\ UNCHANGED <<streams, used, mu, step, polled, ticker, loop, history>>

\* Stream.Add of one item.
Publish(t) ==
  /\ streams[t].added < MaxItems
  /\ streams' = [streams EXCEPT ![t] = [buffer |-> Push(@.buffer, @.added + 1), added |-> @.added + 1]]
  /\ UNCHANGED <<filters, used, mu, step, polled, ticker, loop, history>>

-----------------------------------------------------------------------------
(* Installing and removing filters *)

\* NewBlockFilter, NewPendingTransactionFilter and NewFilter.
NewFilter(id, t, crit) ==
  /\ mu = Nil /\ id \notin used
  /\ Cardinality(Installed) < FilterCap
  /\ LET offset == DoRead(streams[t].buffer, -1).last
     IN  /\ filters' = [filters EXCEPT ![id] = [typ |-> t, crit |-> crit, offset |-> offset, timer |-> Active]]
         /\ start' = [start EXCEPT ![id] = offset]
  /\ used' = used \cup {id}
  /\ idle' = [idle EXCEPT ![id] = 0]
  /\ UNCHANGED <<streams, mu, step, polled, ticker, loop, got, overrun>>

UninstallFilter(id) ==
  /\ mu = Nil /\ id \in Installed
  /\ filters' = [filters EXCEPT ![id] = Nil]
  /\ UNCHANGED <<streams, used, mu, step, polled, ticker, loop, history>>

LoopReceives ==
  /\ loop = "ticker" /\ ticker.fired
  /\ ticker' = [ticker EXCEPT !.fired = FALSE]
  /\ loop' = "lock"
  /\ UNCHANGED <<streams, filters, used, mu, step, polled, history>>

\* A mutant of LoopDeletes: the expired filter is kept, its value consumed.
LoopConsumes ==
  /\ loop = "lock" /\ mu = Nil
  /\ filters' = [id \in Ids |-> IF id \in Installed /\ filters[id].timer.fired
                                THEN [filters[id] EXCEPT !.timer.fired = FALSE] ELSE filters[id]]
  /\ loop' = "ticker"
  /\ UNCHANGED <<streams, used, mu, step, polled, ticker, history>>

\* A mutant of LoopDeletes: the loop ends at the first filter it meets that has not expired.
LoopBreaks ==
  /\ loop = "lock" /\ mu = Nil
  /\ \E met \in SUBSET Installed :
       /\ met # Installed => \E id \in met : ~ filters[id].timer.fired
       /\ filters' = [id \in Ids |-> IF id \in met /\ filters[id].timer.fired THEN Nil ELSE filters[id]]
  /\ loop' = "ticker"
  /\ UNCHANGED <<streams, used, mu, step, polled, ticker, history>>

\* The loop removes the filters whose timer has a value.
LoopDeletes ==
  /\ loop = "lock" /\ mu = Nil
  /\ filters' = [id \in Ids |-> IF id \in Installed /\ filters[id].timer.fired THEN Nil ELSE filters[id]]
  /\ loop' = "ticker"
  /\ UNCHANGED <<streams, used, mu, step, polled, ticker, history>>

-----------------------------------------------------------------------------
(* eth_getFilterChanges *)

\* The filter after its timer was reset, at the beginning of a poll.
Reset(id) ==
  /\ filters' = [filters EXCEPT ![id].timer = [@ EXCEPT !.left = Deadline]]
  /\ step' = "read"
  /\ idle' = [idle EXCEPT ![id] = 0]

\* A mutant of GetFilterChanges: the channel of an expired timer is not drained.
NeverDrains(id) ==
  /\ mu = Nil /\ id \in Installed
  /\ mu' = id /\ polled' = << >>
  /\ Reset(id)
  /\ UNCHANGED <<streams, used, ticker, loop, start, got, overrun>>

\* Stop succeeds on an active timer; otherwise its value must be received.
GetFilterChanges(id) ==
  /\ mu = Nil /\ id \in Installed
  /\ mu' = id /\ polled' = << >>
  /\ IF filters[id].timer.left # Off THEN Reset(id)
     ELSE step' = "receive" /\ UNCHANGED <<filters, idle>>
  /\ UNCHANGED <<streams, used, ticker, loop, start, got, overrun>>

\* The value of the expired timer is taken out, then the timer reset.
Receive(id) ==
  /\ mu = id /\ step = "receive" /\ filters[id].timer.fired
  /\ filters' = [filters EXCEPT ![id].timer = Active]
  /\ step' = "read"
  /\ idle' = [idle EXCEPT ![id] = 0]
  /\ UNCHANGED <<streams, used, mu, polled, ticker, loop, start, got, overrun>>

\* What a read of filter id leaves.
Reads(id, read) ==
  /\ filters' = [filters EXCEPT ![id].offset = read.last]
  /\ overrun' = [overrun EXCEPT ![id] = @ \/ filters[id].offset \div SegmentSize < streams[filters[id].typ].buffer.offset]

\* The call returns items.
Return(id, items) ==
  /\ got' = [got EXCEPT ![id] = @ \o items]
  /\ mu' = Nil /\ step' = "none" /\ polled' = << >>

\* Block and pending filters read everything in one critical section of the stream.
PollAll(id) ==
  /\ mu = id /\ step = "read" /\ filters[id].typ # "logs"
  /\ LET read == ReadAll(streams[filters[id].typ].buffer, filters[id].offset)
     IN  /\ Reads(id, read)
         /\ Return(id, read.items)
  /\ UNCHANGED <<streams, used, ticker, loop, idle, start>>

\* A mutant of ReadChunk: a chunk replaces what was read before.
KeepsLastChunk(id) ==
  /\ mu = id /\ step = "read" /\ filters[id].typ = "logs"
  /\ LET read == DoRead(streams["logs"].buffer, filters[id].offset)
         logs == SelectSeq(read.items, LAMBDA n : Matches(LogOf[n], filters[id].crit))
     IN  /\ Reads(id, read)
         /\ IF read.items = << >> THEN Return(id, polled)
            ELSE polled' = logs /\ UNCHANGED <<mu, step, got>>
  /\ UNCHANGED <<streams, used, ticker, loop, idle, start>>

\* Log filters read a chunk at a time until one is empty, and keep what matches.
ReadChunk(id) ==
  /\ mu = id /\ step = "read" /\ filters[id].typ = "logs"
  /\ LET read == DoRead(streams["logs"].buffer, filters[id].offset)
         logs == SelectSeq(read.items, LAMBDA n : Matches(LogOf[n], filters[id].crit))
     IN  /\ Reads(id, read)
         /\ IF read.items = << >> THEN Return(id, polled)
            ELSE polled' = polled \o logs /\ UNCHANGED <<mu, step, got>>
  /\ UNCHANGED <<streams, used, ticker, loop, idle, start>>

-----------------------------------------------------------------------------

Init ==
  /\ streams = [t \in Types |-> [buffer |-> Empty, added |-> 0]]
  /\ filters = [id \in Ids |-> Nil]
  /\ used = {} /\ mu = Nil /\ step = "none" /\ polled = << >>
  /\ ticker = Active /\ loop = "ticker"
  /\ idle = [id \in Ids |-> 0]
  /\ start = [id \in Ids |-> 0] /\ got = [id \in Ids |-> << >>] /\ overrun = [id \in Ids |-> FALSE]

Poll(id) == Receive(id) \/ PollAll(id) \/ ReadChunk(id)

Next ==
  \/ Tick \/ LoopReceives \/ LoopDeletes
  \/ \E t \in Types : Publish(t)
  \/ \E id \in Ids :
       \/ \E t \in Types, crit \in Criteria : NewFilter(id, t, crit)
       \/ UninstallFilter(id) \/ TimerFires(id) \/ GetFilterChanges(id) \/ Poll(id)

\* Time passes, the runtime fires timers, and the goroutines that are not
\* blocked go on.  Clients owe nothing.
Fairness ==
  /\ WF_vars(Tick) /\ WF_vars(LoopReceives) /\ SF_vars(LoopDeletes)
  /\ \A id \in Ids : WF_vars(TimerFires(id)) /\ WF_vars(Poll(id))

Spec == Init /\ [][Next]_vars /\ Fairness

-----------------------------------------------------------------------------
(* Properties *)

\* Types; in particular there are never more filters than FilterCap, and a
\* poll holds the mutex only for an installed filter.
TypeOK ==
  /\ Cardinality(Installed) <= FilterCap /\ Installed \subseteq used
  /\ mu \in Installed \cup {Nil} /\ step \in {"none", "receive", "read"}
  /\ (mu = Nil) = (step = "none")
  /\ loop \in {"ticker", "lock"}
  /\ \A id \in Installed : filters[id].timer.left \in Off..Deadline /\ filters[id].timer.fired \in BOOLEAN

\* A poll that found its timer expired never waits for a value that someone
\* else has received: it would hold the mutex for ever, and no filter could
\* be made, polled or removed again.
NeverBlocks == step = "receive" => filters[mu].timer.fired

\* "consider a filter inactive if it has not been polled for within deadline":
\* the timeout loop never removes a filter that was made or polled less than
\* Deadline ago, although old values of its timer may be waiting.
RemovesOnlyInactive ==
  [][LoopDeletes => \A id \in Installed : filters'[id] = Nil => idle[id] >= Deadline]_vars

\* A filter that is not polled any more is removed in the end.
InactiveRemoved == \A id \in Ids : []<>(filters[id] = Nil \/ idle[id] = 0)

\* The buffers that filters share are well formed across all pruning, so that
\* the offsets filters keep go on denoting the same items.
StreamsWellFormed == \A t \in Types : WellFormed(streams[t].buffer, streams[t].added)

\* The items of a filter's stream that it must have returned when it is not
\* being polled: those after its start up to its offset that match.
Owed(id) ==
  SelectSeq([k \in 1..(filters[id].offset - start[id]) |-> start[id] + k],
            LAMBDA n : filters[id].typ = "logs" => Matches(LogOf[n], filters[id].crit))

\* Polls return every matching item exactly once and in order, whatever is
\* published meanwhile, unless the filter was overrun.
PollsReturnAll ==
  \A id \in Installed : mu # id /\ ~ overrun[id] => got[id] = Owed(id)
=============================================================================
