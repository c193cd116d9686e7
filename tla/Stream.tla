------------------------------- MODULE Stream -------------------------------
(***************************************************************************)
(* The in-memory event stream of rpc/stream behind the websocket           *)
(* subscriptions and the polling filters: the buffer of StreamBuffer, the  *)
(* ring queue that holds its segments, readers that follow it by offset,   *)
(* and a condition variable made of a channel that Add closes and          *)
(* replaces.  Critical sections of the RWMutex and of Cond.mu contain no   *)
(* blocking call, so each is one atomic step.                              *)
(***************************************************************************)
EXTENDS SequencesExt, StreamBuffer, RingQueue

CONSTANTS Subscribers,       \* goroutines in Subscribe
          Pollers,           \* clients of ReadNonBlocking and ReadAllNonBlocking
          MaxItems, MaxBatch \* bounds on the run

ASSUME StreamAssumption ==
  /\ MaxItems \in Nat /\ MaxBatch \in Nat
  /\ Subscribers \cap Pollers = {}

Readers == Subscribers \cup Pollers

VARIABLES segments, segmentOffset, \* the buffer and the number of pruned segments
          queue,     \* the ring that holds the segments, each as its number
          ch,        \* Cond.ch, as the number of channels closed so far
          added,     \* history: number of items ever added
          pc,        \* idle, reading, gap, waiting, callback, stopped
          offset,    \* the last id reported to the reader
          waitCh,    \* the channel a subscriber waits on
          cancelled, \* whether the context of a subscriber is done
          start,     \* history: the offset a reader began from
          got,       \* history: ids handed to a reader
          overrun    \* history: whether a reader's segment was pruned when it read

streamVars == <<segments, segmentOffset, queue, ch, added>>
readerVars == <<pc, offset, waitCh, cancelled, start, got, overrun>>
vars == <<segments, segmentOffset, queue, ch, added, pc, offset, waitCh, cancelled, start, got, overrun>>

Buffer == [segments |-> segments, offset |-> segmentOffset]

-----------------------------------------------------------------------------
(* Adding items *)

\* The queue when segment s is begun: the oldest one is reused when there
\* are more than MaxSegments.
StoreSegment(q, s) == AddTo(IF q.count > MaxSegments THEN RemoveFrom(q) ELSE q, s)

Add(n) ==
  /\ added + n <= MaxItems
  /\ LET b     == FoldLeft(Push, Buffer, [i \in 1..n |-> added + i])
         begun == segmentOffset + Len(segments)
     IN  /\ segments' = b.segments /\ segmentOffset' = b.offset
         /\ queue' = FoldLeft(StoreSegment, queue,
                              [i \in 1..(b.offset + Len(b.segments) - begun) |-> begun + i])
  /\ added' = added + n
  /\ ch' = ch + 1
  /\ UNCHANGED readerVars

-----------------------------------------------------------------------------
(* Subscribe and ReadBlocking *)

Subscribe(r) ==
  /\ pc[r] = "idle"
  /\ pc' = [pc EXCEPT ![r] = "reading"]
  /\ UNCHANGED <<streamVars, offset, waitCh, cancelled, start, got, overrun>>

\* What a read leaves in the history of the reader.
Record(r, read) ==
  /\ offset' = [offset EXCEPT ![r] = read.last]
  /\ start' = IF offset[r] < 0 THEN [start EXCEPT ![r] = read.last] ELSE start
  /\ got' = [got EXCEPT ![r] = @ \o read.items]
  /\ overrun' = [overrun EXCEPT ![r] = @ \/ (offset[r] >= 0 /\ offset[r] \div SegmentSize < segmentOffset)]

\* One turn of ReadBlocking's loop under the read lock.
Read(r) ==
  /\ pc[r] = "reading"
  /\ Record(r, DoRead(Buffer, offset[r]))
  /\ pc' = [pc EXCEPT ![r] = IF DoRead(Buffer, offset[r]).items = <<>> THEN "gap" ELSE "callback"]
  /\ UNCHANGED <<streamVars, waitCh, cancelled>>

\* The callback, which may fail and end the subscription.
Callback(r) ==
  /\ pc[r] = "callback"
  /\ \E next \in {"reading", "stopped"} : pc' = [pc EXCEPT ![r] = next]
  /\ UNCHANGED <<streamVars, offset, waitCh, cancelled, start, got, overrun>>

\* After RUnlock: Cond.Wait fetches the current channel.
EnterWait(r) ==
  /\ pc[r] = "gap"
  /\ pc' = [pc EXCEPT ![r] = "waiting"]
  /\ waitCh' = [waitCh EXCEPT ![r] = ch]
  /\ UNCHANGED <<streamVars, offset, cancelled, start, got, overrun>>

\* A mutant of Wake: the subscriber waits again without reading.
WaitsAgain(r) ==
  /\ pc[r] = "waiting"
  /\ waitCh[r] # ch
  /\ pc' = [pc EXCEPT ![r] = "gap"]
  /\ UNCHANGED <<streamVars, offset, waitCh, cancelled, start, got, overrun>>

Wake(r) ==
  /\ pc[r] = "waiting"
  /\ waitCh[r] # ch
  /\ pc' = [pc EXCEPT ![r] = "reading"]
  /\ UNCHANGED <<streamVars, offset, waitCh, cancelled, start, got, overrun>>

CtxDone(r) ==
  /\ pc[r] = "waiting"
  /\ cancelled[r]
  /\ pc' = [pc EXCEPT ![r] = "stopped"]
  /\ UNCHANGED <<streamVars, offset, waitCh, cancelled, start, got, overrun>>

\* The client unsubscribes or its connection closes.
Cancel(r) ==
  /\ ~ cancelled[r]
  /\ cancelled' = [cancelled EXCEPT ![r] = TRUE]
  /\ UNCHANGED <<streamVars, pc, offset, waitCh, start, got, overrun>>

-----------------------------------------------------------------------------
(* Polling *)

\* One chunk (offset -1 to find the end of the stream), or all there is.
ReadNonBlocking(r) ==
  /\ Record(r, DoRead(Buffer, offset[r]))
  /\ UNCHANGED <<streamVars, pc, waitCh, cancelled>>

ReadAllNonBlocking(r) ==
  /\ offset[r] >= 0
  /\ Record(r, ReadAll(Buffer, offset[r]))
  /\ UNCHANGED <<streamVars, pc, waitCh, cancelled>>

-----------------------------------------------------------------------------

Init ==
  /\ segments = <<>> /\ segmentOffset = 0 /\ queue = NewQueue /\ ch = 0 /\ added = 0
  /\ pc = [r \in Readers |-> "idle"]
  /\ offset = [r \in Readers |-> -1]
  /\ waitCh = [r \in Readers |-> 0]
  /\ cancelled = [r \in Readers |-> FALSE]
  /\ start = [r \in Readers |-> -1]
  /\ got = [r \in Readers |-> <<>>]
  /\ overrun = [r \in Readers |-> FALSE]

Next ==
  \/ \E n \in 1..MaxBatch : Add(n)
  \/ \E r \in Subscribers :
       \/ Subscribe(r) \/ Read(r) \/ Callback(r) \/ EnterWait(r) \/ Wake(r) \/ CtxDone(r) \/ Cancel(r)
  \/ \E r \in Pollers : ReadNonBlocking(r) \/ ReadAllNonBlocking(r)

\* A subscribed goroutine keeps running; Go's select picks a ready case at
\* random, so a context that stays done is not passed over for ever.
Fairness ==
  \A r \in Subscribers :
    /\ WF_vars(Read(r) \/ Callback(r) \/ EnterWait(r) \/ Wake(r))
    /\ SF_vars(CtxDone(r))

Spec == Init /\ [][Next]_vars /\ Fairness

-----------------------------------------------------------------------------
(* Properties *)

\* The ring queue holds the segments in their order, seen from both ends, at
\* every growth and with its head anywhere; its length stays a power of 2,
\* which the bitwise modulus needs.
QueueHoldsSegments ==
  /\ queue.count = Len(segments)
  /\ \A i \in 0..(queue.count - 1) : GetP(queue, i) = segmentOffset + i + 1
  /\ \A i \in (-queue.count)..(-1) : GetP(queue, i) = segmentOffset + Len(segments) + i + 1
  /\ \A i \in 0..(2 * Len(queue.buf)) : Wrap(queue, i) = i % Len(queue.buf)

\* A reader receives ids in increasing order and none twice; one that was
\* never overrun has received every item from where it began up to its offset.
ReceivedInOrder ==
  \A r \in Readers :
    /\ \A i, j \in 1..Len(got[r]) : i < j => got[r][i] < got[r][j]
    /\ \A i \in 1..Len(got[r]) : got[r][i] \in (start[r] + 1)..offset[r]
    /\ ~ overrun[r] => Len(got[r]) = offset[r] - start[r]

\* A reader that is behind gets something from its next read (the slice
\* expression of doRead is in range), beginning with the item after its
\* offset.  If its segment was pruned doRead goes to the earliest segment but
\* keeps the position inside it: less than a segment of what is still in the
\* stream is passed over, and nothing if the reader stood at the end of a
\* segment.
ReadsOn ==
  \A r \in Readers :
    offset[r] >= 0 /\ offset[r] < LastID(Buffer) =>
      LET read   == DoRead(Buffer, offset[r])
          pruned == segmentOffset * SegmentSize
      IN  /\ read.items # <<>> /\ read.last <= LastID(Buffer)
          /\ Head(read.items) = IF offset[r] < pruned THEN pruned + 1 + (offset[r] % SegmentSize)
                                ELSE offset[r] + 1

\* A subscriber whose channel was closed by Add goes on to read at least up
\* to what the stream held then, unless it stops.
SignalledCatchesUp ==
  \A r \in Subscribers : \A n \in 1..MaxItems :
    (pc[r] = "waiting" /\ waitCh[r] # ch /\ LastID(Buffer) = n) ~> (offset[r] >= n \/ pc[r] = "stopped")

\* Every item added after a subscriber found the end of the stream is
\* eventually delivered to it, as TestStreamReadBlocking expects.
EventuallyDelivered ==
  \A r \in Subscribers : \A n \in 1..MaxItems :
    (pc[r] \in {"gap", "waiting"} /\ LastID(Buffer) = n) ~> (offset[r] >= n \/ pc[r] = "stopped")
=============================================================================
