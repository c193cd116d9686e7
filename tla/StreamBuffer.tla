---------------------------- MODULE StreamBuffer ----------------------------
(***************************************************************************)
(* The segmented buffer of rpc/stream/stream.go as a value: its segments,  *)
(* the oldest first, and offset, the number of segments pruned.  An item   *)
(* is represented by its id (the first one added has id 1).                *)
(***************************************************************************)
EXTENDS Integers, Sequences

CONSTANTS SegmentSize, Capacity

ASSUME BufferAssumption == SegmentSize \in Nat \ {0} /\ Capacity \in Nat \ {0}

MaxSegments == (Capacity + SegmentSize - 1) \div SegmentSize

Empty == [segments |-> << >>, offset |-> 0]

\* lastID: the id of the last item, 0 for an empty stream.
LastID(b) ==
  IF b.segments = << >> THEN 0
  ELSE (b.offset + Len(b.segments) - 1) * SegmentSize + Len(b.segments[Len(b.segments)])

\* The index in the segments that an offset is read from.
SegmentOf(b, off) ==
  IF off \div SegmentSize >= b.offset THEN (off \div SegmentSize) - b.offset + 1 ELSE 1

\* A mutant of DoRead: the id after the chunk is computed from the items read.
CountsItems(b, off) ==
  LET seg == b.segments[SegmentOf(b, off)]
  IN  IF b.segments = << >> \/ off < 0 \/ SegmentOf(b, off) > Len(b.segments) \/ off % SegmentSize >= Len(seg)
      THEN [items |-> << >>, last |-> LastID(b)]
      ELSE [items |-> SubSeq(seg, (off % SegmentSize) + 1, Len(seg)),
            last  |-> (b.offset + SegmentOf(b, off) - 1) * SegmentSize + Len(seg) - (off % SegmentSize)]

\* A mutant of DoRead: the end of the segment is met one item too early.
StopsEarly(b, off) ==
  LET seg == b.segments[SegmentOf(b, off)]
  IN  IF b.segments = << >> \/ off < 0 \/ SegmentOf(b, off) > Len(b.segments) \/ off % SegmentSize >= Len(seg) - 1
      THEN [items |-> << >>, last |-> LastID(b)]
      ELSE [items |-> SubSeq(seg, (off % SegmentSize) + 1, Len(seg)),
            last  |-> (b.offset + SegmentOf(b, off) - 1) * SegmentSize + Len(seg)]

\* doRead: a chunk of at most one segment and the id of its last item, or no
\* items and the id of the last item of the stream.  (An offset is an id that a
\* read or LastID returned.  It is never beyond the tail, where the code would
\* slice a segment out of range.)
DoRead(b, off) ==
  LET seg == b.segments[SegmentOf(b, off)]
  IN  IF b.segments = << >> \/ off < 0 \/ SegmentOf(b, off) > Len(b.segments) \/ off % SegmentSize >= Len(seg)
      THEN [items |-> << >>, last |-> LastID(b)]
      ELSE [items |-> SubSeq(seg, (off % SegmentSize) + 1, Len(seg)),
            last  |-> (b.offset + SegmentOf(b, off) - 1) * SegmentSize + Len(seg)]

\* ReadAllNonBlocking: reads until a read returns nothing.  The first chunk
\* reaches to the end of its segment, so each further one is a whole segment.
ReadAll(b, off) ==
  LET chunk == DoRead(b, off)
      upTo[n \in SegmentOf(b, off)..Len(b.segments)] ==
        IF n = SegmentOf(b, off) THEN chunk.items ELSE upTo[n - 1] \o b.segments[n]
  IN  IF chunk.items = << >> THEN chunk
      ELSE [items |-> upTo[Len(b.segments)], last |-> LastID(b)]

\* A fresh tail segment; the oldest one is dropped when there are more than MaxSegments.
Grow(b) ==
  IF Len(b.segments) > MaxSegments
  THEN [segments |-> Append(Tail(b.segments), << >>), offset |-> b.offset + 1]
  ELSE [segments |-> Append(b.segments, << >>), offset |-> b.offset]

\* Add of one item.
Push(b, v) ==
  LET room == IF b.segments = << >> \/ Len(b.segments[Len(b.segments)]) = SegmentSize THEN Grow(b) ELSE b
      n    == Len(room.segments)
  IN  [segments |-> [room.segments EXCEPT ![n] = Append(@, v)], offset |-> room.offset]

-----------------------------------------------------------------------------

\* What the arithmetic of lastID and doRead rests on, for a buffer to which n
\* items were added: every segment but the tail is full, the item at a
\* position has the id of that position across all pruning, the last id is
\* the number of items added, and no more than MaxSegments + 1 segments are kept.
WellFormed(b, n) ==
  /\ Len(b.segments) <= MaxSegments + 1
  /\ \A s \in 1..Len(b.segments) :
       /\ Len(b.segments[s]) \in 1..SegmentSize
       /\ s < Len(b.segments) => Len(b.segments[s]) = SegmentSize
       /\ \A i \in 1..Len(b.segments[s]) : b.segments[s][i] = (b.offset + s - 1) * SegmentSize + i
  /\ LastID(b) = n /\ (b.segments = << >> => b.offset = 0)
=============================================================================
