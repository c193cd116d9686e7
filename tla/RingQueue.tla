----------------------------- MODULE RingQueue -----------------------------
(***************************************************************************)
(* The ring buffer of rpc/stream/queue.go as a value: buf holds the slots, *)
(* whose positions start at 0 in the code, head and tail are positions and *)
(* count is the number of elements.  Positions wrap by a bitwise and,      *)
(* which is a modulus only while the length is a power of 2.               *)
(***************************************************************************)
EXTENDS Integers, Sequences, Bitwise

CONSTANTS MinQueueLen, \* minQueueLen
          Free         \* the zero value of a slot

ASSUME RingQueueAssumption == MinQueueLen \in {2, 4, 8, 16}

NewQueue == [buf |-> [i \in 1..MinQueueLen |-> Free], head |-> 0, tail |-> 0, count |-> 0]

Wrap(q, i) == i & (Len(q.buf) - 1)

\* A mutant of Resize: room for one more element.
ResizesByOne(q) ==
  LET kept == IF q.tail > q.head THEN SubSeq(q.buf, q.head + 1, q.tail)
              ELSE SubSeq(q.buf, q.head + 1, Len(q.buf)) \o SubSeq(q.buf, 1, q.tail)
  IN  [buf |-> [i \in 1..(q.count + 1) |-> IF i <= Len(kept) THEN kept[i] ELSE Free],
       head |-> 0, tail |-> q.count, count |-> q.count]

\* resize: a buffer of twice the contents, which are copied to its front.
Resize(q) ==
  LET kept == IF q.tail > q.head THEN SubSeq(q.buf, q.head + 1, q.tail)
              ELSE SubSeq(q.buf, q.head + 1, Len(q.buf)) \o SubSeq(q.buf, 1, q.tail)
  IN  [buf |-> [i \in 1..(2 * q.count) |-> IF i <= Len(kept) THEN kept[i] ELSE Free],
       head |-> 0, tail |-> q.count, count |-> q.count]

AddTo(q, elem) ==
  LET r == IF q.count = Len(q.buf) THEN Resize(q) ELSE q
  IN  [buf |-> [r.buf EXCEPT ![r.tail + 1] = elem], head |-> r.head,
       tail |-> Wrap(r, r.tail + 1), count |-> r.count + 1]

\* Remove of a queue that is not empty; the buffer shrinks when it is a quarter full.
RemoveFrom(q) ==
  LET r == [q EXCEPT !.head = Wrap(q, q.head + 1), !.count = @ - 1]
  IN  IF Len(q.buf) > MinQueueLen /\ 4 * r.count = Len(q.buf) THEN Resize(r) ELSE r

\* GetP of an index in range, counted from 0 at the front or from -1 at the back.
GetP(q, i) == q.buf[Wrap(q, q.head + (IF i < 0 THEN i + q.count ELSE i)) + 1]
=============================================================================
