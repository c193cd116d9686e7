--------------------------- MODULE FiltersProofs ---------------------------
(***************************************************************************)
(* Proofs about the buffer of rpc/stream/stream.go for every segment size  *)
(* and capacity, and about Filters, which reads such buffers, for any ids, *)
(* deadline and cap.  Add keeps a buffer well formed, and doRead of a      *)
(* reader that was not overrun returns the ids that follow its offset,     *)
(* without a gap.  A poll never waits for a timer value that was already   *)
(* taken, and the timeout loop removes only filters that were not polled   *)
(* for the deadline, whatever the streams hold.  Both rest on how a        *)
(* timer's countdown, its channel and the time since the last poll go      *)
(* together.                                                               *)
(***************************************************************************)
EXTENDS Filters, TLAPS, FiniteSetTheorems

-----------------------------------------------------------------------------
(* The buffer of a stream *)

\* A buffer as a value.
Buffers == [segments : Seq(Seq(Nat)), offset : Nat]

LEMMA MaxSegmentsType == MaxSegments \in Nat \ {0}
<1>1. Capacity + SegmentSize - 1 \in Nat /\ Capacity + SegmentSize - 1 >= SegmentSize
  BY BufferAssumption
<1>2. \A x \in Nat : x >= SegmentSize => x \div SegmentSize \in Nat \ {0}
  BY BufferAssumption
<1>. QED
  BY <1>1, <1>2 DEF MaxSegments

\* A sequence that is not empty has a last index.
LEMMA LenPositive ==
  ASSUME NEW T, NEW R \in Seq(T), R # << >>
  PROVE  Len(R) \in Nat \ {0} /\ Len(R) \in 1..Len(R)
OBVIOUS

\* Another last segment for a sequence of segments.
WithLast(R, e) == [R EXCEPT ![Len(R)] = e]

\* A function from 1..n is a sequence of length n.
LEMMA AsSequence ==
  ASSUME NEW n \in Nat, NEW X, NEW S \in [1..n -> X]
  PROVE  S \in Seq(X) /\ Len(S) = n
<1>1. S \in Seq(X)
  OBVIOUS
<1>. QED
  BY <1>1

\* Replacing the last segment.
LEMMA PutLast ==
  ASSUME NEW R \in Seq(Seq(Nat)), R # << >>, NEW e \in Seq(Nat)
  PROVE  /\ WithLast(R, e) \in Seq(Seq(Nat)) /\ Len(WithLast(R, e)) = Len(R) /\ WithLast(R, e)[Len(R)] = e
         /\ \A s \in 1..(Len(R) - 1) : WithLast(R, e)[s] = R[s]
<1>. DEFINE P == WithLast(R, e)
<1>1. Len(R) \in 1..Len(R) /\ Len(R) \in Nat
  BY SMTT(30), Z3T(30)
<1>2. /\ P \in Seq(Seq(Nat)) /\ Len(P) = Len(R)
      /\ \A j \in 1..Len(R) : P[j] = IF j = Len(R) THEN e ELSE R[j]
  <2>1. /\ P \in [1..Len(R) -> Seq(Nat)]
        /\ \A j \in 1..Len(R) : P[j] = IF j = Len(R) THEN e ELSE R[j]
    BY <1>1 DEF WithLast
  <2>. HIDE DEF P
  <2>2. P \in Seq(Seq(Nat)) /\ Len(P) = Len(R)
    BY Zenon, <1>1, <2>1, AsSequence
  <2>. QED
    BY Zenon, <2>1, <2>2
<1>. HIDE DEF P
<1>3. P[Len(R)] = e
  BY Zenon, <1>1, <1>2
<1>4. ASSUME NEW s \in 1..(Len(R) - 1) PROVE P[s] = R[s]
  <2>1. s \in 1..Len(R) /\ s # Len(R)
    BY <1>1
  <2>. QED
    BY <1>2, <2>1, Zenon
<1>. QED
  BY <1>2, <1>3, <1>4 DEF P

\* The ids of the items of segment s, when the oldest segment has index o.
Filled(seg, o, s) ==
  /\ Len(seg) \in 1..SegmentSize
  /\ \A i \in 1..Len(seg) : seg[i] = (o + s - 1) * SegmentSize + i

\* Well-formedness of a buffer that holds something, in terms of Filled.
LEMMA WellFormedNonempty ==
  ASSUME NEW b, b \in Buffers, NEW n \in Nat, b.segments # << >>
  PROVE  WellFormed(b, n) <=>
           /\ Len(b.segments) <= MaxSegments + 1
           /\ \A s \in 1..Len(b.segments) :
                Filled(b.segments[s], b.offset, s) /\ (s < Len(b.segments) => Len(b.segments[s]) = SegmentSize)
           /\ n = (b.offset + Len(b.segments) - 1) * SegmentSize + Len(b.segments[Len(b.segments)])
<1>1. b.segments \in Seq(Seq(Nat))
  BY DEF Buffers
<1>2. LastID(b) = (b.offset + Len(b.segments) - 1) * SegmentSize + Len(b.segments[Len(b.segments)])
  BY <1>1 DEF LastID
<1>3. WellFormed(b, n) <=>
        /\ Len(b.segments) <= MaxSegments + 1
        /\ \A s \in 1..Len(b.segments) :
             Filled(b.segments[s], b.offset, s) /\ (s < Len(b.segments) => Len(b.segments[s]) = SegmentSize)
        /\ LastID(b) = n
  BY Zenon DEF WellFormed, Filled
<1>. QED
  BY <1>2, <1>3, Zenon

\* Division by a positive number.
LEMMA DivModK ==
  ASSUME NEW x \in Nat, NEW k \in Nat, k > 0
  PROVE  x \div k \in Nat /\ x % k \in 0..(k - 1) /\ x = k * (x \div k) + (x % k)
<1>1. x = k * (x \div k) + (x % k)
  BY Z3
<1>. QED
  BY <1>1

\* The segment and the position in it that an offset stands for.
LEMMA DivMod ==
  ASSUME NEW x \in Nat
  PROVE  /\ x \div SegmentSize \in Nat /\ x % SegmentSize \in 0..(SegmentSize - 1)
         /\ x = SegmentSize * (x \div SegmentSize) + (x % SegmentSize)
  BY DivModK, BufferAssumption

\* A product grows with its factor by whole segments.
LEMMA Whole ==
  ASSUME NEW i \in Nat, NEW j \in Nat, i < j
  PROVE  (i + 1) * SegmentSize <= j * SegmentSize /\ (i + 1) * SegmentSize = i * SegmentSize + SegmentSize
  BY BufferAssumption

\* A new segment for item n + 1 after the full segments T, of which the first has index o.
LEMMA NewSegment ==
  ASSUME NEW T \in Seq(Seq(Nat)), NEW o \in Nat, NEW n \in Nat, NEW P \in Seq(Seq(Nat)),
         \A s \in 1..Len(T) : Filled(T[s], o, s) /\ Len(T[s]) = SegmentSize,
         n = (o + Len(T)) * SegmentSize,
         Len(P) = Len(T) + 1, P[Len(T) + 1] = <<n + 1>>, \A s \in 1..Len(T) : P[s] = T[s]
  PROVE  /\ \A s \in 1..Len(P) : Filled(P[s], o, s) /\ (s < Len(P) => Len(P[s]) = SegmentSize)
         /\ n + 1 = (o + Len(P) - 1) * SegmentSize + Len(P[Len(P)])
<1>1. Len(T) \in Nat /\ Len(<<n + 1>>) = 1 /\ <<n + 1>>[1] = n + 1
  OBVIOUS
<1>2. o + (Len(T) + 1) - 1 = o + Len(T)
  BY <1>1
<1>3. Filled(<<n + 1>>, o, Len(T) + 1)
  BY <1>1, <1>2, BufferAssumption DEF Filled
<1>4. \A s \in 1..Len(P) : s = Len(T) + 1 \/ (s \in 1..Len(T) /\ s < Len(P))
  BY <1>1
<1>5. ~ (Len(T) + 1 < Len(P))
  BY <1>1
<1>6. n + 1 = (o + Len(P) - 1) * SegmentSize + Len(P[Len(P)])
  BY <1>1, <1>2
<1>. QED
  BY <1>3, <1>4, <1>5, <1>6, Zenon

\* A buffer put together from segments that fit.
LEMMA FromSegments ==
  ASSUME NEW P \in Seq(Seq(Nat)), P # << >>, NEW o \in Nat, NEW n \in Nat, Len(P) <= MaxSegments + 1,
         \A s \in 1..Len(P) : Filled(P[s], o, s) /\ (s < Len(P) => Len(P[s]) = SegmentSize),
         n = (o + Len(P) - 1) * SegmentSize + Len(P[Len(P)])
  PROVE  /\ [segments |-> P, offset |-> o] \in Buffers
         /\ WellFormed([segments |-> P, offset |-> o], n)
<1>1. PICK b : b = [segments |-> P, offset |-> o]
  BY Zenon
<1>2. b.segments = P /\ b.offset = o /\ b \in Buffers
  BY <1>1 DEF Buffers
<1>3. WellFormed(b, n)
  BY <1>2, WellFormedNonempty, Zenon
<1>. QED
  BY <1>1, <1>2, <1>3

\* Item n + 1 in a segment of its own after the full segments T.
LEMMA PushNew ==
  ASSUME NEW T \in Seq(Seq(Nat)), NEW o \in Nat, NEW n \in Nat,
         \A s \in 1..Len(T) : Filled(T[s], o, s) /\ Len(T[s]) = SegmentSize,
         n = (o + Len(T)) * SegmentSize, Len(T) <= MaxSegments,
         NEW R, R = Append(T, << >>),
         NEW P, P = [R EXCEPT ![Len(R)] = Append(@, n + 1)]
  PROVE  /\ [segments |-> P, offset |-> o] \in Buffers
         /\ WellFormed([segments |-> P, offset |-> o], n + 1)
<1>1. /\ R \in Seq(Seq(Nat)) /\ R # << >> /\ Len(R) = Len(T) + 1 /\ R[Len(R)] = << >> /\ Len(T) \in Nat
      /\ \A s \in 1..Len(T) : R[s] = T[s]
  OBVIOUS
<1>2. Append(R[Len(R)], n + 1) = <<n + 1>> /\ <<n + 1>> \in Seq(Nat)
  <2>1. Append(<< >>, n + 1) = <<n + 1>> /\ <<n + 1>> \in Seq(Nat)
    OBVIOUS
  <2>. QED
    BY <1>1, <2>1, Zenon
<1>3. /\ P \in Seq(Seq(Nat)) /\ Len(P) = Len(R) /\ P[Len(R)] = <<n + 1>>
      /\ \A s \in 1..(Len(R) - 1) : P[s] = R[s]
  <2>1. P = WithLast(R, <<n + 1>>)
    BY <1>2, Zenon DEF WithLast
  <2>. QED
    BY ONLY <1>1, <1>2, <2>1, PutLast, Zenon
<1>4. P[Len(T) + 1] = <<n + 1>> /\ Len(R) - 1 = Len(T)
  BY <1>1, <1>3
<1>5. \A s \in 1..Len(T) : P[s] = T[s]
  BY <1>1, <1>3, <1>4, Zenon
<1>6. Len(P) = Len(T) + 1 /\ Len(P) <= MaxSegments + 1 /\ P # << >>
  BY <1>1, <1>3, MaxSegmentsType
<1>7. /\ \A s \in 1..Len(P) : Filled(P[s], o, s) /\ (s < Len(P) => Len(P[s]) = SegmentSize)
      /\ n + 1 = (o + Len(P) - 1) * SegmentSize + Len(P[Len(P)])
  BY ONLY T \in Seq(Seq(Nat)), o \in Nat, n \in Nat, n = (o + Len(T)) * SegmentSize,
          \A s \in 1..Len(T) : Filled(T[s], o, s) /\ Len(T[s]) = SegmentSize,
          <1>3, <1>4, <1>5, <1>6, NewSegment, Zenon
<1>8. n + 1 \in Nat
  OBVIOUS
<1>. QED
  BY Zenon, <1>3, <1>6, <1>7, <1>8, FromSegments

\* Item n + 1 in the last segment, which has room.
LEMMA PushRoom ==
  ASSUME NEW S \in Seq(Seq(Nat)), S # << >>, NEW o \in Nat, NEW n \in Nat, Len(S) <= MaxSegments + 1,
         \A s \in 1..Len(S) : Filled(S[s], o, s) /\ (s < Len(S) => Len(S[s]) = SegmentSize),
         n = (o + Len(S) - 1) * SegmentSize + Len(S[Len(S)]),
         Len(S[Len(S)]) # SegmentSize,
         NEW P, P = WithLast(S, Append(S[Len(S)], n + 1))
  PROVE  /\ [segments |-> P, offset |-> o] \in Buffers
         /\ WellFormed([segments |-> P, offset |-> o], n + 1)
<1>. DEFINE L == Len(S)
            seg == S[L]
            e == Append(seg, n + 1)
            base == (o + L - 1) * SegmentSize
<1>1. L \in Nat \ {0} /\ L \in 1..L /\ seg \in Seq(Nat) /\ Len(seg) \in Nat /\ ~ (L < L) /\ n + 1 \in Nat
  OBVIOUS
<1>2. /\ e \in Seq(Nat) /\ Len(e) = Len(seg) + 1 /\ e[Len(seg) + 1] = n + 1
      /\ \A i \in 1..Len(seg) : e[i] = seg[i]
  BY <1>1
<1>3. Filled(seg, o, L) /\ Len(seg) \in 1..SegmentSize /\ \A i \in 1..Len(seg) : seg[i] = base + i
  BY <1>1 DEF Filled
<1>4. base \in Int /\ n = base + Len(seg)
  BY <1>1, BufferAssumption
<1>. HIDE DEF e, base
<1>5. Filled(e, o, L)
  <2>1. Len(e) \in 1..SegmentSize
    BY <1>1, <1>2, <1>3, BufferAssumption
  <2>2. ASSUME NEW i \in 1..Len(e) PROVE e[i] = base + i
    <3>1. CASE i = Len(seg) + 1
      BY <1>1, <1>2, <1>4, <3>1
    <3>2. CASE i # Len(seg) + 1
      <4>1. i \in 1..Len(seg)
        BY SMTT(30), Z3T(30), <1>1, <1>2, <3>2
      <4>. QED
        BY <1>2, <1>3, <4>1
    <3>. QED
      BY <3>1, <3>2
  <2>. QED
    BY <2>1, <2>2 DEF Filled, base
<1>6. P \in Seq(Seq(Nat)) /\ Len(P) = L /\ P[L] = e /\ \A s \in 1..(L - 1) : P[s] = S[s]
  BY Zenon, <1>2, PutLast DEF e
<1>7. \A s \in 1..L : s = L \/ (s \in 1..(L - 1) /\ s < L)
  BY <1>1
<1>8. \A s \in 1..Len(P) : Filled(P[s], o, s) /\ (s < Len(P) => Len(P[s]) = SegmentSize)
  BY <1>1, <1>5, <1>6, <1>7, Zenon
<1>9. n + 1 = (o + Len(P) - 1) * SegmentSize + Len(P[Len(P)])
  <2>1. n + 1 = base + Len(e)
    BY <1>1, <1>2, <1>4
  <2>. QED
    BY <1>6, <2>1, Zenon DEF base
<1>10. P # << >> /\ Len(P) <= MaxSegments + 1
  BY <1>1, <1>6
<1>. QED
  BY ONLY <1>1, <1>6, <1>8, <1>9, <1>10, o \in Nat, FromSegments, Zenon

\* The segments that stay when a new one is begun are full, and their ids fit
\* the number of pruned segments.
LEMMA GrowKeeps ==
  ASSUME NEW b \in Buffers, NEW n \in Nat, WellFormed(b, n),
         b.segments = << >> \/ Len(b.segments[Len(b.segments)]) = SegmentSize
  PROVE  \E T \in Seq(Seq(Nat)), o \in Nat :
           /\ Grow(b) = [segments |-> Append(T, << >>), offset |-> o]
           /\ \A s \in 1..Len(T) : Filled(T[s], o, s) /\ Len(T[s]) = SegmentSize
           /\ n = (o + Len(T)) * SegmentSize /\ Len(T) <= MaxSegments
<1>. DEFINE S == b.segments
<1>1. S \in Seq(Seq(Nat)) /\ b.offset \in Nat /\ Len(S) \in Nat /\ MaxSegments \in Nat \ {0}
  BY MaxSegmentsType DEF Buffers
<1>2. CASE S = << >>
  <2>1. n = 0 /\ b.offset = 0 /\ Len(S) = 0
    BY <1>2 DEF WellFormed, LastID
  <2>2. ~ (Len(S) > MaxSegments) /\ 1..Len(S) = {} /\ n = (b.offset + Len(S)) * SegmentSize /\ Len(S) <= MaxSegments
    BY <1>1, <2>1, BufferAssumption
  <2>3. Grow(b) = [segments |-> Append(S, << >>), offset |-> b.offset]
    BY <2>2 DEF Grow
  <2>. QED
    BY <1>1, <2>2, <2>3, Zenon
<1>3. CASE S # << >>
  <2>1. /\ Len(S) <= MaxSegments + 1
        /\ \A s \in 1..Len(S) : Filled(S[s], b.offset, s) /\ (s < Len(S) => Len(S[s]) = SegmentSize)
        /\ n = (b.offset + Len(S) - 1) * SegmentSize + Len(S[Len(S)])
    BY <1>3, WellFormedNonempty, Zenon
  <2>2. Len(S[Len(S)]) = SegmentSize
    BY <1>3
  <2>3. \A s \in 1..Len(S) : Filled(S[s], b.offset, s) /\ Len(S[s]) = SegmentSize
    <3>1. \A s \in 1..Len(S) : s = Len(S) \/ s < Len(S)
      BY <1>1
    <3>. QED
      BY <2>1, <2>2, <3>1, Zenon
  <2>4. n = (b.offset + Len(S)) * SegmentSize
    <3>1. \A i \in Nat : i * SegmentSize + SegmentSize = (i + 1) * SegmentSize
      BY BufferAssumption
    <3>2. b.offset + Len(S) - 1 \in Nat /\ (b.offset + Len(S) - 1) + 1 = b.offset + Len(S)
      <4>1. Len(S) \in Nat \ {0} /\ b.offset \in Nat
        BY <1>1, <1>3, LenPositive, Zenon
      <4>2. \A l \in Nat \ {0}, o \in Nat : o + l - 1 \in Nat /\ (o + l - 1) + 1 = o + l
        OBVIOUS
      <4>. QED
        BY <4>1, <4>2, Zenon
    <3>. QED
      BY <2>1, <2>2, <3>1, <3>2, Zenon
  <2>5. CASE ~ (Len(S) > MaxSegments)
    <3>1. Grow(b) = [segments |-> Append(S, << >>), offset |-> b.offset] /\ Len(S) <= MaxSegments
      BY <1>1, <2>5 DEF Grow
    <3>. QED
      BY <1>1, <2>3, <2>4, <3>1, Zenon
  <2>6. CASE Len(S) > MaxSegments
    <3>. DEFINE T == Tail(S)
                o == b.offset + 1
    <3>1. Grow(b) = [segments |-> Append(T, << >>), offset |-> o]
      BY <2>6 DEF Grow
    <3>2. /\ T \in Seq(Seq(Nat)) /\ o \in Nat /\ Len(T) = Len(S) - 1 /\ Len(T) <= MaxSegments
          /\ \A s \in 1..Len(T) : s + 1 \in 1..Len(S) /\ T[s] = S[s + 1] /\ b.offset + (s + 1) - 1 = o + s - 1
      <4>1. T \in Seq(Seq(Nat)) /\ Len(T) = Len(S) - 1 /\ \A s \in 1..Len(T) : T[s] = S[s + 1]
        BY <1>1, <1>3
      <4>2. o \in Nat /\ Len(T) <= MaxSegments
        BY <1>1, <2>1, <4>1
      <4>3. \A s \in 1..Len(T) : s + 1 \in 1..Len(S) /\ b.offset + (s + 1) - 1 = o + s - 1
        BY <1>1, <4>1
      <4>. QED
        BY <4>1, <4>2, <4>3
    <3>3. o + Len(T) = b.offset + Len(S)
      <4>1. Len(T) = Len(S) - 1
        BY <3>2
      <4>2. \A x, y \in Nat : (x + 1) + (y - 1) = x + y
        OBVIOUS
      <4>. QED
        BY <1>1, <4>1, <4>2, ZenonT(60)
    <3>. HIDE DEF T, o
    <3>4. ASSUME NEW s \in 1..Len(T) PROVE Filled(T[s], o, s) /\ Len(T[s]) = SegmentSize
      <4>1. Filled(S[s + 1], b.offset, s + 1) /\ Len(S[s + 1]) = SegmentSize
        BY <2>3, <3>2, Zenon
      <4>2. Filled(S[s + 1], o, s)
        BY <3>2, <4>1, Zenon DEF Filled
      <4>. QED
        BY <3>2, <4>1, <4>2, Zenon
    <3>. QED
      BY <2>4, <3>1, <3>2, <3>3, <3>4, Zenon
  <2>. QED
    BY Zenon, <2>5, <2>6
<1>. QED
  BY Zenon, <1>2, <1>3

\* Add keeps the buffer well formed, at segment boundaries and when it prunes,
\* for every segment size and capacity.
THEOREM PushWellFormed ==
  ASSUME NEW b \in Buffers, NEW n \in Nat, WellFormed(b, n)
  PROVE  Push(b, n + 1) \in Buffers /\ WellFormed(Push(b, n + 1), n + 1)
<1>. DEFINE S == b.segments
<1>1. S \in Seq(Seq(Nat)) /\ b.offset \in Nat
  BY DEF Buffers
<1>2. CASE S = << >> \/ Len(S[Len(S)]) = SegmentSize
  <2>1. PICK T \in Seq(Seq(Nat)), o \in Nat :
           /\ Grow(b) = [segments |-> Append(T, << >>), offset |-> o]
           /\ \A s \in 1..Len(T) : Filled(T[s], o, s) /\ Len(T[s]) = SegmentSize
           /\ n = (o + Len(T)) * SegmentSize /\ Len(T) <= MaxSegments
    BY <1>2, GrowKeeps
  <2>2. PICK R : R = Append(T, << >>)
    BY Zenon
  <2>3. PICK P : P = [R EXCEPT ![Len(R)] = Append(@, n + 1)]
    BY Zenon
  <2>4. Grow(b).segments = R /\ Grow(b).offset = o
    BY <2>1, <2>2
  <2>5. Push(b, n + 1) = [segments |-> P, offset |-> o]
    BY <1>2, <2>3, <2>4, Zenon DEF Push
  <2>6. [segments |-> P, offset |-> o] \in Buffers /\ WellFormed([segments |-> P, offset |-> o], n + 1)
    BY Zenon, <2>1, <2>2, <2>3, PushNew
  <2>. QED
    BY <2>5, <2>6, Zenon
<1>3. CASE ~ (S = << >> \/ Len(S[Len(S)]) = SegmentSize)
  <2>1. /\ Len(S) <= MaxSegments + 1
        /\ \A s \in 1..Len(S) : Filled(S[s], b.offset, s) /\ (s < Len(S) => Len(S[s]) = SegmentSize)
        /\ n = (b.offset + Len(S) - 1) * SegmentSize + Len(S[Len(S)])
    BY <1>3, WellFormedNonempty, Zenon
  <2>2. PICK P : P = WithLast(S, Append(S[Len(S)], n + 1))
    OBVIOUS
  <2>3. Push(b, n + 1) = [segments |-> P, offset |-> b.offset]
    BY <1>3, <2>2, Zenon DEF Push, WithLast
  <2>4. Len(S[Len(S)]) # SegmentSize
    BY <1>3
  <2>5. /\ [segments |-> P, offset |-> b.offset] \in Buffers
        /\ WellFormed([segments |-> P, offset |-> b.offset], n + 1)
    BY <1>1, <1>3, <2>1, <2>2, <2>4, PushRoom, Zenon
  <2>. QED
    BY <2>3, <2>5, Zenon
<1>. QED
  BY <1>2, <1>3

\* A chunk: the items of a segment from position m on.
LEMMA Chunk ==
  ASSUME NEW seg \in Seq(Nat), NEW Q \in Nat, NEW m \in Nat, m < Len(seg),
         \A i \in 1..Len(seg) : seg[i] = Q + i
  PROVE  /\ Len(SubSeq(seg, m + 1, Len(seg))) = Len(seg) - m
         /\ \A k \in 1..(Len(seg) - m) : SubSeq(seg, m + 1, Len(seg))[k] = Q + m + k
<1>1. /\ Len(SubSeq(seg, m + 1, Len(seg))) = Len(seg) - m
      /\ \A k \in 1..(Len(seg) - m) : SubSeq(seg, m + 1, Len(seg))[k] = seg[m + k]
  OBVIOUS
<1>2. \A k \in 1..(Len(seg) - m) : m + k \in 1..Len(seg) /\ Q + (m + k) = Q + m + k
  OBVIOUS
<1>. QED
  BY <1>1, <1>2, Zenon

\* The index of the last segment against the one that is read.
LEMMA Indices ==
  ASSUME NEW o \in Nat, NEW L \in Nat, L >= 1, NEW q \in Nat, NEW s \in Nat, o + s - 1 = q
  PROVE  /\ o + L - 1 \in Nat
         /\ s > L => (o + L - 1) + 1 <= q
         /\ s < L => q + 1 <= o + L - 1
  OBVIOUS

\* The end of a chunk against the offset it was read from.
LEMMA Advance ==
  ASSUME NEW n \in Nat, NEW off \in Nat, NEW Q \in Nat, NEW m \in Nat, off = Q + m, NEW l \in Nat, m < l, Q + l <= n
  PROVE  (Q + l) - off = l - m /\ Q + l \in off..n /\ off < Q + l
  OBVIOUS

\* The chunk that doRead returns: no items at the end of the stream, else
\* those that follow the offset in its segment.
Following(r, off, n) ==
  /\ r.last \in off..n /\ (off < n => off < r.last)
  /\ Len(r.items) = r.last - off
  /\ \A k \in 1..(r.last - off) : r.items[k] = off + k

\* doRead of an offset whose segment was not pruned returns the ids that
\* follow it without a gap, at least one unless it is at the end of the
\* stream, and the offset to go on from.
THEOREM ReadsFollowing ==
  ASSUME NEW b \in Buffers, NEW n \in Nat, WellFormed(b, n), NEW off \in 0..n, off \div SegmentSize >= b.offset
  PROVE  Following(DoRead(b, off), off, n)
<1>. DEFINE S == b.segments
            q == off \div SegmentSize
            m == off % SegmentSize
            Q == SegmentSize * q
<1>1. /\ S \in Seq(Seq(Nat)) /\ b.offset \in Nat /\ Len(S) \in Nat /\ off \in Nat /\ SegmentSize \in Nat \ {0}
      /\ LastID(b) = n
  BY BufferAssumption DEF Buffers, WellFormed
<1>2. q \in Nat /\ m \in 0..(SegmentSize - 1) /\ off = Q + m /\ Q \in Nat
  <2>1. q \in Nat /\ m \in 0..(SegmentSize - 1) /\ off = Q + m
    BY Zenon, <1>1, DivMod
  <2>. QED
    BY <1>1, <2>1
<1>3. ASSUME off = n, DoRead(b, off) = [items |-> << >>, last |-> LastID(b)] PROVE Following(DoRead(b, off), off, n)
  <2>. DEFINE r == [items |-> << >>, last |-> n]
  <2>1. Following(r, off, n)
    BY <1>1, <1>3 DEF Following
  <2>. QED
    BY <1>1, <1>3, <2>1, Zenon
<1>4. CASE S = << >>
  <2>1. n = 0 /\ DoRead(b, off) = [items |-> << >>, last |-> LastID(b)]
    BY <1>1, <1>4 DEF LastID, DoRead
  <2>. QED
    BY <1>1, <1>3, <2>1
<1>5. CASE S # << >>
  <2>. DEFINE s == SegmentOf(b, off)
              seg == S[s]
  <2>1. s = (q - b.offset) + 1 /\ s \in Nat \ {0} /\ b.offset + s - 1 = q
    <3>1. s = (q - b.offset) + 1
      BY DEF SegmentOf
    <3>. HIDE DEF s, q
    <3>. QED
      BY <1>1, <1>2, <3>1 DEF q
  <2>2. /\ \A t \in 1..Len(S) : Filled(S[t], b.offset, t) /\ (t < Len(S) => Len(S[t]) = SegmentSize)
        /\ n = (b.offset + Len(S) - 1) * SegmentSize + Len(S[Len(S)])
    BY <1>5, WellFormedNonempty, Zenon
  <2>3. Len(S) \in 1..Len(S) /\ Len(S[Len(S)]) \in 1..SegmentSize
    <3>1. Len(S) \in 1..Len(S)
      BY <1>1, <1>5, LenPositive, Zenon
    <3>. QED
      BY <2>2, <3>1, Zenon DEF Filled
  <2>4. /\ \A i \in Nat : i * SegmentSize = SegmentSize * i /\ i * SegmentSize \in Nat
        /\ \A i \in Nat : (i + 1) * SegmentSize = i * SegmentSize + SegmentSize
        /\ \A i, j \in Nat : i <= j => i * SegmentSize <= j * SegmentSize
    BY <1>1
  <2>5. CASE s > Len(S)
    <3>. DEFINE p == b.offset + Len(S) - 1
    <3>1. p \in Nat /\ p + 1 <= q /\ p + 1 \in Nat
      <4>1. Len(S) >= 1
        BY <1>1, <2>3
      <4>2. p \in Nat /\ p + 1 <= q
        BY Zenon, <1>1, <1>2, <2>1, <2>5, <4>1, Indices
      <4>. QED
        BY <4>2
    <3>2. p * SegmentSize + SegmentSize <= Q /\ p * SegmentSize \in Nat
      BY Zenon, <1>2, <2>4, <3>1
    <3>3. n = p * SegmentSize + Len(S[Len(S)])
      BY <2>2
    <3>. HIDE DEF p, Q
    <3>4. off = n
      <4>1. off <= n /\ m \in Nat /\ Len(S[Len(S)]) \in Nat /\ Len(S[Len(S)]) <= SegmentSize
        BY <1>1, <1>2, <2>3
      <4>. HIDE DEF m
      <4>. QED
        <5>1. PICK A : A = p * SegmentSize
          OBVIOUS
        <5>2. A \in Nat /\ n = A + Len(S[Len(S)]) /\ A + SegmentSize <= Q
          BY <3>2, <3>3, <5>1, Zenon
        <5>3. PICK l \in Nat : l = Len(S[Len(S)]) /\ l <= SegmentSize
          BY <4>1
        <5>4. n = A + l /\ off = Q + m /\ off <= n /\ A + SegmentSize <= Q /\ l <= SegmentSize
          BY <1>2, <4>1, <5>2, <5>3, Zenon
        <5>5. n \in Nat /\ off \in Nat /\ SegmentSize \in Nat /\ Q \in Nat /\ m \in Nat /\ A \in Nat /\ l \in Nat
          BY <1>1, <1>2, <4>1, <5>2, <5>3
        <5>. QED
          BY ONLY <5>4, <5>5
    <3>5. DoRead(b, off) = [items |-> << >>, last |-> LastID(b)]
      BY <2>5 DEF DoRead
    <3>. QED
      BY <1>3, <3>4, <3>5
  <2>6. CASE s <= Len(S)
    <3>1. s \in 1..Len(S) /\ seg \in Seq(Nat) /\ Len(seg) \in Nat
      BY <1>1, <2>1, <2>6
    <3>2. /\ Len(seg) \in 1..SegmentSize /\ \A i \in 1..Len(seg) : seg[i] = Q + i
          /\ s < Len(S) => Len(seg) = SegmentSize
      <4>1. Filled(seg, b.offset, s) /\ (s < Len(S) => Len(seg) = SegmentSize)
        BY <2>2, <3>1, Zenon
      <4>2. (b.offset + s - 1) * SegmentSize = Q
        BY <1>2, <2>1, <2>4, Zenon
      <4>. HIDE DEF s, seg, Q
      <4>. QED
        BY <4>1, <4>2, Zenon DEF Filled
    <3>3. s = Len(S) => n = Q + Len(seg)
      BY <1>2, <2>1, <2>2, <2>4, Zenon
    <3>4. s < Len(S) => Q + SegmentSize <= n
      <4>. DEFINE p == b.offset + Len(S) - 1
      <4>. SUFFICES ASSUME s < Len(S) PROVE Q + SegmentSize <= n
        OBVIOUS
      <4>1. p \in Nat /\ q + 1 <= p /\ q + 1 \in Nat
        <5>1. Len(S) >= 1
          BY <1>1, <2>3
        <5>2. p \in Nat /\ q + 1 <= p
          BY Zenon, <1>1, <1>2, <2>1, <5>1, Indices
        <5>. QED
          BY <1>2, <5>2
      <4>2. Q + SegmentSize <= p * SegmentSize /\ p * SegmentSize \in Nat
        BY ZenonT(30), <1>2, <2>4, <4>1
      <4>3. n = p * SegmentSize + Len(S[Len(S)])
        BY <2>2
      <4>. HIDE DEF p, Q
      <4>. QED
        BY SMTT(30), Z3T(30), <1>1, <1>2, <2>3, <4>2, <4>3
    <3>5. s < Len(S) \/ s = Len(S)
      BY <1>1, <3>1
    <3>6. (b.offset + s - 1) * SegmentSize = Q
      BY <1>2, <2>1, <2>4, Zenon
    <3>. HIDE DEF Q, q, m, s, seg
    <3>7. CASE m >= Len(seg)
      <4>1. off = n
        BY SMTT(30), Z3T(30), <1>1, <1>2, <3>1, <3>2, <3>3, <3>5, <3>7
      <4>2. DoRead(b, off) = [items |-> << >>, last |-> LastID(b)]
        BY <3>7 DEF DoRead, m, seg, s
      <4>. QED
        BY <1>3, <4>1, <4>2
    <3>8. CASE m < Len(seg)
      <4>. DEFINE r == [items |-> SubSeq(seg, m + 1, Len(seg)), last |-> Q + Len(seg)]
      <4>1. DoRead(b, off) = r
        <5>1. ~ (S = << >> \/ off < 0 \/ s > Len(S) \/ m >= Len(seg))
          BY <1>1, <1>2, <1>5, <3>1, <3>8
        <5>. QED
          BY <3>6, <5>1, Zenon DEF DoRead, m, seg, s
      <4>2. m \in Nat /\ off = Q + m
        BY <1>1, <1>2
      <4>3. Len(r.items) = Len(seg) - m /\ \A k \in 1..(Len(seg) - m) : r.items[k] = Q + m + k
        BY ZenonT(30), <1>2, <3>1, <3>2, <3>8, <4>2, Chunk
      <4>4. r.last - off = Len(seg) - m /\ r.last \in off..n /\ off < r.last
        <5>1. r.last = Q + Len(seg)
          OBVIOUS
        <5>2. Q + Len(seg) <= n
          BY <3>2, <3>3, <3>4, <3>5, <1>1, <1>2, <3>1
        <5>. HIDE DEF r
        <5>. QED
          BY ONLY SMTT(30), Z3T(30), <1>1, <1>2, <3>1, <3>8, <4>2, <5>1, <5>2, n \in Nat, Advance
      <4>. HIDE DEF r
      <4>. QED
        BY <4>1, <4>2, <4>3, <4>4, Zenon DEF Following
    <3>. QED
      BY <1>2, <3>1, <3>7, <3>8
  <2>. QED
    BY <1>1, <2>1, <2>5, <2>6
<1>. QED
  BY <1>4, <1>5

-----------------------------------------------------------------------------
(* The timers of the filters *)

\* An entry of the map of filters.
IsFilter(f) ==
  /\ f = [typ |-> f.typ, crit |-> f.crit, offset |-> f.offset, timer |-> f.timer]
  /\ f.typ \in Types
  /\ f.timer = [left |-> f.timer.left, fired |-> f.timer.fired]
  /\ f.timer.left \in Off..Deadline /\ f.timer.fired \in BOOLEAN

\* The shape of the map and of the history of idle times.
Shape ==
  /\ filters = [id \in Ids |-> filters[id]]
  /\ \A id \in Installed : IsFilter(filters[id])
  /\ idle = [id \in Ids |-> idle[id]]
  /\ \A id \in Ids : idle[id] \in Nat

\* A timer is off exactly when its channel holds a value; until then its
\* countdown and the idle time cover the deadline, and from then on the idle
\* time does.
TimerInv ==
  \A id \in Installed :
    /\ filters[id].timer.fired = (filters[id].timer.left = Off)
    /\ IF filters[id].timer.left = Off THEN idle[id] >= Deadline
       ELSE filters[id].timer.left + idle[id] >= Deadline

\* The mutex protects the filter of the poll, and a poll that waits for the
\* timer's value found the timer off.
MutexInv ==
  /\ mu \in Installed \cup {Nil} /\ step \in {"none", "receive", "read"}
  /\ (mu = Nil) = (step = "none")
  /\ step = "receive" => filters[mu].timer.left = Off

\* There are at most FilterCap filters, all with ids that were given out.
CapInv ==
  /\ IsFiniteSet(Installed) /\ Cardinality(Installed) <= FilterCap
  /\ Installed \subseteq used /\ loop \in {"ticker", "lock"}

\* The inductive invariant.
IInv == Shape /\ TimerInv /\ MutexInv /\ CapInv

-----------------------------------------------------------------------------
(* What the actions do to the map *)

\* An entry is not the absence of one.
LEMMA EntryNotNil ==
  ASSUME NEW f, IsFilter(f) PROVE f # Nil
<1>1. f.typ # "none"
  BY FiltersAssumption DEF IsFilter
<1>. QED
  BY <1>1 DEF Nil

\* A new value for the timer of an installed filter, as in a poll.
LEMMA SetTimer ==
  ASSUME Shape, NEW id \in Installed, NEW T,
         T = [left |-> T.left, fired |-> T.fired], T.left \in Off..Deadline, T.fired \in BOOLEAN,
         filters' = [filters EXCEPT ![id].timer = T]
  PROVE  /\ filters' = [i \in Ids |-> filters'[i]]
         /\ Installed' = Installed
         /\ filters'[id].timer = T
         /\ \A i \in Ids \ {id} : filters'[i] = filters[i]
         /\ \A i \in Installed : IsFilter(filters'[i])
<1>. DEFINE g == [filters[id] EXCEPT !.timer = T]
<1>0. id \in Ids /\ IsFilter(filters[id]) /\ filters = [i \in Ids |-> filters[i]]
  BY DEF Shape, Installed
<1>1. filters' = [filters EXCEPT ![id] = g]
  OBVIOUS
<1>2. g = [typ |-> filters[id].typ, crit |-> filters[id].crit, offset |-> filters[id].offset, timer |-> T]
  BY <1>0 DEF IsFilter
<1>3. IsFilter(g)
  BY <1>0, <1>2 DEF IsFilter
<1>. HIDE DEF g
<1>4. filters' = [i \in Ids |-> filters'[i]] /\ filters'[id] = g /\ \A i \in Ids \ {id} : filters'[i] = filters[i]
  BY <1>0, <1>1
<1>5. g # Nil
  BY Zenon, <1>3, EntryNotNil
<1>6. Installed' = Installed
  BY <1>4, <1>5, <1>0 DEF Installed, Nil
<1>7. \A i \in Installed : IsFilter(filters'[i])
  BY <1>3, <1>4 DEF Shape, Installed
<1>. QED
  BY <1>2, <1>4, <1>6, <1>7

\* A new offset for an installed filter, as a read leaves it.
LEMMA SetOffset ==
  ASSUME Shape, NEW id \in Installed, NEW o, filters' = [filters EXCEPT ![id].offset = o]
  PROVE  /\ filters' = [i \in Ids |-> filters'[i]]
         /\ Installed' = Installed
         /\ \A i \in Installed : IsFilter(filters'[i]) /\ filters'[i].timer = filters[i].timer
<1>. DEFINE g == [filters[id] EXCEPT !.offset = o]
<1>0. id \in Ids /\ IsFilter(filters[id]) /\ filters = [i \in Ids |-> filters[i]]
  BY DEF Shape, Installed
<1>1. filters' = [filters EXCEPT ![id] = g]
  OBVIOUS
<1>2. g = [typ |-> filters[id].typ, crit |-> filters[id].crit, offset |-> o, timer |-> filters[id].timer]
  BY <1>0 DEF IsFilter
<1>3. IsFilter(g) /\ g.timer = filters[id].timer
  BY <1>0, <1>2 DEF IsFilter
<1>. HIDE DEF g
<1>4. filters' = [i \in Ids |-> filters'[i]] /\ filters'[id] = g /\ \A i \in Ids \ {id} : filters'[i] = filters[i]
  BY <1>0, <1>1
<1>5. g # Nil
  BY <1>3, EntryNotNil
<1>6. Installed' = Installed
  BY <1>4, <1>5, <1>0 DEF Installed, Nil
<1>. QED
  BY <1>3, <1>4, <1>6 DEF Shape, Installed

\* The entries that remain when the rest is removed.
LEMMA RemoveSome ==
  ASSUME Shape, NEW gone, filters' = [i \in Ids |-> IF i \in gone THEN Nil ELSE filters[i]]
  PROVE  /\ filters' = [i \in Ids |-> filters'[i]]
         /\ Installed' = Installed \ gone
         /\ \A i \in Installed' : filters'[i] = filters[i]
  BY DEF Shape, Installed, Nil
-----------------------------------------------------------------------------
(* The invariant *)

\* Removing filters whose poll does not run keeps the invariant.
LEMMA RemoveKeeps ==
  ASSUME IInv, NEW gone, mu \notin gone, mu' = mu, step' = step,
         filters' = [i \in Ids |-> IF i \in gone THEN Nil ELSE filters[i]],
         idle' = idle, used' = used, loop' \in {"ticker", "lock"}
  PROVE  IInv'
<1>. USE DEF IInv
<1>1. /\ filters' = [i \in Ids |-> filters'[i]]
      /\ Installed' = Installed \ gone
      /\ \A i \in Installed' : filters'[i] = filters[i]
  BY RemoveSome, Zenon
<1>2. Shape'
  BY <1>1 DEF Shape
<1>3. TimerInv'
  BY <1>1 DEF TimerInv
<1>4. MutexInv'
  <2>1. mu \in Installed => mu \in Installed' /\ filters'[mu] = filters[mu]
    BY <1>1
  <2>. QED
    BY <2>1 DEF MutexInv
<1>5. CapInv'
  <2>1. IsFiniteSet(Installed') /\ Cardinality(Installed') <= Cardinality(Installed)
    BY <1>1, FS_Subset DEF CapInv
  <2>2. Cardinality(Installed) \in Nat /\ Cardinality(Installed') \in Nat
    BY <2>1, FS_CardinalityType DEF CapInv
  <2>. QED
    BY <1>1, <2>1, <2>2, FiltersAssumption DEF CapInv
<1>. QED
  BY <1>2, <1>3, <1>4, <1>5

\* A step that leaves the map as it is keeps CapInv.
LEMMA CapKept ==
  ASSUME CapInv, Installed' = Installed, used' = used, loop' \in {"ticker", "lock"}
  PROVE  CapInv'
  BY DEF CapInv

\* The timer of one filter changes, as a poll, or the runtime, does it.
LEMMA TimerKeeps ==
  ASSUME IInv, NEW id \in Installed, NEW T,
         T = [left |-> T.left, fired |-> T.fired], T.left \in Off..Deadline, T.fired \in BOOLEAN,
         filters' = [filters EXCEPT ![id].timer = T],
         T.fired = (T.left = Off),
         idle' = [i \in Ids |-> idle'[i]], idle'[id] \in Nat,
         IF T.left = Off THEN idle'[id] >= Deadline ELSE T.left + idle'[id] >= Deadline,
         \A i \in Ids \ {id} : idle'[i] = idle[i],
         used' = used, loop' = loop
  PROVE  /\ Shape' /\ TimerInv' /\ CapInv' /\ Installed' = Installed
         /\ \A i \in Ids \ {id} : filters'[i] = filters[i]
         /\ filters'[id].timer = T
<1>. USE DEF IInv
<1>1. /\ filters' = [i \in Ids |-> filters'[i]]
      /\ Installed' = Installed
      /\ filters'[id].timer = T
      /\ \A i \in Ids \ {id} : filters'[i] = filters[i]
      /\ \A i \in Installed : IsFilter(filters'[i])
  BY Zenon, SetTimer
<1>2. Installed \subseteq Ids
  BY DEF Installed
<1>3. Shape'
  BY Zenon, <1>1, <1>2 DEF Shape
<1>4. TimerInv'
  BY <1>1, <1>2 DEF TimerInv
<1>5. CapInv'
  BY <1>1, CapKept DEF CapInv
<1>. QED
  BY <1>1, <1>3, <1>4, <1>5
LEMMA InitInv == Init => IInv
<1>. SUFFICES ASSUME Init PROVE IInv
  OBVIOUS
<1>1. Installed = {} /\ filters = [id \in Ids |-> filters[id]]
  BY DEF Init, Installed, Nil
<1>2. Shape /\ TimerInv
  BY <1>1 DEF Init, Shape, TimerInv
<1>3. MutexInv
  BY DEF Init, MutexInv
<1>4. IsFiniteSet({}) /\ Cardinality({}) = 0
  BY FS_EmptySet
<1>5. CapInv
  BY <1>1, <1>4, FiltersAssumption DEF Init, CapInv
<1>. QED
  BY <1>2, <1>3, <1>5 DEF IInv

\* Time keeps the invariant: a countdown and the idle time move together.
LEMMA TickKeeps == IInv /\ Tick => IInv'
<1>. SUFFICES ASSUME IInv, Tick PROVE IInv'
  OBVIOUS
<1>. USE DEF IInv
<1>. DEFINE Counts(i) == i \in Installed /\ filters[i].timer.left > 0
            g(i) == [filters[i] EXCEPT !.timer.left = @ - 1]
<1>1. /\ filters' = [i \in Ids |-> IF Counts(i) THEN g(i) ELSE filters[i]]
      /\ idle' = [i \in Ids |-> IF i \in Installed /\ idle[i] <= Deadline THEN idle[i] + 1 ELSE idle[i]]
  BY DEF Tick
<1>2. ASSUME NEW i \in Ids, Counts(i)
      PROVE  IsFilter(g(i)) /\ g(i) # Nil /\ g(i).timer.left = filters[i].timer.left - 1
             /\ g(i).timer.fired = filters[i].timer.fired
  <2>1. IsFilter(filters[i])
    BY <1>2 DEF Shape
  <2>2. filters[i].timer.left \in Int /\ filters[i].timer.left - 1 \in Off..Deadline
    BY <2>1, <1>2, FiltersAssumption DEF IsFilter, Off
  <2>3. [filters[i].timer EXCEPT !.left = @ - 1] = [left |-> filters[i].timer.left - 1, fired |-> filters[i].timer.fired]
    BY <2>1 DEF IsFilter
  <2>4. g(i) = [typ |-> filters[i].typ, crit |-> filters[i].crit, offset |-> filters[i].offset,
                timer |-> [left |-> filters[i].timer.left - 1, fired |-> filters[i].timer.fired]]
    BY <2>1, <2>3 DEF IsFilter
  <2>. HIDE DEF g
  <2>5. IsFilter(g(i))
    BY SMTT(30), Z3T(30), <2>1, <2>2, <2>4 DEF IsFilter
  <2>. QED
    BY <2>4, <2>5, EntryNotNil
<1>. HIDE DEF g
<1>3. Installed' = Installed /\ \A i \in Ids : filters'[i] = IF Counts(i) THEN g(i) ELSE filters[i]
  BY <1>1, <1>2 DEF Installed, Nil
<1>4. Shape'
  <2>1. \A i \in Installed : IsFilter(filters'[i])
    BY <1>2, <1>3 DEF Shape, Installed
  <2>2. \A i \in Ids : idle'[i] \in Nat
    BY <1>1 DEF Shape
  <2>. QED
    BY Zenon, <1>1, <1>3, <2>1, <2>2 DEF Shape
<1>5. TimerInv'
  <2>. SUFFICES ASSUME NEW i \in Installed
       PROVE  /\ filters'[i].timer.fired = (filters'[i].timer.left = Off)
              /\ IF filters'[i].timer.left = Off THEN idle'[i] >= Deadline
                 ELSE filters'[i].timer.left + idle'[i] >= Deadline
    BY <1>3 DEF TimerInv
  <2>1. i \in Ids /\ idle[i] \in Nat /\ filters[i].timer.left \in Off..Deadline /\ filters[i].timer.fired \in BOOLEAN
    BY Zenon DEF Shape, IsFilter, Installed
  <2>2. idle'[i] = IF idle[i] <= Deadline THEN idle[i] + 1 ELSE idle[i]
    BY <1>1, <2>1
  <2>3. /\ filters[i].timer.fired = (filters[i].timer.left = Off)
        /\ IF filters[i].timer.left = Off THEN idle[i] >= Deadline ELSE filters[i].timer.left + idle[i] >= Deadline
    BY DEF TimerInv
  <2>4. CASE filters[i].timer.left > 0
    <3>1. filters'[i].timer.left = filters[i].timer.left - 1 /\ filters'[i].timer.fired = filters[i].timer.fired
      BY <1>2, <1>3, <2>1, <2>4
    <3>. QED
      BY <2>1, <2>2, <2>3, <2>4, <3>1, FiltersAssumption DEF Off
  <2>5. CASE ~ (filters[i].timer.left > 0)
    <3>1. filters'[i] = filters[i]
      BY <1>3, <2>1, <2>5
    <3>. QED
      BY SMTT(30), Z3T(30), <2>1, <2>2, <2>3, <2>5, <3>1, FiltersAssumption DEF Off
  <2>. QED
    BY <2>4, <2>5
<1>6. MutexInv'
  <2>1. ASSUME step = "receive" PROVE filters'[mu] = filters[mu]
    <3>1. mu \in Installed /\ filters[mu].timer.left = Off
      BY <2>1 DEF MutexInv
    <3>. QED
      BY <1>3, <3>1 DEF Installed, Off
  <2>. QED
    BY Zenon, <1>3, <2>1 DEF MutexInv, Tick
<1>7. CapInv'
  BY <1>3, CapKept DEF Tick, CapInv
<1>. QED
  BY <1>4, <1>5, <1>6, <1>7
\* The runtime fires a timer only when its time has come, and its filter was idle for that long.
LEMMA TimerFiresKeeps ==
  ASSUME IInv, NEW id \in Ids, TimerFires(id) PROVE IInv'
<1>. USE DEF IInv
<1>. DEFINE T == [left |-> Off, fired |-> TRUE]
<1>1. id \in Installed /\ filters[id].timer.left = 0 /\ idle[id] \in Nat /\ idle[id] >= Deadline
  <2>1. id \in Installed /\ filters[id].timer.left = 0 /\ idle[id] \in Nat
    BY DEF TimerFires, Shape
  <2>. QED
    BY <2>1, FiltersAssumption DEF TimerInv, Off
<1>2. /\ filters' = [filters EXCEPT ![id].timer = T] /\ idle' = idle /\ used' = used /\ loop' = loop
      /\ mu' = mu /\ step' = step
  BY DEF TimerFires, history
<1>3. T = [left |-> T.left, fired |-> T.fired] /\ T.left \in Off..Deadline /\ T.fired = TRUE /\ T.left = Off
  BY FiltersAssumption DEF Off
<1>4. idle' = [i \in Ids |-> idle'[i]]
  BY <1>2 DEF Shape
<1>. HIDE DEF T
<1>5. /\ Shape' /\ TimerInv' /\ CapInv' /\ Installed' = Installed
      /\ \A i \in Ids \ {id} : filters'[i] = filters[i]
  BY Zenon, <1>1, <1>2, <1>3, <1>4, TimerKeeps
<1>6. MutexInv'
  <2>1. ASSUME step = "receive" PROVE mu \in Installed /\ mu # id /\ filters[mu].timer.left = Off
    BY <1>1, <2>1 DEF MutexInv, Off
  <2>2. step = "receive" => filters'[mu] = filters[mu]
    BY <1>5, <2>1 DEF Installed
  <2>. QED
    BY Zenon, <1>2, <1>5, <2>2 DEF MutexInv
<1>. QED
  BY <1>5, <1>6

\* A poll resets an active timer, which leaves its channel empty, or goes on to wait for the value.
LEMMA GetFilterChangesKeeps ==
  ASSUME IInv, NEW id \in Ids, GetFilterChanges(id) PROVE IInv'
<1>. USE DEF IInv
<1>1. id \in Installed /\ mu = Nil /\ mu' = id /\ used' = used /\ loop' = loop /\ id # Nil
  BY FiltersAssumption DEF GetFilterChanges
<1>2. IsFilter(filters[id]) /\ filters[id].timer.fired = (filters[id].timer.left = Off)
  BY <1>1 DEF Shape, TimerInv
<1>3. CASE filters[id].timer.left # Off
  <2>. DEFINE T == [filters[id].timer EXCEPT !.left = Deadline]
  <2>1. /\ filters' = [filters EXCEPT ![id].timer = T] /\ step' = "read"
        /\ idle' = [idle EXCEPT ![id] = 0]
    BY <1>3 DEF GetFilterChanges, Reset
  <2>2. T = [left |-> Deadline, fired |-> filters[id].timer.fired]
    BY <1>2 DEF IsFilter
  <2>3. T = [left |-> T.left, fired |-> T.fired] /\ T.left = Deadline /\ T.fired = FALSE
    BY Zenon, <1>2, <1>3, <2>2 DEF IsFilter
  <2>4. T.left \in Off..Deadline /\ T.left # Off /\ Deadline + 0 >= Deadline
    BY <2>3, FiltersAssumption DEF Off
  <2>. HIDE DEF T
  <2>5. idle' = [i \in Ids |-> idle'[i]] /\ idle'[id] = 0 /\ \A i \in Ids \ {id} : idle'[i] = idle[i]
    BY <2>1 DEF Shape
  <2>6. Shape' /\ TimerInv' /\ CapInv' /\ Installed' = Installed
    BY Zenon, <1>1, <2>1, <2>3, <2>4, <2>5, TimerKeeps
  <2>. QED
    BY <1>1, <2>1, <2>6 DEF MutexInv
<1>4. CASE filters[id].timer.left = Off
  <2>1. filters' = filters /\ idle' = idle /\ step' = "receive"
    BY <1>4 DEF GetFilterChanges
  <2>2. Installed' = Installed /\ Shape' /\ TimerInv'
    BY <2>1 DEF Installed, Shape, TimerInv, Nil
  <2>3. CapInv'
    BY <1>1, <2>2, CapKept DEF CapInv
  <2>. QED
    BY <1>1, <1>4, <2>1, <2>2, <2>3 DEF MutexInv
<1>. QED
  BY <1>3, <1>4

\* The value of the timer is taken out before the timer starts again.
LEMMA ReceiveKeeps ==
  ASSUME IInv, NEW id \in Ids, Receive(id) PROVE IInv'
<1>. USE DEF IInv
<1>1. mu = id /\ id # Nil /\ id \in Installed /\ mu' = id /\ step' = "read" /\ used' = used /\ loop' = loop
  BY FiltersAssumption DEF Receive, MutexInv
<1>2. filters' = [filters EXCEPT ![id].timer = Active] /\ idle' = [idle EXCEPT ![id] = 0]
  BY DEF Receive
<1>3. /\ Active = [left |-> Active.left, fired |-> Active.fired] /\ Active.left = Deadline /\ Active.fired = FALSE
      /\ Active.left \in Off..Deadline /\ Deadline # Off /\ Deadline + 0 >= Deadline
  BY FiltersAssumption DEF Active, Off
<1>4. idle' = [i \in Ids |-> idle'[i]] /\ idle'[id] = 0 /\ \A i \in Ids \ {id} : idle'[i] = idle[i]
  BY <1>2 DEF Shape
<1>5. Shape' /\ TimerInv' /\ CapInv' /\ Installed' = Installed
  BY ZenonT(30), <1>1, <1>2, <1>3, <1>4, TimerKeeps
<1>. QED
  BY <1>1, <1>5 DEF MutexInv

\* A read changes the offset only.
LEMMA ReadKeeps ==
  ASSUME IInv, NEW id \in Ids, NEW read, Reads(id, read), mu = id, step = "read",
         \/ mu' = Nil /\ step' = "none"
         \/ mu' = mu /\ step' = step,
         idle' = idle, used' = used, loop' = loop
  PROVE  IInv'
<1>. USE DEF IInv
<1>1. id \in Installed /\ id # Nil
  BY FiltersAssumption DEF MutexInv
<1>2. /\ filters' = [i \in Ids |-> filters'[i]]
      /\ Installed' = Installed
      /\ \A i \in Installed : IsFilter(filters'[i]) /\ filters'[i].timer = filters[i].timer
  BY Zenon, <1>1, SetOffset DEF Reads
<1>3. Shape' /\ TimerInv'
  BY ZenonT(30), <1>2 DEF Shape, TimerInv
<1>4. CapInv'
  BY <1>2, CapKept DEF CapInv
<1>5. MutexInv'
  BY <1>1, <1>2 DEF MutexInv
<1>. QED
  BY <1>3, <1>4, <1>5

\* A new filter starts with a full countdown, and there was room for it.
LEMMA NewFilterKeeps ==
  ASSUME IInv, NEW id \in Ids, NEW t \in Types, NEW crit, NewFilter(id, t, crit) PROVE IInv'
<1>. USE DEF IInv
<1>. DEFINE f == [typ |-> t, crit |-> crit, offset |-> DoRead(streams[t].buffer, -1).last, timer |-> Active]
<1>1. /\ filters' = [filters EXCEPT ![id] = f] /\ idle' = [idle EXCEPT ![id] = 0]
      /\ id \notin used /\ used' = used \cup {id} /\ Cardinality(Installed) < FilterCap
      /\ mu = Nil /\ mu' = mu /\ step' = step /\ loop' = loop
  BY DEF NewFilter
<1>2. /\ Active = [left |-> Active.left, fired |-> Active.fired] /\ Active.left = Deadline /\ Active.fired = FALSE
      /\ Deadline \in Off..Deadline /\ Deadline # Off /\ Deadline + 0 >= Deadline
  BY FiltersAssumption DEF Active, Off
<1>3. IsFilter(f) /\ f.timer = Active
  BY Zenon, <1>2 DEF IsFilter
<1>. HIDE DEF f
<1>4. f # Nil
  BY <1>3, EntryNotNil
<1>5. id \notin Installed
  BY <1>1 DEF CapInv
<1>6. /\ filters' = [i \in Ids |-> filters'[i]] /\ filters'[id] = f
      /\ \A i \in Ids \ {id} : filters'[i] = filters[i]
      /\ idle' = [i \in Ids |-> idle'[i]] /\ idle'[id] = 0
      /\ \A i \in Ids \ {id} : idle'[i] = idle[i]
  BY Zenon, <1>1 DEF Shape
<1>7. Installed' = Installed \cup {id}
  BY <1>4, <1>6 DEF Installed, Nil
<1>8. \A i \in Installed : i \in Ids /\ i # id
  BY <1>5 DEF Installed
<1>9. Shape'
  BY <1>3, <1>6, <1>7, <1>8 DEF Shape
<1>10. TimerInv'
  BY ZenonT(30), <1>2, <1>3, <1>6, <1>7, <1>8 DEF TimerInv
<1>11. MutexInv'
  BY <1>1 DEF MutexInv
<1>12. CapInv'
  <2>1. IsFiniteSet(Installed') /\ Cardinality(Installed') = Cardinality(Installed) + 1
    BY <1>5, <1>7, FS_AddElement DEF CapInv
  <2>2. Cardinality(Installed) \in Nat
    BY FS_CardinalityType DEF CapInv
  <2>. QED
    BY <1>1, <1>7, <2>1, <2>2, FiltersAssumption DEF CapInv
<1>. QED
  BY <1>9, <1>10, <1>11, <1>12

\* Every step keeps the invariant.
LEMMA NextKeeps == IInv /\ [Next]_vars => IInv'
<1>. SUFFICES ASSUME IInv, [Next]_vars PROVE IInv'
  OBVIOUS
<1>1. CASE Tick
  BY Zenon, <1>1, TickKeeps
<1>2. CASE LoopReceives
  <2>1. Installed' = Installed /\ loop' = "lock" /\ UNCHANGED <<filters, idle, used, mu, step>>
    BY <1>2 DEF LoopReceives, history, Installed, Nil
  <2>. QED
    BY Zenon, <2>1 DEF IInv, Shape, TimerInv, MutexInv, CapInv
<1>3. CASE LoopDeletes
  <2>. DEFINE gone == {i \in Installed : filters[i].timer.fired}
  <2>1. /\ filters' = [i \in Ids |-> IF i \in gone THEN Nil ELSE filters[i]]
        /\ loop' = "ticker" /\ mu' = mu /\ step' = step /\ idle' = idle /\ used' = used
    BY <1>3 DEF LoopDeletes, history
  <2>2. mu \notin gone
    BY Zenon, <1>3, FiltersAssumption DEF LoopDeletes, Installed
  <2>. QED
    BY Zenon, <2>1, <2>2, RemoveKeeps
<1>4. ASSUME NEW t \in Types, Publish(t) PROVE IInv'
  <2>1. Installed' = Installed /\ UNCHANGED <<filters, idle, used, mu, step, loop>>
    BY <1>4 DEF Publish, history, Installed, Nil
  <2>. QED
    BY Zenon, <2>1 DEF IInv, Shape, TimerInv, MutexInv, CapInv
<1>5. ASSUME NEW id \in Ids, NEW t \in Types, NEW crit \in Criteria, NewFilter(id, t, crit) PROVE IInv'
  BY <1>5, NewFilterKeeps
<1>6. ASSUME NEW id \in Ids, UninstallFilter(id) PROVE IInv'
  <2>1. filters' = [i \in Ids |-> IF i \in {id} THEN Nil ELSE filters[i]]
    BY <1>6 DEF UninstallFilter, IInv, Shape
  <2>2. mu \notin {id} /\ mu' = mu /\ step' = step /\ idle' = idle /\ used' = used /\ loop' = loop
    BY <1>6, FiltersAssumption DEF UninstallFilter, history
  <2>. QED
    BY ZenonT(30), <2>1, <2>2, RemoveKeeps DEF IInv, CapInv
<1>7. ASSUME NEW id \in Ids, TimerFires(id) PROVE IInv'
  BY <1>7, TimerFiresKeeps
<1>8. ASSUME NEW id \in Ids, GetFilterChanges(id) PROVE IInv'
  BY SMTT(30), Z3T(30), <1>8, GetFilterChangesKeeps
<1>9. ASSUME NEW id \in Ids, Receive(id) PROVE IInv'
  BY <1>9, ReceiveKeeps
<1>10. ASSUME NEW id \in Ids, PollAll(id) PROVE IInv'
  <2>1. PICK read : Reads(id, read) /\ Return(id, read.items)
    BY Zenon, <1>10 DEF PollAll
  <2>2. mu = id /\ step = "read" /\ idle' = idle /\ used' = used /\ loop' = loop
    BY Zenon, <1>10 DEF PollAll
  <2>3. mu' = Nil /\ step' = "none"
    BY Zenon, <2>1 DEF Return
  <2>. QED
    BY Zenon, <2>1, <2>2, <2>3, ReadKeeps
<1>11. ASSUME NEW id \in Ids, ReadChunk(id) PROVE IInv'
  <2>. DEFINE read == DoRead(streams["logs"].buffer, filters[id].offset)
  <2>1. Reads(id, read) /\ (Return(id, polled) \/ UNCHANGED <<mu, step>>)
    BY Zenon, <1>11 DEF ReadChunk
  <2>. HIDE DEF read
  <2>2. mu = id /\ step = "read" /\ idle' = idle /\ used' = used /\ loop' = loop
    BY Zenon, <1>11 DEF ReadChunk
  <2>3. (mu' = Nil /\ step' = "none") \/ (mu' = mu /\ step' = step)
    BY <2>1 DEF Return
  <2>. QED
    BY Zenon, <2>1, <2>2, <2>3, ReadKeeps
<1>12. CASE UNCHANGED vars
  <2>1. Installed' = Installed /\ UNCHANGED <<filters, idle, used, mu, step, loop>>
    BY <1>12 DEF vars, Installed, Nil
  <2>. QED
    BY <2>1 DEF IInv, Shape, TimerInv, MutexInv, CapInv
<1>. QED
  BY Zenon, <1>1, <1>2, <1>3, <1>4, <1>5, <1>6, <1>7, <1>8, <1>9, <1>10, <1>11, <1>12 DEF Next, Poll

-----------------------------------------------------------------------------
(* The theorems *)

\* The inductive invariant holds throughout.
THEOREM Invariance == Spec => []IInv
  BY InitInv, NextKeeps, PTL DEF Spec

\* The API never has more filters than its cap and holds the mutex only for
\* an installed filter, for every cap and however polls, removals and the
\* timeout loop interleave.
THEOREM TypeCorrect == Spec => []TypeOK
<1>1. IInv => TypeOK
  BY Zenon DEF IInv, Shape, IsFilter, MutexInv, CapInv, TypeOK
<1>. QED
  BY <1>1, Invariance, PTL

\* GetFilterChanges never waits, with filtersMu held, for a value of its
\* timer that the timeout loop has received.
THEOREM PollNeverBlocks == Spec => []NeverBlocks
<1>1. IInv => NeverBlocks
  <2>. SUFFICES ASSUME IInv, step = "receive" PROVE filters[mu].timer.fired
    BY DEF NeverBlocks
  <2>1. mu \in Installed /\ filters[mu].timer.left = Off
    BY DEF IInv, MutexInv
  <2>. QED
    BY Zenon, <2>1 DEF IInv, TimerInv
<1>. QED
  BY <1>1, Invariance, PTL

\* timeoutLoop removes only filters that nobody polled for the deadline.
THEOREM OnlyInactiveRemoved == Spec => RemovesOnlyInactive
<1>1. IInv /\ LoopDeletes => \A id \in Installed : filters'[id] = Nil => idle[id] >= Deadline
  <2>. SUFFICES ASSUME IInv, LoopDeletes, NEW id \in Installed, filters'[id] = Nil
       PROVE  idle[id] >= Deadline
    OBVIOUS
  <2>1. filters[id].timer.fired
    BY DEF LoopDeletes, Installed, Nil
  <2>. QED
    BY Zenon, <2>1 DEF IInv, TimerInv
<1>. QED
  BY <1>1, Invariance, PTL DEF RemovesOnlyInactive

\* The streams as buffers.
StreamInv ==
  /\ streams = [t \in Types |-> streams[t]]
  /\ \A t \in Types :
       /\ streams[t].buffer \in Buffers /\ streams[t].added \in Nat
       /\ WellFormed(streams[t].buffer, streams[t].added)

LEMMA EmptyWellFormed == Empty \in Buffers /\ WellFormed(Empty, 0)
<1>1. Empty.segments = << >> /\ Empty.offset = 0 /\ Empty \in Buffers
  BY DEF Empty, Buffers
<1>2. Len(Empty.segments) = 0 /\ 1..Len(Empty.segments) = {} /\ LastID(Empty) = 0
  BY <1>1 DEF LastID
<1>. QED
  BY <1>1, <1>2, MaxSegmentsType DEF WellFormed

\* The buffers of the streams stay well formed while filters read them, for
\* every segment size, capacity and number of items.
THEOREM StreamsKeepShape == Spec => []StreamsWellFormed
<1>1. Init => StreamInv
  <2>. SUFFICES ASSUME Init PROVE StreamInv
    OBVIOUS
  <2>1. streams = [t \in Types |-> streams[t]] /\ \A t \in Types : streams[t].buffer = Empty /\ streams[t].added = 0
    BY DEF Init
  <2>. QED
    BY <2>1, EmptyWellFormed DEF StreamInv
<1>2. StreamInv /\ [Next]_vars => StreamInv'
  <2>. SUFFICES ASSUME StreamInv, [Next]_vars PROVE StreamInv'
    OBVIOUS
  <2>1. ASSUME NEW t \in Types, Publish(t) PROVE StreamInv'
    <3>. DEFINE old == streams[t]
                new == [buffer |-> Push(old.buffer, old.added + 1), added |-> old.added + 1]
    <3>1. streams' = [streams EXCEPT ![t] = new]
      BY <2>1 DEF Publish
    <3>2. old.buffer \in Buffers /\ old.added \in Nat /\ WellFormed(old.buffer, old.added)
      BY DEF StreamInv
    <3>3. /\ new.buffer \in Buffers /\ new.added \in Nat
          /\ WellFormed(new.buffer, new.added)
      BY <3>2, PushWellFormed
    <3>. HIDE DEF new
    <3>4. streams' = [u \in Types |-> streams'[u]] /\ streams'[t] = new /\ \A u \in Types \ {t} : streams'[u] = streams[u]
      BY <3>1 DEF StreamInv
    <3>. QED
      BY <3>3, <3>4 DEF StreamInv
  <2>2. CASE UNCHANGED streams
    BY SMTT(30), Z3T(30), <2>2 DEF StreamInv
  <2>3. UNCHANGED streams \/ \E t \in Types : Publish(t)
    BY ZenonT(30) DEF Next, Poll, vars, Tick, LoopReceives, LoopDeletes, NewFilter, UninstallFilter, TimerFires,
           GetFilterChanges, Receive, PollAll, ReadChunk
  <2>. QED
    BY <2>1, <2>2, <2>3
<1>3. StreamInv => StreamsWellFormed
  BY DEF StreamInv, StreamsWellFormed
<1>. QED
  BY <1>1, <1>2, <1>3, PTL DEF Spec
=============================================================================
