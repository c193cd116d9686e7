---------------------------- MODULE EvmTxLedger -----------------------------
(***************************************************************************)
(* Proofs about EvmTx for any accounts, transactions, configurations and   *)
(* bounds: what the ante handler and the messages do to balances, that     *)
(* coins are conserved, and what the mempool admits.  They rest on facts   *)
(* about the sum of a function over a finite set.  The library states no   *)
(* theorem about its folds, so these are derived here from the definition: *)
(* first that the recursion has one solution, then that the elements may   *)
(* be taken in any order.  Induction over the subsets of a finite set is   *)
(* the argument that a set of counterexamples has a minimal member.        *)
(***************************************************************************)
EXTENDS EvmTx, TLAPS

-----------------------------------------------------------------------------
(* Finite sets: the library's facts, for the operators of EvmTx *)

LOCAL FST == INSTANCE FiniteSetTheorems

LEMMA EmptyIsFinite == IsFiniteSet({})
BY FST!FS_EmptySet DEF IsFiniteSet, FST!IsFiniteSet

LEMMA PartIsFinite ==
  ASSUME NEW S, IsFiniteSet(S), NEW T \in SUBSET S
  PROVE  IsFiniteSet(T)
BY ZenonT(30), FST!FS_Subset DEF IsFiniteSet, FST!IsFiniteSet

LEMMA PartIsSmaller ==
  ASSUME NEW S, IsFiniteSet(S), NEW T \in SUBSET S
  PROVE  /\ IsFiniteSet(T) /\ Cardinality(T) <= Cardinality(S)
         /\ Cardinality(S) = Cardinality(T) => S = T
<1>1. FST!IsFiniteSet(S)
  BY DEF IsFiniteSet, FST!IsFiniteSet
<1>2. /\ FST!IsFiniteSet(T) /\ FST!Cardinality(T) <= FST!Cardinality(S)
      /\ FST!Cardinality(S) = FST!Cardinality(T) => S = T
  BY <1>1, FST!FS_Subset, Zenon
<1>. QED
  BY <1>2 DEF IsFiniteSet, FST!IsFiniteSet, Cardinality, FST!Cardinality

LEMMA IntervalIsFinite ==
  ASSUME NEW a \in Int, NEW b \in Int
  PROVE  IsFiniteSet(a..b)
BY Zenon, FST!FS_Interval DEF IsFiniteSet, FST!IsFiniteSet

LEMMA SizeIsNatural ==
  ASSUME NEW S, IsFiniteSet(S)
  PROVE  Cardinality(S) \in Nat
BY Zenon, FST!FS_CardinalityType DEF IsFiniteSet, FST!IsFiniteSet, Cardinality, FST!Cardinality

\* Induction over the subsets of a finite set, as the least counterexample.
LEMMA LeastSubset ==
  ASSUME NEW S, IsFiniteSet(S), NEW C \in SUBSET (SUBSET S), C # {}
  PROVE  \E T \in C : \A U \in SUBSET T : U # T => U \notin C
<1>1. FST!IsFiniteSet(S)
  BY DEF IsFiniteSet, FST!IsFiniteSet
<1>2. FST!IsWellFoundedOn(FST!StrictSubsetOrdering(S), SUBSET S)
  BY <1>1, FST!FS_StrictSubsetOrderingWellFounded, FST!FS_FiniteSubsetsOfFinite, Zenon
<1>3. PICK T \in C : \A U \in C : ~ (<<U, T>> \in FST!StrictSubsetOrdering(S))
  BY <1>2, FST!WFMin, Zenon
<1>4. ASSUME NEW U \in SUBSET T, U # T, U \in C
      PROVE FALSE
  BY Zenon, <1>3, <1>4 DEF FST!StrictSubsetOrdering
<1>. QED
  BY <1>3, <1>4

-----------------------------------------------------------------------------
(* Products and quotients *)

\* Euclidean division by a positive number.
LEMMA DivFacts ==
  ASSUME NEW x \in Nat, NEW t \in Nat \ {0}
  PROVE  /\ x \div t \in Nat
         /\ (x \div t) * t <= x
         /\ x < (x \div t) * t + t
  OBVIOUS

\* A product with a nonnegative factor is monotone.
LEMMA MulMono ==
  ASSUME NEW a \in Int, NEW b \in Int, NEW t \in Nat, a <= b
  PROVE  a * t <= b * t
  <1>1. PICK k \in Nat : b = a + k
    <2>1. b - a \in Nat /\ b = a + (b - a)
      OBVIOUS
    <2> QED
      BY <2>1
  <1>2. k * t \in Nat /\ b * t = a * t + k * t
    BY <1>1
  <1> QED
    BY <1>2

\* A quotient is at most y when the dividend is at most y divisors.
LEMMA DivLe ==
  ASSUME NEW x \in Nat, NEW y \in Nat, NEW t \in Nat \ {0}, x <= y * t
  PROVE  x \div t <= y
  <1> DEFINE q == x \div t
  <1>1. q \in Nat /\ q * t <= x
    BY DivFacts
  <1> HIDE DEF q
  <1>2. SUFFICES ASSUME y + 1 <= q PROVE FALSE
    BY <1>1 DEF q
  <1>3. (y + 1) * t <= q * t
    BY <1>1, <1>2, MulMono
  <1>4. (y + 1) * t = y * t + t /\ y * t \in Nat /\ q * t \in Nat
    BY <1>1
  <1> QED
    BY <1>1, <1>3, <1>4

-----------------------------------------------------------------------------
(* Sums *)

\* The element a fold takes first.
Pick(s) == CHOOSE x \in s : TRUE

\* The recursion a sum is computed by, on the subsets of S.
IsSum(g, f, S) ==
  g = [s \in SUBSET S |-> IF s = {} THEN 0 ELSE f[Pick(s)] + g[s \ {Pick(s)}]]

SumIter(f, S) == CHOOSE g : IsSum(g, f, S)

\* The library's sum is computed by that recursion.
LEMMA SumIs ==
  ASSUME NEW f, NEW S
  PROVE  SumFunctionOnSet(f, S) = SumIter(f, S)[S]
BY DEF SumFunctionOnSet, FoldFunctionOnSet, MapThenFoldSet, SumIter, IsSum, Pick

\* What the recursion says of one subset.
LEMMA SumAt ==
  ASSUME NEW f, NEW S, NEW g, IsSum(g, f, S), NEW U \in SUBSET S
  PROVE  g[U] = IF U = {} THEN 0 ELSE f[Pick(U)] + g[U \ {Pick(U)}]
BY Zenon DEF IsSum

\* The element picked is in the set, so that what is left is smaller.
LEMMA PickLeaves ==
  ASSUME NEW U, U # {}
  PROVE  Pick(U) \in U /\ U \ {Pick(U)} \in SUBSET U /\ U \ {Pick(U)} # U
BY DEF Pick

\* Two recursions agree where both are defined.
LEMMA SumsAgree ==
  ASSUME NEW S, IsFiniteSet(S), NEW T \in SUBSET S, NEW f, NEW g, NEW h, IsSum(g, f, S), IsSum(h, f, T),
         NEW V \in SUBSET T
  PROVE  g[V] = h[V]
<1>. DEFINE C == {U \in SUBSET T : g[U] # h[U]}
<1>1. SUFFICES ASSUME C # {} PROVE FALSE
  OBVIOUS
<1>2. IsFiniteSet(T)
  BY PartIsFinite
<1>3. C \in SUBSET (SUBSET T)
  OBVIOUS
<1>. HIDE DEF C
<1>4. PICK U \in C : \A W \in SUBSET U : W # U => W \notin C
  BY <1>1, <1>2, <1>3, LeastSubset
<1>5. U \in SUBSET T /\ U \in SUBSET S /\ g[U] # h[U]
  BY <1>4 DEF C
<1>6. U # {}
  BY <1>5, SumAt
<1>7. g[U \ {Pick(U)}] = h[U \ {Pick(U)}]
  BY <1>4, <1>5, <1>6, PickLeaves DEF C
<1>. QED
  BY <1>5, <1>6, <1>7, SumAt

\* The recursion has a solution.
LEMMA SumExists ==
  ASSUME NEW S, IsFiniteSet(S), NEW f
  PROVE  IsSum(SumIter(f, S), f, S)
<1>. DEFINE C == {T \in SUBSET S : ~ IsSum(SumIter(f, T), f, T)}
<1>1. SUFFICES ASSUME C # {} PROVE FALSE
  OBVIOUS
<1>2. C \in SUBSET (SUBSET S)
  OBVIOUS
<1>. HIDE DEF C
<1>3. PICK T \in C : \A W \in SUBSET T : W # T => W \notin C
  BY <1>1, <1>2, LeastSubset
<1>4. T \in SUBSET S /\ ~ IsSum(SumIter(f, T), f, T)
  BY <1>3 DEF C
<1>5. ASSUME NEW W \in SUBSET T, W # T
      PROVE IsSum(SumIter(f, W), f, W) /\ IsFiniteSet(W)
  BY <1>3, <1>4, <1>5, PartIsFinite DEF C
<1>. DEFINE Rest(U) == U \ {Pick(U)}
            h == [U \in SUBSET T |-> IF U = {} THEN 0 ELSE f[Pick(U)] + SumIter(f, Rest(U))[Rest(U)]]
<1>6. ASSUME NEW U \in SUBSET T, U # {}
      PROVE h[Rest(U)] = SumIter(f, Rest(U))[Rest(U)]
  <2>1. PICK V : V = Rest(U)
    BY Zenon
  <2>2. V \in SUBSET T /\ V # T
    BY <1>6, <2>1, PickLeaves
  <2>3. IsSum(SumIter(f, V), f, V) /\ IsFiniteSet(V)
    BY <1>5, <2>2
  <2>4. CASE V = {}
    BY <2>1, <2>2, <2>3, <2>4, SumAt
  <2>5. CASE V # {}
    <3>1. Rest(V) \in SUBSET V /\ Rest(V) \in SUBSET T /\ Rest(V) # T
      BY <2>2, <2>5, PickLeaves
    <3>2. IsSum(SumIter(f, Rest(V)), f, Rest(V)) /\ Rest(V) \in SUBSET Rest(V)
      BY <1>5, <3>1
    <3>3. SumIter(f, V)[Rest(V)] = SumIter(f, Rest(V))[Rest(V)]
      BY <2>3, <3>1, <3>2, SumsAgree
    <3>4. SumIter(f, V)[V] = f[Pick(V)] + SumIter(f, V)[Rest(V)]
      BY <2>3, <2>5, SumAt
    <3>5. h[V] = f[Pick(V)] + SumIter(f, Rest(V))[Rest(V)]
      BY <2>2, <2>5
    <3>. QED
      BY <2>1, <3>3, <3>4, <3>5
  <2>. QED
    BY <2>4, <2>5
<1>7. IsSum(h, f, T)
  <2>1. \A U \in SUBSET T : h[U] = IF U = {} THEN 0 ELSE f[Pick(U)] + h[U \ {Pick(U)}]
    BY Zenon, <1>6
  <2>2. h = [U \in SUBSET T |-> h[U]]
    OBVIOUS
  <2>. HIDE DEF h
  <2>. QED
    BY Zenon, <2>1, <2>2 DEF IsSum
<1>. HIDE DEF h
<1>8. IsSum(SumIter(f, T), f, T)
  BY <1>7 DEF SumIter
<1>. QED
  BY <1>4, <1>8

-----------------------------------------------------------------------------
(* Sums *)

\* Nothing adds up to 0.
LEMMA SumEmpty ==
  ASSUME NEW f
  PROVE  SumFunctionOnSet(f, {}) = 0
BY ZenonT(30), SumIs, SumExists, SumAt, EmptyIsFinite

\* The recursion on a set gives the sums of its subsets.
LEMMA SumOfSubset ==
  ASSUME NEW S, IsFiniteSet(S), NEW f, NEW T \in SUBSET S
  PROVE  SumIter(f, S)[T] = SumFunctionOnSet(f, T)
<1>1. IsFiniteSet(T) /\ T \in SUBSET T
  BY PartIsFinite
<1>2. IsSum(SumIter(f, S), f, S) /\ IsSum(SumIter(f, T), f, T)
  BY <1>1, SumExists
<1>3. SumIter(f, S)[T] = SumIter(f, T)[T]
  BY <1>1, <1>2, SumsAgree
<1>. QED
  BY <1>3, SumIs

\* A sum takes its first element off.
LEMMA SumStep ==
  ASSUME NEW S, IsFiniteSet(S), NEW f, S # {}
  PROVE  SumFunctionOnSet(f, S) = f[Pick(S)] + SumFunctionOnSet(f, S \ {Pick(S)})
<1>1. SumFunctionOnSet(f, S) = SumIter(f, S)[S]
  BY SumIs
<1>2. SumIter(f, S)[S] = f[Pick(S)] + SumIter(f, S)[S \ {Pick(S)}]
  BY SumExists, SumAt
<1>3. SumIter(f, S)[S \ {Pick(S)}] = SumFunctionOnSet(f, S \ {Pick(S)})
  BY SumOfSubset, PickLeaves
<1>. QED
  BY <1>1, <1>2, <1>3

\* The sum of natural numbers is one, and of integers too.
LEMMA SumNat ==
  ASSUME NEW S, IsFiniteSet(S), NEW f, \A x \in S : f[x] \in Nat
  PROVE  SumFunctionOnSet(f, S) \in Nat
<1>. DEFINE C == {T \in SUBSET S : SumFunctionOnSet(f, T) \notin Nat}
<1>1. SUFFICES ASSUME C # {} PROVE FALSE
  OBVIOUS
<1>2. C \in SUBSET (SUBSET S)
  OBVIOUS
<1>. HIDE DEF C
<1>3. PICK T \in C : \A W \in SUBSET T : W # T => W \notin C
  BY <1>1, <1>2, LeastSubset
<1>4. T \in SUBSET S /\ IsFiniteSet(T) /\ SumFunctionOnSet(f, T) \notin Nat
  BY <1>3, PartIsFinite DEF C
<1>5. T # {}
  BY <1>4, SumEmpty
<1>6. SumFunctionOnSet(f, T \ {Pick(T)}) \in Nat /\ f[Pick(T)] \in Nat
  BY <1>3, <1>4, <1>5, PickLeaves DEF C
<1>7. SumFunctionOnSet(f, T) = f[Pick(T)] + SumFunctionOnSet(f, T \ {Pick(T)})
  BY Zenon, <1>4, <1>5, SumStep
<1>. QED
  BY <1>4, <1>6, <1>7

\* A sum of integers is one.
LEMMA SumInt ==
  ASSUME NEW S, IsFiniteSet(S), NEW f, \A x \in S : f[x] \in Int
  PROVE  SumFunctionOnSet(f, S) \in Int
<1>. DEFINE C == {T \in SUBSET S : SumFunctionOnSet(f, T) \notin Int}
<1>1. SUFFICES ASSUME C # {} PROVE FALSE
  OBVIOUS
<1>2. C \in SUBSET (SUBSET S)
  OBVIOUS
<1>. HIDE DEF C
<1>3. PICK T \in C : \A W \in SUBSET T : W # T => W \notin C
  BY <1>1, <1>2, LeastSubset
<1>4. T \in SUBSET S /\ IsFiniteSet(T) /\ SumFunctionOnSet(f, T) \notin Int
  BY <1>3, PartIsFinite DEF C
<1>5. T # {}
  BY <1>4, SumEmpty
<1>6. SumFunctionOnSet(f, T \ {Pick(T)}) \in Int /\ f[Pick(T)] \in Int
  BY <1>3, <1>4, <1>5, PickLeaves DEF C
<1>7. SumFunctionOnSet(f, T) = f[Pick(T)] + SumFunctionOnSet(f, T \ {Pick(T)})
  BY Zenon, <1>4, <1>5, SumStep
<1>. QED
  BY <1>4, <1>6, <1>7

\* Any element may be taken out of a sum.
LEMMA SumRemove ==
  ASSUME NEW S, IsFiniteSet(S), NEW f, \A y \in S : f[y] \in Int, NEW x \in S
  PROVE  SumFunctionOnSet(f, S) = f[x] + SumFunctionOnSet(f, S \ {x})
<1>. DEFINE P(T) == \A y \in T : SumFunctionOnSet(f, T) = f[y] + SumFunctionOnSet(f, T \ {y})
            C == {T \in SUBSET S : ~ P(T)}
<1>1. SUFFICES ASSUME C # {} PROVE FALSE
  OBVIOUS
<1>2. C \in SUBSET (SUBSET S)
  OBVIOUS
<1>. HIDE DEF C
<1>3. PICK T \in C : \A W \in SUBSET T : W # T => W \notin C
  BY <1>1, <1>2, LeastSubset
<1>4. T \in SUBSET S /\ IsFiniteSet(T) /\ ~ P(T)
  BY <1>3, PartIsFinite DEF C
<1>5. PICK y \in T : SumFunctionOnSet(f, T) # f[y] + SumFunctionOnSet(f, T \ {y})
  BY Zenon, <1>4
<1>6. PICK z : z = Pick(T)
  OBVIOUS
<1>7. z \in T /\ SumFunctionOnSet(f, T) = f[z] + SumFunctionOnSet(f, T \ {z})
  BY Zenon, <1>4, <1>5, <1>6, PickLeaves, SumStep
<1>8. z # y
  BY <1>5, <1>7
<1>9. P(T \ {z}) /\ P(T \ {y})
  <2>1. T \ {z} \in SUBSET T /\ T \ {z} # T /\ T \ {y} \in SUBSET T /\ T \ {y} # T
    BY <1>5, <1>7
  <2>2. T \ {z} \notin C /\ T \ {y} \notin C
    BY <1>3, <2>1
  <2>. QED
    BY Zenon, <1>4, <2>1, <2>2 DEF C
<1>10. PICK U : U = (T \ {z}) \ {y}
  BY Zenon
<1>11. U = (T \ {y}) \ {z} /\ y \in T \ {z} /\ z \in T \ {y}
  BY <1>5, <1>7, <1>8, <1>10
<1>12. /\ SumFunctionOnSet(f, T \ {z}) = f[y] + SumFunctionOnSet(f, U)
       /\ SumFunctionOnSet(f, T \ {y}) = f[z] + SumFunctionOnSet(f, U)
  BY Zenon, <1>9, <1>10, <1>11
<1>13. SumFunctionOnSet(f, U) \in Int /\ f[y] \in Int /\ f[z] \in Int
  <2>1. U \in SUBSET S /\ IsFiniteSet(U) /\ y \in S /\ z \in S
    BY <1>4, <1>7, <1>10, PartIsFinite
  <2>. QED
    BY <2>1, SumInt
<1>. QED
  BY <1>5, <1>7, <1>12, <1>13

\* A sum depends on the values over its set only.
LEMMA SumSame ==
  ASSUME NEW S, IsFiniteSet(S), NEW f, NEW g, \A x \in S : f[x] = g[x]
  PROVE  SumFunctionOnSet(f, S) = SumFunctionOnSet(g, S)
<1>. DEFINE C == {T \in SUBSET S : SumFunctionOnSet(f, T) # SumFunctionOnSet(g, T)}
<1>1. SUFFICES ASSUME C # {} PROVE FALSE
  OBVIOUS
<1>2. C \in SUBSET (SUBSET S)
  OBVIOUS
<1>. HIDE DEF C
<1>3. PICK T \in C : \A W \in SUBSET T : W # T => W \notin C
  BY <1>1, <1>2, LeastSubset
<1>4. T \in SUBSET S /\ IsFiniteSet(T) /\ SumFunctionOnSet(f, T) # SumFunctionOnSet(g, T)
  BY <1>3, PartIsFinite DEF C
<1>5. T # {}
  BY <1>4, SumEmpty
<1>6. SumFunctionOnSet(f, T \ {Pick(T)}) = SumFunctionOnSet(g, T \ {Pick(T)}) /\ f[Pick(T)] = g[Pick(T)]
  BY <1>3, <1>4, <1>5, PickLeaves DEF C
<1>. QED
  BY <1>4, <1>5, <1>6, SumStep

\* A sum after one of its values is replaced.
LEMMA SumUpdate ==
  ASSUME NEW S, IsFiniteSet(S), NEW f, \A y \in S : f[y] \in Int, NEW x \in S, NEW v \in Int,
         NEW g, g[x] = v, \A y \in S : y # x => g[y] = f[y]
  PROVE  SumFunctionOnSet(g, S) = SumFunctionOnSet(f, S) - f[x] + v
<1>1. IsFiniteSet(S \ {x}) /\ \A y \in S : g[y] \in Int
  BY PartIsFinite
<1>2. SumFunctionOnSet(g, S \ {x}) = SumFunctionOnSet(f, S \ {x})
  BY <1>1, SumSame
<1>3. SumFunctionOnSet(f, S) = f[x] + SumFunctionOnSet(f, S \ {x})
  BY SumRemove
<1>4. SumFunctionOnSet(g, S) = v + SumFunctionOnSet(g, S \ {x})
  BY <1>1, SumRemove
<1>5. SumFunctionOnSet(f, S \ {x}) \in Int /\ f[x] \in Int
  BY <1>1, SumInt
<1>. QED
  BY <1>2, <1>3, <1>4, <1>5

\* The sum of the sums of two functions.
LEMMA SumAdd ==
  ASSUME NEW S, IsFiniteSet(S), NEW f, NEW g, NEW h,
         \A x \in S : f[x] \in Int /\ g[x] \in Int /\ h[x] = f[x] + g[x]
  PROVE  SumFunctionOnSet(h, S) = SumFunctionOnSet(f, S) + SumFunctionOnSet(g, S)
<1>. DEFINE C == {T \in SUBSET S : SumFunctionOnSet(h, T) # SumFunctionOnSet(f, T) + SumFunctionOnSet(g, T)}
<1>1. SUFFICES ASSUME C # {} PROVE FALSE
  OBVIOUS
<1>2. C \in SUBSET (SUBSET S)
  OBVIOUS
<1>. HIDE DEF C
<1>3. PICK T \in C : \A W \in SUBSET T : W # T => W \notin C
  BY <1>1, <1>2, LeastSubset
<1>4. /\ T \in SUBSET S /\ IsFiniteSet(T)
      /\ SumFunctionOnSet(h, T) # SumFunctionOnSet(f, T) + SumFunctionOnSet(g, T)
  BY <1>3, PartIsFinite DEF C
<1>5. T # {}
  <2>. SUFFICES ASSUME T = {} PROVE FALSE
    OBVIOUS
  <2>1. SumFunctionOnSet(h, T) = 0 /\ SumFunctionOnSet(g, T) = 0 /\ SumFunctionOnSet(f, T) = 0
    BY SumEmpty
  <2>. QED
    BY <1>4, <2>1
<1>6. PICK x, U : x = Pick(T) /\ U = T \ {Pick(T)}
  BY Zenon
<1>7. x \in S /\ U \in SUBSET T /\ U \in SUBSET S /\ U # T /\ IsFiniteSet(U)
  BY Zenon, <1>4, <1>5, <1>6, PickLeaves, PartIsFinite
<1>8. SumFunctionOnSet(h, U) = SumFunctionOnSet(f, U) + SumFunctionOnSet(g, U)
  BY <1>3, <1>7 DEF C
<1>9. /\ SumFunctionOnSet(h, T) = h[x] + SumFunctionOnSet(h, U)
      /\ SumFunctionOnSet(f, T) = f[x] + SumFunctionOnSet(f, U)
      /\ SumFunctionOnSet(g, T) = g[x] + SumFunctionOnSet(g, U)
  BY Zenon, <1>4, <1>5, <1>6, SumStep
<1>10. SumFunctionOnSet(f, U) \in Int /\ SumFunctionOnSet(g, U) \in Int
  BY Zenon, <1>7, SumInt
<1>. QED
  BY <1>4, <1>7, <1>8, <1>9, <1>10

\* A sum of c * g[x] at most is at most c times the sum of g.
LEMMA SumAtMost ==
  ASSUME NEW S, IsFiniteSet(S), NEW f, NEW g, NEW c \in Nat,
         \A x \in S : f[x] \in Int /\ g[x] \in Int /\ c * g[x] <= f[x]
  PROVE  c * SumFunctionOnSet(g, S) <= SumFunctionOnSet(f, S)
<1>. DEFINE C == {T \in SUBSET S : ~ (c * SumFunctionOnSet(g, T) <= SumFunctionOnSet(f, T))}
<1>1. SUFFICES ASSUME C # {} PROVE FALSE
  OBVIOUS
<1>2. C \in SUBSET (SUBSET S)
  OBVIOUS
<1>. HIDE DEF C
<1>3. PICK T \in C : \A W \in SUBSET T : W # T => W \notin C
  BY <1>1, <1>2, LeastSubset
<1>4. T \in SUBSET S /\ IsFiniteSet(T) /\ ~ (c * SumFunctionOnSet(g, T) <= SumFunctionOnSet(f, T))
  BY <1>3, PartIsFinite DEF C
<1>5. T # {}
  <2>. SUFFICES ASSUME T = {} PROVE FALSE
    OBVIOUS
  <2>1. SumFunctionOnSet(g, T) = 0 /\ SumFunctionOnSet(f, T) = 0
    BY SumEmpty
  <2>. QED
    BY <1>4, <2>1
<1>6. PICK x, U : x = Pick(T) /\ U = T \ {Pick(T)}
  BY Zenon
<1>7. x \in S /\ U \in SUBSET T /\ U \in SUBSET S /\ U # T /\ IsFiniteSet(U)
  BY <1>4, <1>5, <1>6, PickLeaves, PartIsFinite
<1>8. c * SumFunctionOnSet(g, U) <= SumFunctionOnSet(f, U)
  BY <1>3, <1>7 DEF C
<1>9. /\ SumFunctionOnSet(f, T) = f[x] + SumFunctionOnSet(f, U)
      /\ SumFunctionOnSet(g, T) = g[x] + SumFunctionOnSet(g, U)
  BY Zenon, <1>4, <1>5, <1>6, SumStep
<1>10. SumFunctionOnSet(f, U) \in Int /\ SumFunctionOnSet(g, U) \in Int /\ f[x] \in Int /\ g[x] \in Int
  BY <1>7, SumInt
<1>11. c * g[x] <= f[x]
  BY <1>7
<1>12. \A p, q \in Int : c * (p + q) = c * p + c * q /\ c * p \in Int
  OBVIOUS
<1>. QED
  BY ONLY <1>4, <1>8, <1>9, <1>10, <1>11, <1>12

\* Elements without a value do not count.
LEMMA SumZeros ==
  ASSUME NEW S, IsFiniteSet(S), NEW T \in SUBSET S, NEW f,
         \A x \in S : f[x] \in Int, \A x \in S \ T : f[x] = 0
  PROVE  SumFunctionOnSet(f, S) = SumFunctionOnSet(f, T)
<1>. DEFINE C == {U \in SUBSET S : T \subseteq U /\ SumFunctionOnSet(f, U) # SumFunctionOnSet(f, T)}
<1>1. SUFFICES ASSUME C # {} PROVE FALSE
  OBVIOUS
<1>2. C \in SUBSET (SUBSET S)
  OBVIOUS
<1>. HIDE DEF C
<1>3. PICK U \in C : \A W \in SUBSET U : W # U => W \notin C
  BY <1>1, <1>2, LeastSubset
<1>4. U \in SUBSET S /\ T \subseteq U /\ IsFiniteSet(U) /\ SumFunctionOnSet(f, U) # SumFunctionOnSet(f, T)
  BY <1>3, PartIsFinite DEF C
<1>5. PICK x \in U : x \notin T
  BY <1>4
<1>6. PICK W : W = U \ {x}
  BY Zenon
<1>7. W \in SUBSET S /\ W \in SUBSET U /\ W # U /\ T \subseteq W /\ IsFiniteSet(W)
  BY <1>4, <1>5, <1>6, PartIsFinite
<1>8. SumFunctionOnSet(f, W) = SumFunctionOnSet(f, T)
  BY <1>3, <1>7 DEF C
<1>9. SumFunctionOnSet(f, U) = f[x] + SumFunctionOnSet(f, W)
  BY <1>4, <1>5, <1>6, SumRemove
<1>10. f[x] = 0 /\ SumFunctionOnSet(f, W) \in Int
  BY <1>4, <1>5, <1>7, SumInt
<1>. QED
  BY <1>4, <1>8, <1>9, <1>10

\* The sum over a set, taken group by group.
LEMMA SumByKey ==
  ASSUME NEW D, IsFiniteSet(D), NEW f, \A k \in D : f[k] \in Int,
         NEW A, IsFiniteSet(A), NEW key, \A k \in D : key[k] \in A
  PROVE  SumFunctionOnSet([a \in A |-> SumFunctionOnSet(f, {k \in D : key[k] = a})], A)
         = SumFunctionOnSet(f, D)
<1>. DEFINE Of(E, a) == {k \in E : key[k] = a}
            G(E) == [a \in A |-> SumFunctionOnSet(f, Of(E, a))]
            C == {E \in SUBSET D : SumFunctionOnSet(G(E), A) # SumFunctionOnSet(f, E)}
<1>1. SUFFICES ASSUME C # {} PROVE FALSE
  <2>1. D \in SUBSET D
    OBVIOUS
  <2>. QED
    BY Zenon, <2>1
<1>2. C \in SUBSET (SUBSET D)
  OBVIOUS
<1>3. \A E, a : Of(E, a) = {k \in E : key[k] = a}
  OBVIOUS
<1>. HIDE DEF Of
<1>4. \A E : \A a \in A : G(E)[a] = SumFunctionOnSet(f, Of(E, a))
  OBVIOUS
<1>5. \A E \in SUBSET D : E \in C <=> SumFunctionOnSet(G(E), A) # SumFunctionOnSet(f, E)
  OBVIOUS
<1>. HIDE DEF C, G
<1>6. PICK E \in C : \A W \in SUBSET E : W # E => W \notin C
  BY <1>1, <1>2, LeastSubset
<1>7. E \in SUBSET D /\ IsFiniteSet(E) /\ SumFunctionOnSet(G(E), A) # SumFunctionOnSet(f, E)
  BY <1>5, <1>2, <1>6, PartIsFinite
<1>8. \A W \in SUBSET D : \A a \in A : G(W)[a] \in Int
  <2>. SUFFICES ASSUME NEW W \in SUBSET D, NEW a \in A PROVE G(W)[a] \in Int
    OBVIOUS
  <2>1. Of(W, a) \in SUBSET D
    BY <1>3
  <2>2. IsFiniteSet(Of(W, a))
    BY <2>1, PartIsFinite
  <2>3. SumFunctionOnSet(f, Of(W, a)) \in Int
    BY <2>1, <2>2, SumInt
  <2>. QED
    BY <1>4, <2>3
<1>9. E # {}
  <2>. SUFFICES ASSUME E = {} PROVE FALSE
    OBVIOUS
  <2>1. \A a : Of(E, a) = {}
    BY <1>3
  <2>2. \A a \in A : G(E)[a] = 0
    BY <1>4, <2>1, SumEmpty
  <2>3. SumFunctionOnSet(G(E), A) = SumFunctionOnSet(G(E), {})
    BY <2>2, SumZeros
  <2>. QED
    BY <1>7, <2>3, SumEmpty
<1>10. PICK k, W, b : k = Pick(E) /\ W = E \ {Pick(E)} /\ b = key[Pick(E)]
  BY Zenon
<1>11. k \in E /\ k \in D /\ W \in SUBSET E /\ W \in SUBSET D /\ W # E /\ b \in A /\ b = key[k] /\ W = E \ {k}
  BY Zenon, <1>7, <1>9, <1>10, PickLeaves
<1>12. SumFunctionOnSet(G(W), A) = SumFunctionOnSet(f, W)
  BY <1>5, <1>6, <1>11
<1>13. SumFunctionOnSet(f, E) = f[k] + SumFunctionOnSet(f, W)
  BY Zenon, <1>7, <1>9, <1>10, SumStep
<1>14. G(E)[b] = f[k] + G(W)[b]
  <2>1. k \in Of(E, b) /\ Of(W, b) = Of(E, b) \ {k} /\ Of(E, b) \in SUBSET D
    BY <1>3, <1>7, <1>11
  <2>2. IsFiniteSet(Of(E, b))
    BY <2>1, PartIsFinite
  <2>3. SumFunctionOnSet(f, Of(E, b)) = f[k] + SumFunctionOnSet(f, Of(W, b))
    BY <2>1, <2>2, SumRemove
  <2>. QED
    BY Zenon, <1>4, <1>11, <2>3
<1>15. ASSUME NEW a \in A, a # b PROVE G(E)[a] = G(W)[a]
  <2>1. Of(E, a) = Of(W, a)
    BY Zenon, <1>3, <1>11, <1>15
  <2>. QED
    BY Zenon, <1>4, <2>1
<1>16. f[k] \in Int /\ G(W)[b] \in Int /\ G(E)[b] \in Int /\ SumFunctionOnSet(G(W), A) \in Int
  BY Zenon, <1>8, <1>11, <1>7, SumInt
<1>17. SumFunctionOnSet(G(E), A) = SumFunctionOnSet(G(W), A) - G(W)[b] + G(E)[b]
  <2>1. \A a \in A : G(W)[a] \in Int
    BY Zenon, <1>8, <1>11
  <2>2. \A a \in A : a # b => G(E)[a] = G(W)[a]
    BY Zenon, <1>15
  <2>3. PICK g, h, v : g = G(E) /\ h = G(W) /\ v = G(E)[b]
    BY Zenon
  <2>4. /\ b \in A /\ v \in Int /\ g[b] = v
        /\ \A a \in A : h[a] \in Int
        /\ \A a \in A : a # b => g[a] = h[a]
    BY Zenon, <1>11, <1>16, <2>1, <2>2, <2>3
  <2>5. SumFunctionOnSet(g, A) = SumFunctionOnSet(h, A) - h[b] + v
    BY ONLY IsFiniteSet(A), <2>4, SumUpdate
  <2>. QED
    BY Zenon, <2>3, <2>5
<1>. QED
  BY <1>7, <1>12, <1>13, <1>14, <1>16, <1>17

\* A part of a sum of natural numbers is at most the sum.
LEMMA SumPart ==
  ASSUME NEW S, IsFiniteSet(S), NEW T \in SUBSET S, NEW f, \A x \in S : f[x] \in Nat
  PROVE  SumFunctionOnSet(f, T) <= SumFunctionOnSet(f, S)
<1>1. PICK h : h = [x \in S |-> IF x \in T THEN f[x] ELSE 0]
  BY Zenon
<1>2. \A x \in S : h[x] \in Int /\ f[x] \in Int /\ 1 * h[x] <= f[x] /\ (x \in T => h[x] = f[x]) /\ (x \notin T => h[x] = 0)
  BY <1>1
<1>3. IsFiniteSet(T)
  BY Zenon, PartIsFinite
<1>4. 1 * SumFunctionOnSet(h, S) <= SumFunctionOnSet(f, S)
  BY <1>2, SumAtMost
<1>5. SumFunctionOnSet(h, S) = SumFunctionOnSet(h, T)
  BY <1>2, SumZeros
<1>6. SumFunctionOnSet(h, T) = SumFunctionOnSet(f, T)
  <2>1. \A x \in T : h[x] = f[x]
    BY <1>2
  <2>. QED
    BY Zenon, <1>3, <2>1, SumSame
<1>7. SumFunctionOnSet(f, S) \in Nat /\ SumFunctionOnSet(f, T) \in Nat
  <2>1. \A x \in T : f[x] \in Nat
    OBVIOUS
  <2>. QED
    BY <1>3, <2>1, SumNat
<1>. QED
  BY <1>4, <1>5, <1>6, <1>7

-----------------------------------------------------------------------------
(* Transactions and prices *)

\* A product of naturals is one.
LEMMA MulNat ==
  ASSUME NEW x \in Nat, NEW y \in Nat
  PROVE  x * y \in Nat
OBVIOUS

\* The smaller of two.
LEMMA MinOfTwo ==
  ASSUME NEW x \in Int, NEW y \in Int
  PROVE  Min({x, y}) = IF x <= y THEN x ELSE y
BY DEF Min

\* The larger of two.
LEMMA MaxOfTwo ==
  ASSUME NEW x \in Int, NEW y \in Int
  PROVE  Max({x, y}) = IF x >= y THEN x ELSE y
BY DEF Max

\* A transaction is a non-empty finite sequence of messages.
LEMMA TxIs ==
  ASSUME NEW t \in Txs
  PROVE  /\ t \in Seq(Message) /\ t # << >>
         /\ Len(t) \in Nat \ {0} /\ DOMAIN t = 1..Len(t) /\ IsFiniteSet(DOMAIN t)
         /\ \A k \in DOMAIN t : t[k] \in Message
<1>1. t \in Seq(Message) /\ t # << >>
  BY EvmTxAssumption DEF NoTx
<1>2. Len(t) \in Nat \ {0} /\ DOMAIN t = 1..Len(t) /\ \A k \in DOMAIN t : t[k] \in Message
  BY <1>1
<1>3. IsFiniteSet(1..Len(t))
  BY <1>2, IntervalIsFinite
<1>. QED
  BY Zenon, <1>1, <1>2, <1>3

\* The fields of a message.
LEMMA MessageIs ==
  ASSUME NEW m \in Message
  PROVE  /\ m.from \in Accounts /\ m.to \in Accounts
         /\ m.nonce \in Nat /\ m.gas \in Nat /\ m.feeCap \in Nat /\ m.tipCap \in Nat /\ m.value \in Nat
BY DEF Message

\* The price a message pays is a natural number and at most its fee cap.
LEMMA PriceIs ==
  ASSUME NEW m \in Message, NEW b \in Nat \cup {Nil}
  PROVE  EffectiveGasPrice(m, b) \in Nat /\ EffectiveGasPrice(m, b) <= m.feeCap
<1>1. m.feeCap \in Nat /\ m.tipCap \in Nat
  BY MessageIs
<1>2. CASE b = Nil
  BY <1>1, <1>2 DEF EffectiveGasPrice
<1>3. CASE b # Nil
  <2>1. b \in Nat /\ m.tipCap + b \in Nat
    BY <1>1, <1>3
  <2>2. Min({m.tipCap + b, m.feeCap}) = IF m.tipCap + b <= m.feeCap THEN m.tipCap + b ELSE m.feeCap
    BY ONLY <1>1, <2>1, MinOfTwo
  <2>. QED
    BY <1>1, <1>3, <2>1, <2>2 DEF EffectiveGasPrice
<1>. QED
  BY <1>2, <1>3

\* The fees of the messages of a transaction.
LEMMA FeesIs ==
  ASSUME NEW c \in Config, NEW t \in Txs
  PROVE  /\ c.baseFee \in Nat \cup {Nil} /\ c.minGasPrice \in Nat /\ c.minGasMultiplier \in 0..Dec
         /\ \A k \in DOMAIN t : /\ Fees(c, t)[k] = EffectiveGasPrice(t[k], c.baseFee) * t[k].gas
                                /\ Fees(c, t)[k] \in Nat
<1>1. c.baseFee \in Nat \cup {Nil} /\ c.minGasPrice \in Nat /\ c.minGasMultiplier \in 0..Dec
  BY Zenon DEF Config
<1>2. ASSUME NEW k \in DOMAIN t
      PROVE  /\ Fees(c, t)[k] = EffectiveGasPrice(t[k], c.baseFee) * t[k].gas
             /\ Fees(c, t)[k] \in Nat
  <2>1. t[k] \in Message
    BY TxIs
  <2>2. EffectiveGasPrice(t[k], c.baseFee) \in Nat /\ t[k].gas \in Nat
    BY Zenon, <1>1, <2>1, PriceIs, MessageIs
  <2>3. Fees(c, t)[k] = EffectiveGasPrice(t[k], c.baseFee) * t[k].gas
    BY DEF Fees, EffectiveFee
  <2>. QED
    BY <2>2, <2>3, MulNat
<1>. QED
  BY <1>1, <1>2

\* What an account pays; one that sends nothing pays nothing.
LEMMA FeesOfIs ==
  ASSUME NEW c \in Config, NEW t \in Txs, NEW a
  PROVE  FeesOf(c, t, a) \in Nat /\ (a \notin Senders(t) => FeesOf(c, t, a) = 0)
<1>1. From(t, a) \subseteq DOMAIN t /\ IsFiniteSet(From(t, a))
  BY TxIs, PartIsFinite DEF From
<1>2. SumFunctionOnSet(Fees(c, t), From(t, a)) \in Nat
  BY <1>1, FeesIs, SumNat
<1>3. a \notin Senders(t) => From(t, a) = {}
  BY DEF From, Senders
<1>. QED
  BY <1>2, <1>3, SumEmpty DEF FeesOf

\* The senders are accounts, and finitely many.
LEMMA SendersAre ==
  ASSUME NEW t \in Txs
  PROVE  Senders(t) \subseteq Accounts /\ IsFiniteSet(Senders(t))
<1>1. Senders(t) \subseteq Accounts
  BY Zenon, TxIs, MessageIs DEF Senders
<1>. QED
  BY <1>1, EvmTxAssumption, PartIsFinite

\* What the ante handler takes from all senders.
Taken(c, t) == SumFunction([a \in Senders(t) |-> FeesOf(c, t, a)])

\* It is the fee of every message, however the messages share senders.
LEMMA TakenIs ==
  ASSUME NEW c \in Config, NEW t \in Txs
  PROVE  Taken(c, t) = SumFunctionOnSet(Fees(c, t), DOMAIN t) /\ Taken(c, t) \in Nat
<1>. DEFINE key == [k \in DOMAIN t |-> t[k].from]
            A == Senders(t)
            f == Fees(c, t)
            D == DOMAIN t
            g == [a \in A |-> FeesOf(c, t, a)]
            h == [a \in A |-> SumFunctionOnSet(f, {k \in D : key[k] = a})]
<1>1. IsFiniteSet(D) /\ IsFiniteSet(A) /\ \A k \in D : key[k] \in A
  BY TxIs, SendersAre DEF Senders
<1>2. \A k \in D : f[k] \in Int /\ f[k] \in Nat
  BY FeesIs
<1>3. g = h
  <2>1. ASSUME NEW a \in A PROVE From(t, a) = {k \in D : key[k] = a}
    BY DEF From
  <2>. QED
    BY Zenon, <2>1 DEF FeesOf
<1>4. Taken(c, t) = SumFunctionOnSet(g, A)
  BY DEF Taken, SumFunction
<1>. HIDE DEF key, f, D, A, g
<1>5. SumFunctionOnSet(h, A) = SumFunctionOnSet(f, D)
  BY ONLY <1>1, <1>2, SumByKey
<1>6. SumFunctionOnSet(f, D) \in Nat
  BY <1>1, <1>2, SumNat
<1>. QED
  BY Zenon, <1>3, <1>4, <1>5, <1>6 DEF f, D

-----------------------------------------------------------------------------
(* What the ante handler and a message do to the accounts *)

\* A state of the accounts and its finite supply.
LEMMA StateIs ==
  ASSUME NEW s \in State
  PROVE  /\ s.balance \in [Accounts -> Nat] /\ s.sequence \in [Accounts -> Nat] /\ s.exists \subseteq Accounts
         /\ Supply(s) = SumFunctionOnSet(s.balance, Accounts) /\ Supply(s) \in Nat
<1>1. s.balance \in [Accounts -> Nat] /\ s.sequence \in [Accounts -> Nat] /\ s.exists \subseteq Accounts
  BY DEF State
<1>2. Supply(s) = SumFunctionOnSet(s.balance, Accounts)
  BY Zenon, <1>1 DEF Supply, SumFunction
<1>3. SumFunctionOnSet(s.balance, Accounts) \in Nat
  BY Zenon, <1>1, EvmTxAssumption, SumNat
<1>. QED
  BY <1>1, <1>2, <1>3

\* In a block the ante handler moves the fees out of the accounts.
LEMMA AnteMoves ==
  ASSUME NEW s \in State, NEW c \in Config, NEW t \in Txs, AnteOK(s, c, t, "deliver"),
         NEW n, n = AnteState(s, c, t, "deliver")
  PROVE  n \in State /\ Supply(n) + Taken(c, t) = Supply(s)
<1>. DEFINE fee == [a \in Accounts |-> FeesOf(c, t, a)]
            left == [a \in Accounts |-> s.balance[a] - fee[a]]
<1>1. /\ s.balance \in [Accounts -> Nat] /\ s.sequence \in [Accounts -> Nat] /\ s.exists \subseteq Accounts
      /\ Supply(s) = SumFunctionOnSet(s.balance, Accounts) /\ Supply(s) \in Nat
  BY StateIs
<1>2. fee \in [Accounts -> Nat] /\ \A a \in Accounts \ Senders(t) : fee[a] = 0
  BY Zenon, FeesOfIs
<1>3. \A a \in Accounts : fee[a] <= s.balance[a]
  <2>1. \A a \in Senders(t) : FeesOf(c, t, a) <= s.balance[a]
    BY DEF AnteOK, CheckEthGasConsume, CanPay, Verified
  <2>. QED
    BY <1>1, <1>2, <2>1
<1>4. left \in [Accounts -> Nat]
  BY <1>1, <1>2, <1>3
<1>5. PICK seq : seq = [a \in Accounts |-> s.sequence[a] + Cardinality(From(t, a))]
  BY Zenon
<1>6. seq \in [Accounts -> Nat]
  <2>1. ASSUME NEW a \in Accounts PROVE IsFiniteSet(From(t, a))
    BY TxIs, PartIsFinite DEF From
  <2>2. ASSUME NEW a \in Accounts PROVE Cardinality(From(t, a)) \in Nat
    BY <2>1, SizeIsNatural
  <2>. QED
    BY <1>1, <1>5, <2>2
<1>7. n.balance = left /\ n \in State
  <2>1. n = [s EXCEPT !.balance = left, !.sequence = seq]
    BY Zenon, <1>5 DEF AnteState, Verified
  <2>. HIDE DEF left
  <2>. QED
    BY Zenon, <1>4, <1>6, <2>1 DEF State
<1>8. Supply(n) = SumFunctionOnSet(left, Accounts)
  BY Zenon, <1>7, StateIs
<1>9. SumFunctionOnSet(s.balance, Accounts) = SumFunctionOnSet(left, Accounts) + SumFunctionOnSet(fee, Accounts)
  <2>1. \A a \in Accounts : left[a] \in Int /\ fee[a] \in Int /\ s.balance[a] = left[a] + fee[a]
    BY <1>1, <1>2, <1>3
  <2>. HIDE DEF left, fee
  <2>. QED
    BY ZenonT(30), <2>1, EvmTxAssumption, SumAdd
<1>10. SumFunctionOnSet(fee, Accounts) = Taken(c, t)
  <2>1. SumFunctionOnSet(fee, Accounts) = SumFunctionOnSet(fee, Senders(t))
    <3>1. \A a \in Accounts : fee[a] \in Int
      BY <1>2
    <3>. HIDE DEF fee
    <3>. QED
      BY <1>2, <3>1, EvmTxAssumption, SendersAre, SumZeros
  <2>2. PICK g : g = [a \in Senders(t) |-> FeesOf(c, t, a)]
    BY ZenonT(30)
  <2>3. \A a \in Senders(t) : fee[a] = g[a]
    BY <2>2, SendersAre
  <2>4. SumFunctionOnSet(fee, Senders(t)) = SumFunctionOnSet(g, Senders(t))
    BY Zenon, <2>3, SendersAre, SumSame
  <2>. QED
    BY ZenonT(30), <2>1, <2>2, <2>4 DEF Taken, SumFunction
<1>. QED
  BY ZenonT(30), <1>1, <1>7, <1>8, <1>9, <1>10

\* A message moves its value and the refund arrives.
LEMMA ExecutedMoves ==
  ASSUME NEW s \in State, NEW m \in Message, NEW refund \in Nat, s.balance[m.from] >= m.value,
         NEW n, n = Executed(s, m, refund)
  PROVE  n \in State /\ Supply(n) = Supply(s) + refund
<1>. DEFINE bal == s.balance
            paid == [bal EXCEPT ![m.from] = @ - m.value]
            moved == [paid EXCEPT ![m.to] = @ + m.value]
            back == [moved EXCEPT ![m.from] = @ + refund]
<1>1. /\ m.from \in Accounts /\ m.to \in Accounts /\ m.value \in Nat /\ m.nonce \in Nat
      /\ bal \in [Accounts -> Nat] /\ s.sequence \in [Accounts -> Nat] /\ s.exists \subseteq Accounts
      /\ IsFiniteSet(Accounts)
  BY ZenonT(30), MessageIs, StateIs, EvmTxAssumption
<1>2. paid \in [Accounts -> Nat] /\ moved \in [Accounts -> Nat] /\ back \in [Accounts -> Nat]
  BY <1>1
<1>3. n.balance = back /\ n \in State
  <2>1. PICK seq : seq = IF m.create THEN [s.sequence EXCEPT ![m.from] = m.nonce + 1] ELSE s.sequence
    BY Zenon
  <2>2. PICK ex : ex = IF m.create \/ m.value > 0 THEN s.exists \cup {m.to} ELSE s.exists
    BY ZenonT(30)
  <2>3. seq \in [Accounts -> Nat] /\ ex \subseteq Accounts
    BY <1>1, <2>1, <2>2
  <2>4. n = [s EXCEPT !.balance = back, !.sequence = seq, !.exists = ex]
    BY Zenon, <2>1, <2>2 DEF Executed
  <2>. HIDE DEF back
  <2>. QED
    BY Zenon, <1>2, <2>3, <2>4 DEF State
<1>4. SumFunctionOnSet(paid, Accounts) = SumFunctionOnSet(bal, Accounts) - bal[m.from] + (bal[m.from] - m.value)
  BY ONLY <1>1, SumUpdate
<1>5. SumFunctionOnSet(moved, Accounts) = SumFunctionOnSet(paid, Accounts) - paid[m.to] + (paid[m.to] + m.value)
  <2>1. moved[m.to] = paid[m.to] + m.value /\ \A x \in Accounts : x # m.to => moved[x] = paid[x]
    BY Zenon, <1>1, <1>2
  <2>2. paid[m.to] + m.value \in Int /\ \A x \in Accounts : paid[x] \in Int
    BY ONLY <1>1, <1>2
  <2>. HIDE DEF moved, paid
  <2>. QED
    BY ONLY SMTT(30), Z3T(30), <1>1, <2>1, <2>2, SumUpdate
<1>6. SumFunctionOnSet(back, Accounts) = SumFunctionOnSet(moved, Accounts) - moved[m.from] + (moved[m.from] + refund)
  <2>1. back[m.from] = moved[m.from] + refund /\ \A x \in Accounts : x # m.from => back[x] = moved[x]
    BY ZenonT(30), <1>1, <1>2
  <2>2. moved[m.from] + refund \in Int /\ \A x \in Accounts : moved[x] \in Int
    BY ONLY SMTT(60), Z3T(60), <1>1, <1>2
  <2>. HIDE DEF back, moved
  <2>. QED
    BY SMTT(30), Z3T(30), <1>1, <2>1, <2>2, SumUpdate
<1>7. /\ bal[m.from] \in Int /\ paid[m.to] \in Int /\ moved[m.from] \in Int
      /\ SumFunctionOnSet(bal, Accounts) \in Int
  BY ONLY <1>1, <1>2, SumInt
<1>. HIDE DEF paid, moved, back
<1>8. Supply(n) = SumFunctionOnSet(back, Accounts) /\ Supply(s) = SumFunctionOnSet(bal, Accounts)
  BY <1>3, StateIs
<1>. QED
  BY ONLY <1>1, <1>3, <1>4, <1>5, <1>6, <1>7, <1>8

-----------------------------------------------------------------------------
(* The types of the state of a block *)

\* What the proofs need of the types: outside the messages of a transaction no
\* fee is held, and inside the branch is a state of its own.
BlockTypes ==
  /\ pc \in {"idle", "block", "msgs"} /\ cfg \in Config /\ checkCfg \in Config
  /\ deliver \in State /\ escrow \in Nat /\ collected \in Nat
  /\ pc # "msgs" => escrow = 0
  /\ pc = "msgs" => /\ tx \in Txs /\ msgIndex \in 1..(Len(tx) + 1)
                    /\ branch.state \in State /\ branch.escrow \in Nat

\* A configuration with another base fee.
LEMMA ConfigIs ==
  ASSUME NEW c \in Config, NEW b \in Nat \cup {Nil}
  PROVE  [c EXCEPT !.baseFee = b] \in Config
BY DEF Config

\* What the refund and the gas of a message are.
LEMMA ApplyIs ==
  ASSUME BlockTypes, ApplyTransaction
  PROVE  \E used \in Nat, emitted, logs \in BOOLEAN :
           LET m == tx[msgIndex]
               gasUsed == GasUsed(m, used, cfg.minGasMultiplier)
           IN  /\ pc = "msgs" /\ pc' = "msgs" /\ msgIndex \in DOMAIN tx /\ m \in Message
               /\ used <= m.gas
               /\ RefundGas(m, gasUsed) \in 0..branch.escrow
               /\ branch.state.balance[m.from] >= m.value
               /\ branch'.state = Executed(branch.state, m, RefundGas(m, gasUsed))
               /\ branch'.escrow = branch.escrow - RefundGas(m, gasUsed)
               /\ branch'.gas = branch.gas + gasUsed
               /\ branch'.blooms = IF emitted THEN branch.blooms \cup {BloomKey} ELSE branch.blooms
               /\ branch'.msgs = Append(branch.msgs, [gasUsed |-> gasUsed, emitted |-> emitted, logs |-> logs])
               /\ (~ Hooks => logs = emitted)
               /\ msgIndex' = msgIndex + 1 /\ msgIndex' \in 1..(Len(tx) + 1)
<1>1. pc = "msgs" /\ tx \in Txs /\ msgIndex \in 1..(Len(tx) + 1) /\ msgIndex <= Len(tx)
  BY Zenon DEF BlockTypes, ApplyTransaction
<1>2. /\ msgIndex \in DOMAIN tx /\ tx[msgIndex] \in Message /\ msgIndex + 1 \in 1..(Len(tx) + 1)
      /\ tx[msgIndex].gas \in Nat
  BY ONLY SMTT(30), Z3T(30), <1>1, TxIs, MessageIs
<1>3. PICK used \in UsedGas \cap IntrinsicGas..tx[msgIndex].gas, refund \in Refunds, emitted, logs \in BOOLEAN :
        LET m == tx[msgIndex]
            gasUsed == GasUsed(m, used, cfg.minGasMultiplier)
        IN  /\ RefundGas(m, gasUsed) \in 0..branch.escrow
            /\ branch' = [state |-> Executed(branch.state, m, RefundGas(m, gasUsed)),
                          escrow |-> branch.escrow - RefundGas(m, gasUsed),
                          gas |-> branch.gas + gasUsed,
                          blooms |-> IF emitted THEN branch.blooms \cup {BloomKey} ELSE branch.blooms,
                          msgs |-> Append(branch.msgs, [gasUsed |-> gasUsed, emitted |-> emitted, logs |-> logs])]
            /\ (~ Hooks => logs = emitted)
  BY ZenonT(30) DEF ApplyTransaction
<1>4. used \in Nat /\ used <= tx[msgIndex].gas
  BY ONLY SMTT(60), Z3T(60), <1>2, <1>3, EvmTxAssumption
<1>5. branch.state.balance[tx[msgIndex].from] >= tx[msgIndex].value /\ pc' = "msgs" /\ msgIndex' = msgIndex + 1
  BY ZenonT(30), <1>1 DEF ApplyTransaction
<1>. QED
  BY ZenonT(30), <1>1, <1>2, <1>3, <1>4, <1>5

\* The types hold initially.
LEMMA InitTypes ==
  ASSUME Init
  PROVE  BlockTypes
BY EvmTxAssumption DEF Init, BlockTypes

\* Every step keeps the types.
LEMMA StepTypes ==
  ASSUME BlockTypes, [Next]_vars
  PROVE  BlockTypes'
<1>1. CASE UNCHANGED vars
  BY <1>1 DEF vars, BlockTypes
<1>2. ASSUME NEW t \in Txs, CheckTx(t) PROVE BlockTypes'
  BY <1>2 DEF CheckTx, BlockTypes
<1>3. ASSUME NEW t \in Txs, DeliverTx(t) PROVE BlockTypes'
  <2>1. deliver' \in State /\ escrow' = Taken(cfg, t)
    BY <1>3, AnteMoves DEF DeliverTx, BlockTypes, Taken
  <2>2. escrow' \in Nat
    BY <2>1, TakenIs DEF BlockTypes
  <2>3. tx' \in Txs /\ msgIndex' \in 1..(Len(tx') + 1)
    BY <1>3, TxIs DEF DeliverTx
  <2>. QED
    BY Zenon, <1>3, <2>1, <2>2, <2>3 DEF DeliverTx, BlockTypes, checkVars
<1>4. CASE BeginBlock
  <2>1. cfg' \in Config
    BY Zenon, <1>4, EvmTxAssumption, ConfigIs DEF BeginBlock, BlockTypes
  <2>. QED
    BY <1>4, <2>1 DEF BeginBlock, BlockTypes, checkVars
<1>5. CASE EndBlock
  <2>1. PICK c \in Configs \cup {cfg} : cfg' = [c EXCEPT !.baseFee = cfg.baseFee] /\ checkCfg' = cfg'
    BY Zenon, <1>5 DEF EndBlock
  <2>2. c \in Config /\ cfg.baseFee \in Nat \cup {Nil}
    BY Zenon, <2>1, EvmTxAssumption DEF BlockTypes, Config
  <2>3. cfg' \in Config /\ checkCfg' \in Config
    BY <2>1, <2>2, ConfigIs
  <2>. QED
    BY Zenon, <1>5, <2>3 DEF EndBlock, BlockTypes
<1>6. CASE ApplyTransaction
  <2>1. PICK used \in Nat :
           LET m == tx[msgIndex]
               refund == RefundGas(m, GasUsed(m, used, cfg.minGasMultiplier))
           IN  /\ pc = "msgs" /\ m \in Message
               /\ refund \in 0..branch.escrow /\ branch.state.balance[m.from] >= m.value
               /\ branch'.state = Executed(branch.state, m, refund)
               /\ branch'.escrow = branch.escrow - refund
               /\ msgIndex' \in 1..(Len(tx) + 1)
    BY Zenon, <1>6, ApplyIs
  <2>2. PICK refund : refund = RefundGas(tx[msgIndex], GasUsed(tx[msgIndex], used, cfg.minGasMultiplier))
    BY Zenon
  <2>3. refund \in Nat /\ branch.escrow - refund \in Nat
    BY SMTT(30), Z3T(30), <2>1, <2>2 DEF BlockTypes
  <2>4. branch'.state \in State /\ branch'.escrow \in Nat
    BY ZenonT(30), <2>1, <2>2, <2>3, ExecutedMoves DEF BlockTypes
  <2>. QED
    BY ZenonT(30), <1>6, <2>1, <2>4 DEF ApplyTransaction, BlockTypes, checkVars
<1>7. CASE TxSucceeds
  BY SMTT(30), Z3T(30), <1>7 DEF TxSucceeds, TxDone, Receipt, BlockTypes, checkVars
<1>8. CASE MessageFails
  BY SMTT(30), Z3T(30), <1>8 DEF MessageFails, TxDone, Receipt, BlockTypes, checkVars
<1>9. CASE MessageErrors
  BY <1>9 DEF MessageErrors, TxDone, Receipt, BlockTypes, checkVars
<1>. QED
  BY Zenon, <1>1, <1>2, <1>3, <1>4, <1>5, <1>6, <1>7, <1>8, <1>9 DEF Next

-----------------------------------------------------------------------------
(* Conservation of coins *)

\* Every step conserves the coins.
LEMMA StepCoins ==
  ASSUME BlockTypes, CoinsConserved, [Next]_vars
  PROVE  CoinsConserved'
<1>0. Supply(deliver) \in Nat /\ Supply(Genesis) \in Nat
  BY EvmTxAssumption, StateIs DEF BlockTypes
<1>1. CASE UNCHANGED vars
  BY Zenon, <1>1 DEF vars, CoinsConserved, Supply
<1>2. ASSUME NEW t \in Txs, CheckTx(t) PROVE CoinsConserved'
  BY <1>2 DEF CheckTx, CoinsConserved, Supply
<1>3. ASSUME NEW t \in Txs, DeliverTx(t) PROVE CoinsConserved'
  <2>1. /\ Supply(deliver') + Taken(cfg, t) = Supply(deliver) /\ escrow' = Taken(cfg, t)
        /\ deliver' \in State
    BY Zenon, <1>3, AnteMoves DEF DeliverTx, BlockTypes, Taken
  <2>2. /\ branch'.state = deliver' /\ branch'.escrow = escrow' /\ collected' = collected
        /\ escrow = 0 /\ pc' = "msgs"
    BY Zenon, <1>3 DEF DeliverTx, BlockTypes
  <2>3. Supply(deliver') \in Nat /\ Taken(cfg, t) \in Nat /\ collected \in Nat
    BY <2>1, StateIs, TakenIs DEF BlockTypes
  <2>4. Supply(deliver') + escrow' + collected' = Supply(Genesis)
    BY <1>0, <2>1, <2>2, <2>3 DEF CoinsConserved
  <2>. QED
    BY Zenon, <2>2, <2>4 DEF CoinsConserved, Supply
<1>4. CASE BeginBlock
  BY <1>4 DEF BeginBlock, CoinsConserved, Supply
<1>5. CASE EndBlock
  BY <1>5 DEF EndBlock, CoinsConserved, Supply
<1>6. CASE ApplyTransaction
  <2>1. PICK used \in Nat :
           LET m == tx[msgIndex]
               refund == RefundGas(m, GasUsed(m, used, cfg.minGasMultiplier))
           IN  /\ pc = "msgs" /\ m \in Message
               /\ refund \in 0..branch.escrow /\ branch.state.balance[m.from] >= m.value
               /\ branch'.state = Executed(branch.state, m, refund)
               /\ branch'.escrow = branch.escrow - refund
    BY ZenonT(30), <1>6, ApplyIs
  <2>2. PICK refund : refund = RefundGas(tx[msgIndex], GasUsed(tx[msgIndex], used, cfg.minGasMultiplier))
    BY Zenon
  <2>3. refund \in Nat /\ branch.escrow \in Nat /\ branch.state \in State /\ collected \in Nat
    BY <2>1, <2>2 DEF BlockTypes
  <2>4. Supply(branch'.state) = Supply(branch.state) + refund
    BY ZenonT(30), <2>1, <2>2, <2>3, ExecutedMoves
  <2>5. Supply(branch.state) \in Nat
    BY Zenon, <2>3, StateIs
  <2>6. Supply(branch'.state) + branch'.escrow + collected = Supply(Genesis)
    BY SMTT(30), Z3T(30), <2>1, <2>2, <2>3, <2>4, <2>5 DEF CoinsConserved
  <2>7. UNCHANGED <<deliver, escrow, collected>>
    BY ZenonT(30), <1>6 DEF ApplyTransaction
  <2>. QED
    BY SMTT(30), Z3T(30), <2>6, <2>7 DEF CoinsConserved, Supply
<1>7. CASE TxSucceeds
  <2>1. /\ deliver' = branch.state /\ escrow' = 0 /\ collected' = collected + branch.escrow
        /\ pc = "msgs" /\ pc' = "block"
    BY <1>7 DEF TxSucceeds, TxDone, Receipt
  <2>2. branch.escrow \in Nat /\ collected \in Nat /\ Supply(branch.state) \in Nat
    BY <2>1, StateIs DEF BlockTypes
  <2>3. Supply(branch.state) + 0 + (collected + branch.escrow) = Supply(Genesis)
    BY <2>1, <2>2 DEF CoinsConserved
  <2>. QED
    BY Zenon, <2>1, <2>3 DEF CoinsConserved, Supply
<1>8. ASSUME MessageFails \/ MessageErrors PROVE CoinsConserved'
  <2>1. deliver' = deliver /\ escrow' = 0 /\ collected' = collected + escrow /\ pc' = "block"
    BY Zenon, <1>8 DEF MessageFails, MessageErrors, TxDone, Receipt
  <2>2. Supply(deliver) + 0 + (collected + escrow) = Supply(Genesis)
    BY <1>0 DEF CoinsConserved, BlockTypes
  <2>. QED
    BY SMTT(30), Z3T(30), <2>1, <2>2 DEF CoinsConserved, Supply
<1>. QED
  BY ZenonT(30), <1>1, <1>2, <1>3, <1>4, <1>5, <1>6, <1>7, <1>8 DEF Next

\* Whatever transactions a block holds and however their messages end, fees,
\* refunds and transfers neither create nor destroy coins: the accounts, the
\* fees of the transaction under way and the fees collected add up to the
\* genesis supply (DeductFees, RefundGas and the discarded branches of baseapp).
THEOREM CoinsAreConserved == Spec => []CoinsConserved
<1>1. Init => BlockTypes /\ CoinsConserved
  <2>. SUFFICES ASSUME Init PROVE CoinsConserved
    BY InitTypes
  <2>1. deliver = Genesis /\ escrow = 0 /\ collected = 0 /\ pc = "idle" /\ Supply(Genesis) \in Nat
    BY EvmTxAssumption, StateIs DEF Init
  <2>. QED
    BY <2>1 DEF CoinsConserved
<1>2. BlockTypes /\ CoinsConserved /\ [Next]_vars => BlockTypes' /\ CoinsConserved'
  BY StepTypes, StepCoins
<1>. QED
  BY <1>1, <1>2, PTL DEF Spec


-----------------------------------------------------------------------------
(* What a message pays *)

\* minimum gas multiplier adds.
LEMMA GasUsedIs ==
  ASSUME NEW m \in Message, NEW c \in Config, NEW used \in Nat, used <= m.gas
  PROVE  GasUsed(m, used, c.minGasMultiplier) \in Nat /\ GasUsed(m, used, c.minGasMultiplier) <= m.gas
<1>1. m.gas \in Nat /\ c.minGasMultiplier \in Nat /\ c.minGasMultiplier <= Dec /\ Dec \in Nat \ {0}
  BY EvmTxAssumption DEF Message, Config
<1>2. PICK x : x = m.gas * c.minGasMultiplier
  OBVIOUS
<1>3. x \in Nat
  BY <1>1, <1>2, MulNat
<1>4. x <= m.gas * Dec
  <2>1. c.minGasMultiplier * m.gas <= Dec * m.gas
    BY SMTT(30), Z3T(30), <1>1, MulMono
  <2>. QED
    BY <1>1, <1>2, <2>1
<1>5. x \div Dec \in Nat /\ x \div Dec <= m.gas
  BY ZenonT(30), <1>1, <1>3, <1>4, DivFacts, DivLe
<1>6. GasUsed(m, used, c.minGasMultiplier) = IF x \div Dec >= used THEN x \div Dec ELSE used
  BY <1>2, <1>5, MaxOfTwo DEF GasUsed
<1>. QED
  BY SMTT(30), Z3T(30), <1>5, <1>6

\* The sum of a function is that over its domain.
LEMMA SumOverDomain ==
  ASSUME NEW f, NEW D, D = DOMAIN f
  PROVE  SumFunction(f) = SumFunctionOnSet(f, D)
BY DEF SumFunction

\* A message of a transaction that passed CheckEthMinGasPrice pays the minimum
\* gas price for the gas it used, and at most what its signer offered.
LEMMA MessagePays ==
  ASSUME NEW c \in Config, NEW t \in Txs, CheckEthMinGasPrice(c, t), NEW k \in DOMAIN t,
         NEW g \in Nat, g <= t[k].gas
  PROVE  LET p == EffectiveGasPrice(t[k], c.baseFee) IN
         /\ p * g \in Nat /\ c.minGasPrice * g <= p * g /\ p * g <= Fees(c, t)[k]
         /\ p * g <= t[k].feeCap * t[k].gas /\ t[k].feeCap * t[k].gas \in Nat
<1>1. PICK p : p = EffectiveGasPrice(t[k], c.baseFee)
  BY ZenonT(30)
<1>2. t[k] \in Message /\ c.baseFee \in Nat \cup {Nil} /\ c.minGasPrice \in Nat
  BY SMTT(30), Z3T(30), TxIs, FeesIs
<1>3. p \in Nat /\ p <= t[k].feeCap /\ t[k].feeCap \in Nat /\ t[k].gas \in Nat /\ Fees(c, t)[k] = p * t[k].gas
  BY Zenon, <1>1, <1>2, PriceIs, MessageIs, FeesIs
<1>4. p * g <= p * t[k].gas
  <2>1. g * p <= t[k].gas * p
    BY <1>3, MulMono
  <2>. QED
    BY <1>3, <2>1
<1>5. p * t[k].gas <= t[k].feeCap * t[k].gas
  BY ONLY SMTT(30), Z3T(30), <1>3, MulMono
<1>6. c.minGasPrice * g <= p * g
  <2>1. CASE c.minGasPrice <= p
    BY ONLY SMTT(30), Z3T(30), <1>2, <1>3, <2>1, MulMono
  <2>2. CASE c.minGasPrice >= p + 1
    <3>1. p * t[k].gas >= c.minGasPrice * t[k].gas
      BY SMTT(30), Z3T(30), <1>1, <1>2, <1>3, <2>2 DEF CheckEthMinGasPrice, EffectiveFee
    <3>2. (p + 1) * t[k].gas <= c.minGasPrice * t[k].gas
      <4>1. p + 1 \in Int /\ c.minGasPrice \in Int /\ p + 1 <= c.minGasPrice /\ t[k].gas \in Nat
        BY ONLY SMTT(30), Z3T(30), <1>2, <1>3, <2>2
      <4>. QED
        BY ONLY Zenon, <4>1, MulMono
    <3>3. (p + 1) * t[k].gas = p * t[k].gas + t[k].gas
      BY SMTT(30), Z3T(30), <1>3
    <3>4. p * t[k].gas \in Nat /\ c.minGasPrice * t[k].gas \in Nat
      BY Zenon, <1>2, <1>3, MulNat
    <3>5. t[k].gas = 0
      BY ONLY SMTT(30), Z3T(30), <1>3, <3>1, <3>2, <3>3, <3>4
    <3>6. g = 0
      BY SMTT(30), Z3T(30), <1>3, <3>5
    <3>. QED
      BY ONLY SMTT(30), Z3T(30), <1>2, <1>3, <3>6
  <2>. QED
    BY ONLY SMTT(30), Z3T(30), <1>2, <1>3, <2>1, <2>2
<1>7. p * g \in Nat /\ p * t[k].gas \in Nat /\ t[k].feeCap * t[k].gas \in Nat
  BY SMTT(30), Z3T(30), <1>3, MulNat
<1>. QED
  BY SMTT(30), Z3T(30), <1>1, <1>3, <1>4, <1>5, <1>6, <1>7

\* What the messages of t are charged when those before i used what ms says and
\* nothing was refunded to the others, and the gas those used.
Charged(c, t, ms, i) ==
  [k \in DOMAIN t |-> IF k < i THEN EffectiveGasPrice(t[k], c.baseFee) * ms[k].gasUsed ELSE Fees(c, t)[k]]
UsedBefore(t, ms, i) == [k \in DOMAIN t |-> IF k < i THEN ms[k].gasUsed ELSE 0]

\* The results of the messages before i of t: without hooks the logs of a response
\* are the emitted ones.
MessageResult == {x \in [gasUsed : Nat, emitted : BOOLEAN, logs : BOOLEAN] : ~ Hooks => x.logs = x.emitted}
WithResult(ms, x) == Append(ms, x)
ResultsOf(t, ms, i) ==
  /\ ms \in Seq(MessageResult) /\ Len(ms) = i - 1
  /\ \A k \in 1..(i - 1) : ms[k].gasUsed <= t[k].gas

\* Message by message: what is charged is at least the minimum gas price for
\* the gas used, and at most the full fee and the offer.
LEMMA ChargedIs ==
  ASSUME NEW c \in Config, NEW t \in Txs, CheckEthMinGasPrice(c, t),
         NEW i \in 1..(Len(t) + 1), NEW ms, ResultsOf(t, ms, i), NEW k \in DOMAIN t
  PROVE  /\ Charged(c, t, ms, i)[k] \in Nat /\ UsedBefore(t, ms, i)[k] \in Nat
         /\ c.minGasPrice * UsedBefore(t, ms, i)[k] <= Charged(c, t, ms, i)[k]
         /\ c.minGasPrice * UsedBefore(t, ms, i)[k] <= Fees(c, t)[k]
         /\ Charged(c, t, ms, i)[k] <= t[k].feeCap * t[k].gas
         /\ Fees(c, t)[k] <= t[k].feeCap * t[k].gas /\ Fees(c, t)[k] \in Nat /\ t[k].feeCap * t[k].gas \in Nat
<1>1. k \in 1..Len(t) /\ Len(t) \in Nat /\ t[k].gas \in Nat /\ c.minGasPrice \in Nat
  BY Zenon, TxIs, MessageIs, FeesIs
<1>2. PICK g : g = IF k < i THEN ms[k].gasUsed ELSE 0
  BY Zenon
<1>3. g \in Nat /\ g <= t[k].gas
  <2>1. CASE k < i
    <3>1. k \in 1..(i - 1) /\ k \in 1..Len(ms) /\ ms \in Seq(MessageResult)
      BY <1>1, <2>1 DEF ResultsOf
    <3>2. ms[k] \in MessageResult
      BY <3>1
    <3>3. ms[k].gasUsed \in Nat
      BY <3>2 DEF MessageResult
    <3>. QED
      BY <1>2, <2>1, <3>1, <3>3 DEF ResultsOf
  <2>2. CASE ~ (k < i)
    BY <1>1, <1>2, <2>2
  <2>. QED
    BY <2>1, <2>2
<1>4. PICK p : p = EffectiveGasPrice(t[k], c.baseFee)
  BY Zenon
<1>5. /\ p * g \in Nat /\ c.minGasPrice * g <= p * g /\ p * g <= Fees(c, t)[k]
      /\ p * g <= t[k].feeCap * t[k].gas /\ t[k].feeCap * t[k].gas \in Nat
  BY Zenon, <1>3, <1>4, MessagePays
<1>6. p * t[k].gas <= t[k].feeCap * t[k].gas
  BY <1>1, <1>4, MessagePays
<1>7. Fees(c, t)[k] = p * t[k].gas /\ Fees(c, t)[k] \in Nat
  BY Zenon, <1>4, FeesIs
<1>8. UsedBefore(t, ms, i)[k] = g /\ Charged(c, t, ms, i)[k] = IF k < i THEN p * g ELSE Fees(c, t)[k]
  BY <1>2, <1>4 DEF UsedBefore, Charged
<1>9. c.minGasPrice * g \in Nat
  BY Zenon, <1>1, <1>3, MulNat
<1>10. c.minGasPrice * g <= Fees(c, t)[k]
  BY <1>5, <1>7, <1>9
<1>11. CASE k < i
  <2>1. UsedBefore(t, ms, i)[k] = g /\ Charged(c, t, ms, i)[k] = p * g
    BY ONLY <1>8, <1>11
  <2>. QED
    BY ONLY Zenon, <2>1, <1>3, <1>5, <1>6, <1>7, <1>10
<1>12. CASE ~ (k < i)
  <2>1. UsedBefore(t, ms, i)[k] = g /\ Charged(c, t, ms, i)[k] = Fees(c, t)[k]
    BY ONLY <1>8, <1>12
  <2>. QED
    BY ONLY Zenon, <2>1, <1>3, <1>5, <1>6, <1>7, <1>10
<1>. QED
  BY Zenon, <1>11, <1>12

\* The sums over a transaction: what is charged covers the minimum gas price of
\* the gas used, and no more than the offer is charged.
LEMMA ChargedSums ==
  ASSUME NEW c \in Config, NEW t \in Txs, CheckEthMinGasPrice(c, t),
         NEW i \in 1..(Len(t) + 1), NEW ms, ResultsOf(t, ms, i)
  PROVE  LET D == DOMAIN t
             offer == [k \in DOMAIN t |-> t[k].feeCap * t[k].gas]
         IN  /\ SumFunction(Charged(c, t, ms, i)) = SumFunctionOnSet(Charged(c, t, ms, i), D)
             /\ SumFunction(UsedBefore(t, ms, i)) = SumFunctionOnSet(UsedBefore(t, ms, i), D)
             /\ SumFunction(Charged(c, t, ms, i)) \in Nat /\ SumFunction(UsedBefore(t, ms, i)) \in Nat
             /\ SumFunction(Fees(c, t)) \in Nat
             /\ c.minGasPrice * SumFunction(UsedBefore(t, ms, i)) <= SumFunction(Charged(c, t, ms, i))
             /\ c.minGasPrice * SumFunction(UsedBefore(t, ms, i)) <= SumFunction(Fees(c, t))
             /\ SumFunction(Charged(c, t, ms, i)) <= SumFunction(offer)
             /\ SumFunction(Fees(c, t)) <= SumFunction(offer)
<1>1. PICK D : D = DOMAIN t
  BY Zenon
<1>2. PICK f : f = Charged(c, t, ms, i)
  BY Zenon
<1>3. PICK g : g = UsedBefore(t, ms, i)
  BY Zenon
<1>4. PICK h : h = Fees(c, t)
  BY Zenon
<1>5. PICK o : o = [k \in DOMAIN t |-> t[k].feeCap * t[k].gas]
  BY Zenon
<1>6. D = DOMAIN f /\ D = DOMAIN g /\ D = DOMAIN h /\ D = DOMAIN o /\ IsFiniteSet(D)
  BY Zenon, <1>1, <1>2, <1>3, <1>4, <1>5, TxIs DEF Charged, UsedBefore, Fees
<1>7. /\ SumFunction(f) = SumFunctionOnSet(f, D) /\ SumFunction(g) = SumFunctionOnSet(g, D)
      /\ SumFunction(h) = SumFunctionOnSet(h, D) /\ SumFunction(o) = SumFunctionOnSet(o, D)
  BY ONLY Zenon, <1>6, SumOverDomain
<1>8. c.minGasPrice \in Nat
  BY FeesIs
<1>9. \A k \in D : /\ f[k] \in Nat /\ g[k] \in Nat /\ h[k] \in Nat /\ o[k] \in Nat
                   /\ c.minGasPrice * g[k] <= f[k] /\ c.minGasPrice * g[k] <= h[k]
                   /\ f[k] <= o[k] /\ h[k] <= o[k]
  BY Zenon, <1>1, <1>2, <1>3, <1>4, <1>5, ChargedIs
<1>10. SumFunctionOnSet(f, D) \in Nat /\ SumFunctionOnSet(g, D) \in Nat /\ SumFunctionOnSet(h, D) \in Nat
       /\ SumFunctionOnSet(o, D) \in Nat
  BY ONLY Zenon, <1>6, <1>9, SumNat
<1>11. \A k \in D : /\ f[k] \in Int /\ g[k] \in Int /\ h[k] \in Int /\ o[k] \in Int
                    /\ c.minGasPrice * g[k] <= f[k] /\ c.minGasPrice * g[k] <= h[k]
                    /\ 1 * f[k] <= o[k] /\ 1 * h[k] <= o[k]
  BY ONLY <1>9
<1>12. c.minGasPrice * SumFunctionOnSet(g, D) <= SumFunctionOnSet(f, D)
  BY ONLY ZenonT(30), <1>6, <1>8, <1>11, SumAtMost
<1>13. c.minGasPrice * SumFunctionOnSet(g, D) <= SumFunctionOnSet(h, D)
  BY ONLY ZenonT(30), <1>6, <1>8, <1>11, SumAtMost
<1>14. 1 * SumFunctionOnSet(f, D) <= SumFunctionOnSet(o, D)
  BY ONLY ZenonT(30), <1>6, <1>11, SumAtMost
<1>15. 1 * SumFunctionOnSet(h, D) <= SumFunctionOnSet(o, D)
  BY ONLY <1>6, <1>11, SumAtMost
<1>16. SumFunctionOnSet(f, D) <= SumFunctionOnSet(o, D) /\ SumFunctionOnSet(h, D) <= SumFunctionOnSet(o, D)
  BY ONLY <1>10, <1>14, <1>15
<1>. QED
  BY ONLY ZenonT(30), <1>1, <1>2, <1>3, <1>4, <1>5, <1>7, <1>10, <1>12, <1>13, <1>16

-----------------------------------------------------------------------------
(* What the mempool admits *)

\* The ante handler in a block asks nothing that it did not ask in CheckTx of a
\* transaction whose senders exist, on the same state and configuration.
LEMMA DeliverAsksLess ==
  ASSUME NEW s, s = [balance |-> s.balance, sequence |-> s.sequence, exists |-> s.exists],
         NEW c, NEW t, MaxTxGasWanted = 0, Senders(t) \subseteq s.exists, AnteOK(s, c, t, "check")
  PROVE  AnteOK(s, c, t, "deliver")
<1>1. Verified(s, t, "check") = s /\ Verified(s, t, "deliver") = s
  <2>1. s.exists \cup Senders(t) = s.exists
    OBVIOUS
  <2>2. Verified(s, t, "check") = [s EXCEPT !.exists = s.exists \cup Senders(t)]
    BY DEF Verified
  <2>3. [s EXCEPT !.exists = s.exists] = s
    OBVIOUS
  <2>. QED
    BY <2>1, <2>2, <2>3 DEF Verified
<1>2. CheckEthMempoolFee(c, t, "deliver") /\ VerifyEthAccount(s, t, "deliver")
  BY DEF CheckEthMempoolFee, VerifyEthAccount
<1>3. CheckEthMinGasPrice(c, t) /\ CheckEthCanTransfer(s, c, t) /\ CheckEthSenderNonce(s, t)
  BY <1>1 DEF AnteOK
<1>4. ValidateEthBasic(c, t, "deliver")
  BY DEF AnteOK, ValidateEthBasic
<1>5. GasWanted(t, "check") = GasWanted(t, "deliver")
  BY DEF GasWanted
<1>6. CheckEthGasConsume(s, c, t, "check")
  BY <1>1 DEF AnteOK
<1>7. CheckEthGasConsume(s, c, t, "deliver")
  BY <1>5, <1>6 DEF CheckEthGasConsume, CanPay
<1>. QED
  BY <1>1, <1>2, <1>3, <1>4, <1>7 DEF AnteOK

\* A transaction that CheckTx would admit on the state of the block is one the
\* block accepts, at every moment of every run, when no max-tx-gas-wanted hides
\* its gas (the ante handler's CheckTx and DeliverTx modes).
THEOREM AdmittedIsDelivered == Spec => []CheckImpliesDeliver
<1>1. BlockTypes => CheckImpliesDeliver
  <2>. SUFFICES ASSUME BlockTypes PROVE CheckImpliesDeliver
    OBVIOUS
  <2>1. deliver = [balance |-> deliver.balance, sequence |-> deliver.sequence, exists |-> deliver.exists]
    BY DEF BlockTypes, State
  <2>. QED
    BY <2>1, DeliverAsksLess DEF CheckImpliesDeliver
<1>2. Init => BlockTypes
  BY InitTypes
<1>3. BlockTypes /\ [Next]_vars => BlockTypes'
  BY StepTypes
<1>. QED
  BY <1>1, <1>2, <1>3, PTL DEF Spec
=============================================================================
