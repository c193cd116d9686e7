---------------------------- MODULE NodeProofs ----------------------------
(***************************************************************************)
(* Three components with a state of their own, for every value of their    *)
(* constants: the base fee for every width, precision, block limit and     *)
(* parameters; the gas estimation for every cap and every call; the        *)
(* transaction indexer for every chain and every number of restarts.  The  *)
(* last two are instances: their assumption is a hypothesis of their       *)
(* theorems, and the runs evaluate it.                                     *)
(***************************************************************************)
EXTENDS FeeMarket, TLAPS

-----------------------------------------------------------------------------
(* The base fee: products and quotients. *)

\* Euclidean division by a positive number.
LEMMA DivFacts ==
  ASSUME NEW x \in Nat, NEW t \in Nat \ {0}
  PROVE  /\ x \div t \in Nat
         /\ (x \div t) * t <= x
         /\ x < (x \div t) * t + t
  OBVIOUS

\* A product with a nonnegative factor is monotone.
LEMMA MulMono ==
  ASSUME NEW a \in Int, NEW b \in Int, NEW t \in Nat, a <= b
  PROVE  a * t <= b * t
  <1>1. PICK k \in Nat : b = a + k
    <2>1. b - a \in Nat /\ b = a + (b - a)
      OBVIOUS
    <2> QED
      BY <2>1
  <1>2. k * t \in Nat /\ b * t = a * t + k * t
    BY <1>1
  <1> QED
    BY <1>2

\* A quotient is at most y when the dividend is at most y divisors.
LEMMA DivLe ==
  ASSUME NEW x \in Nat, NEW y \in Nat, NEW t \in Nat \ {0}, x <= y * t
  PROVE  x \div t <= y
  <1> DEFINE q == x \div t
  <1>1. q \in Nat /\ q * t <= x
    BY DivFacts
  <1> HIDE DEF q
  <1>2. SUFFICES ASSUME y + 1 <= q PROVE FALSE
    BY <1>1 DEF q
  <1>3. (y + 1) * t <= q * t
    BY <1>1, <1>2, MulMono
  <1>4. (y + 1) * t = y * t + t /\ y * t \in Nat /\ q * t \in Nat
    BY <1>1
  <1> QED
    BY <1>1, <1>3, <1>4

\* Division by a positive number is monotone.
LEMMA DivMono ==
  ASSUME NEW x \in Nat, NEW y \in Nat, NEW t \in Nat \ {0}, x <= y
  PROVE  x \div t <= y \div t
  <1> DEFINE q == x \div t
             r == y \div t
  <1>1. q \in Nat /\ q * t <= x
    BY DivFacts
  <1>2. r \in Nat /\ y < r * t + t
    BY DivFacts
  <1> HIDE DEF q, r
  <1>3. SUFFICES ASSUME r + 1 <= q PROVE FALSE
    BY <1>1, <1>2 DEF q, r
  <1>4. (r + 1) * t <= q * t
    BY <1>1, <1>2, <1>3, MulMono
  <1>5. (r + 1) * t = r * t + t /\ r * t \in Nat /\ q * t \in Nat
    BY <1>1, <1>2
  <1> QED
    BY <1>1, <1>2, <1>4, <1>5

USE FeeMarketAssumption DEF MaxInt64

\* A difference of at most k targets changes the fee by at most k fractions.
LEMMA FeeDeltaBound ==
  ASSUME NEW fee \in Nat, NEW delta \in Nat, NEW t \in Nat \ {0}, NEW d \in Nat \ {0}, NEW k \in Nat,
         delta <= k * t
  PROVE  FeeDelta(fee, delta, t, d) <= (k * fee) \div d
  <1>1. delta * fee <= (k * t) * fee
    BY MulMono
  <1>2. /\ fee * delta = delta * fee
        /\ (k * t) * fee = (k * fee) * t
        /\ fee * delta \in Nat /\ k * fee \in Nat
    OBVIOUS
  <1>3. PICK n \in Nat, m \in Nat : n = fee * delta /\ m = k * fee
    BY <1>2
  <1>4. n <= m * t
    BY <1>1, <1>2, <1>3
  <1>5. n \div t \in Nat /\ n \div t <= m
    BY <1>4, DivFacts, DivLe
  <1>6. (n \div t) \div d <= m \div d
    BY <1>5, DivMono
  <1> QED
    BY <1>3, <1>6 DEF FeeDelta

\* The change is a natural number.
LEMMA FeeDeltaNat ==
  ASSUME NEW fee \in Nat, NEW delta \in Nat, NEW t \in Nat \ {0}, NEW d \in Nat \ {0}
  PROVE  FeeDelta(fee, delta, t, d) \in Nat
  <1>1. PICK n \in Nat : n = fee * delta
    OBVIOUS
  <1>2. n \div t \in Nat
    BY DivFacts
  <1>3. (n \div t) \div d \in Nat
    BY <1>2, DivFacts
  <1> QED
    BY <1>1, <1>3 DEF FeeDelta

-----------------------------------------------------------------------------
(* The base fee: what CalculateBaseFee returns. *)

\* The minimum gas price of valid parameters rounds to a natural number.
LEMMA FloorNat ==
  ASSUME NEW p \in Params, Valid(p)
  PROVE  TruncateInt(p.minGasPrice) \in Nat
  BY DivFacts DEF Params, Valid, TruncateInt

\* The gas target is a natural number.
LEMMA TargetNat ==
  ASSUME NEW p \in Params, Valid(p), NEW g \in MaxGasValues
  PROVE  GasTarget(p, g) \in Nat
  <1>1. p.elasticityMultiplier \in Nat \ {0}
    BY DEF Params, Valid
  <1>2. PICK n \in Nat : n = IF g > -1 THEN g ELSE MaxUint64
    OBVIOUS
  <1> QED
    BY <1>1, <1>2, DivFacts DEF GasTarget

\* Above the target the fee rises, by at least 1 and within the bound.
LEMMA RaisedFacts ==
  ASSUME NEW fee \in Nat, NEW t \in Nat \ {0}, NEW d \in Nat \ {0}, NEW e \in Nat \ {0},
         NEW gas \in Nat, gas > t
  PROVE  /\ Raised(fee, gas - t, t, d) \in Nat
         /\ Raised(fee, gas - t, t, d) >= fee + 1
         /\ gas <= e * t => Raised(fee, gas - t, t, d) <= fee + BigMax(((e - 1) * fee) \div d, 1)
  <1>1. PICK k \in Nat : k = e - 1
    OBVIOUS
  <1>2. PICK delta \in Nat : delta = gas - t
    OBVIOUS
  <1>3. FeeDelta(fee, delta, t, d) \in Nat
    BY FeeDeltaNat
  <1>4. k * fee \in Nat
    OBVIOUS
  <1>5. (k * fee) \div d \in Nat
    BY <1>4, DivFacts
  <1>6. ASSUME gas <= e * t PROVE FeeDelta(fee, delta, t, d) <= (k * fee) \div d
    <2>1. e * t = k * t + t /\ k * t \in Nat
      BY <1>1
    <2>2. delta <= k * t
      BY <1>2, <1>6, <2>1
    <2> QED
      BY Zenon, <2>2, FeeDeltaBound
  <1> QED
    BY <1>1, <1>2, <1>3, <1>5, <1>6 DEF Raised, BigMax

\* Below the target the fee drops, by at most a fraction of 1/d, to the floor.
LEMMA LoweredFacts ==
  ASSUME NEW fee \in Nat, NEW t \in Nat \ {0}, NEW d \in Nat \ {0}, NEW floor \in Nat,
         NEW gas \in Nat, gas < t
  PROVE  /\ Lowered(fee, t - gas, t, d, floor) \in Nat
         /\ Lowered(fee, t - gas, t, d, floor) >= floor
         /\ Lowered(fee, t - gas, t, d, floor) <= BigMax(fee, floor)
         /\ Lowered(fee, t - gas, t, d, floor) >= fee - (fee \div d)
  <1>1. PICK delta \in Nat : delta = t - gas
    OBVIOUS
  <1>2. FeeDelta(fee, delta, t, d) \in Nat
    BY FeeDeltaNat
  <1>3. delta <= 1 * t
    BY <1>1
  <1>4. FeeDelta(fee, delta, t, d) <= (1 * fee) \div d
    BY Zenon, <1>3, FeeDeltaBound
  <1>5. 1 * fee = fee
    OBVIOUS
  <1>6. fee \div d \in Nat
    BY DivFacts
  <1> QED
    BY <1>1, <1>2, <1>4, <1>5, <1>6 DEF Lowered, BigMax

\* CalculateBaseFee followed by the saturation of SetBaseFee: how the new fee
\* compares with the old one, the floor and the bounds, unless it divides by 0.
LEMMA NewFeeFacts ==
  ASSUME NEW p \in Params, Valid(p), p.baseFee <= MaxInt256,
         NEW gas \in Nat, NEW t \in Nat, t = 0 => gas = 0
  PROVE  LET fee == p.baseFee
             d == p.baseFeeChangeDenominator
             e == p.elasticityMultiplier
             floor == TruncateInt(p.minGasPrice)
             new == SaturatedNewInt(NextFee(p, gas, t))
         IN  /\ new \in 0..MaxInt256
             /\ gas > t => new > fee \/ new = MaxInt256
             /\ gas = t => new = fee
             /\ gas < t => new <= BigMax(fee, floor)
             /\ fee >= floor => new >= floor
             /\ new >= fee - (fee \div d)
             /\ gas <= e * t => new <= BigMax(fee + BigMax(((e - 1) * fee) \div d, 1), floor)
  <1> DEFINE fee == p.baseFee
             d == p.baseFeeChangeDenominator
             e == p.elasticityMultiplier
             floor == TruncateInt(p.minGasPrice)
             next == NextFee(p, gas, t)
             step == BigMax(((e - 1) * fee) \div d, 1)
  <1>1. fee \in Nat /\ fee <= MaxInt256 /\ d \in Nat \ {0} /\ e \in Nat \ {0}
    BY DEF Params, Valid
  <1>2. floor \in Nat
    BY FloorNat
  <1>3. fee \div d \in Nat
    BY <1>1, DivFacts
  <1>4. step \in Nat
    <2>1. PICK k \in Nat : k = e - 1
      BY <1>1
    <2>2. k * fee \in Nat
      BY <1>1
    <2>3. (k * fee) \div d \in Nat
      BY <1>1, <2>2, DivFacts
    <2> QED
      BY <2>1, <2>3 DEF BigMax
  <1>5. /\ next \in Nat
        /\ gas > t => next >= fee + 1
        /\ gas = t => next = fee
        /\ gas < t => next <= BigMax(fee, floor) /\ next >= floor /\ next >= fee - (fee \div d)
        /\ gas > t /\ gas <= e * t => next <= fee + step
    <2>1. CASE gas = t
      BY <2>1, <1>1 DEF NextFee
    <2>2. CASE gas > t
      <3>1. next = Raised(fee, gas - t, t, d)
        BY <2>2 DEF NextFee
      <3>2. t \in Nat \ {0}
        BY <2>2
      <3> HIDE DEF fee, d, e
      <3>3. /\ Raised(fee, gas - t, t, d) \in Nat
            /\ Raised(fee, gas - t, t, d) >= fee + 1
            /\ gas <= e * t => Raised(fee, gas - t, t, d) <= fee + step
        BY Zenon, <1>1, <2>2, <3>2, RaisedFacts
      <3> HIDE DEF next, step
      <3> QED
        BY <2>2, <3>1, <3>3
    <2>3. CASE gas < t
      <3>1. next = Lowered(fee, t - gas, t, d, floor)
        BY <2>3 DEF NextFee
      <3>2. t \in Nat \ {0}
        BY <2>3
      <3> HIDE DEF fee, d, floor
      <3>3. /\ Lowered(fee, t - gas, t, d, floor) \in Nat
            /\ Lowered(fee, t - gas, t, d, floor) >= floor
            /\ Lowered(fee, t - gas, t, d, floor) <= BigMax(fee, floor)
            /\ Lowered(fee, t - gas, t, d, floor) >= fee - (fee \div d)
        BY Zenon, <1>1, <1>2, <2>3, <3>2, LoweredFacts
      <3> HIDE DEF next, step
      <3> QED
        BY <2>3, <3>1, <3>3
    <2> QED
      BY <2>1, <2>2, <2>3
  <1> HIDE DEF fee, d, e, floor, next, step
  <1> DEFINE new == SaturatedNewInt(next)
             frac == fee \div d
             most == e * t
  <1>6. most \in Nat /\ frac \in Nat
    BY <1>1, <1>3
  <1> HIDE DEF frac, most
  <1>7. /\ new \in 0..MaxInt256
        /\ gas > t => new > fee \/ new = MaxInt256
        /\ gas = t => new = fee
        /\ gas < t => new <= BigMax(fee, floor)
        /\ fee >= floor => new >= floor
        /\ new >= fee - frac
        /\ gas <= most => new <= BigMax(fee + step, floor)
    BY <1>1, <1>2, <1>4, <1>5, <1>6 DEF SaturatedNewInt, BigMax, frac, most
  <1> QED
    BY <1>7 DEF fee, d, e, floor, next, step, frac, most

-----------------------------------------------------------------------------
(* The base fee: invariance. *)

\* BeginBlock writes valid parameters, so the error SetBaseFee ignores never
\* occurs.
LEMMA BeginBlockType ==
  ASSUME TypeOK, BeginBlock
  PROVE  params' \in Params /\ Valid(params') /\ params'.baseFee <= MaxInt256
  <1>1. CASE IsBaseFeeEnabled(params, height) /\ height # params.enableHeight
    <2> DEFINE t == GasTarget(params, maxGas)
               new == SaturatedNewInt(NextFee(params, blockGasWanted, t))
    <2>1. t \in Nat
      BY TargetNat DEF TypeOK
    <2>2. t = 0 => blockGasWanted = 0
      BY <1>1 DEF BeginBlock, DividesByZero
    <2> HIDE DEF t
    <2>3. new \in 0..MaxInt256
      BY <2>1, <2>2, NewFeeFacts DEF TypeOK
    <2>4. params' = [params EXCEPT !.baseFee = new]
      BY <1>1 DEF BeginBlock, t
    <2> HIDE DEF new
    <2> QED
      BY <2>3, <2>4 DEF TypeOK, Params, Valid
  <1>2. CASE ~ (IsBaseFeeEnabled(params, height) /\ height # params.enableHeight)
    BY <1>2 DEF BeginBlock, TypeOK
  <1> QED
    BY <1>1, <1>2

\* What EndBlock stores lies between the gas used and the gas wanted.
LEMMA LimitedGasFacts ==
  ASSUME NEW p \in Params, Valid(p), NEW w \in Nat, NEW u \in Nat
  PROVE  LimitedGasWanted(p, w, u) \in u..BigMax(w, u)
  <1> DEFINE m == p.minGasMultiplier
             x == BigMax(w * m, u * Dec)
  <1>1. m \in Nat /\ m <= Dec
    BY DEF Params, Valid
  <1> HIDE DEF m
  <1>2. m * w <= Dec * w
    BY <1>1, MulMono
  <1>3. w * m = m * w /\ Dec * w = w * Dec /\ w * m \in Nat /\ u * Dec \in Nat /\ w * Dec \in Nat
    BY <1>1
  <1>4. x \in Nat /\ x >= u * Dec
    BY <1>3 DEF BigMax
  <1>5. x <= BigMax(w, u) * Dec
    <2>1. CASE w >= u
      <3>1. u * Dec <= w * Dec
        BY <2>1, MulMono
      <3> QED
        BY <1>2, <1>3, <2>1, <3>1 DEF BigMax
    <2>2. CASE u > w
      <3>1. w * Dec <= u * Dec
        BY <2>2, MulMono
      <3> QED
        BY <1>2, <1>3, <2>2, <3>1 DEF BigMax
    <2> QED
      BY <2>1, <2>2
  <1> HIDE DEF x
  <1>6. x \div Dec \in Nat /\ x \div Dec <= BigMax(w, u)
    BY <1>4, <1>5, DivFacts, DivLe DEF BigMax
  <1>7. (u * Dec) \div Dec <= x \div Dec
    BY <1>3, <1>4, DivMono
  <1>8. (u * Dec) \div Dec >= u
    <2> DEFINE q == (u * Dec) \div Dec
    <2>1. q \in Nat /\ u * Dec < q * Dec + Dec
      BY <1>3, DivFacts
    <2> HIDE DEF q
    <2>2. SUFFICES ASSUME q + 1 <= u PROVE FALSE
      BY <2>1 DEF q
    <2>3. (q + 1) * Dec <= u * Dec
      BY <2>1, <2>2, MulMono
    <2>4. (q + 1) * Dec = q * Dec + Dec /\ q * Dec \in Nat
      BY <2>1
    <2> QED
      BY <1>3, <2>1, <2>3, <2>4
  <1>9. (u * Dec) \div Dec \in Nat
    BY <1>3, DivFacts
  <1>10. LimitedGasWanted(p, w, u) = x \div Dec
    BY DEF LimitedGasWanted, TruncateInt, x, m
  <1>11. BigMax(w, u) \in Nat
    BY DEF BigMax
  <1> QED
    BY <1>6, <1>7, <1>8, <1>9, <1>10, <1>11

\* TypeOK is inductive.
LEMMA TypeStep ==
  ASSUME TypeOK, [Next]_vars
  PROVE  TypeOK'
  <1>1. CASE BeginBlock
    <2>1. params' \in Params /\ Valid(params') /\ params'.baseFee <= MaxInt256
      BY <1>1, BeginBlockType
    <2> QED
      BY <1>1, <2>1 DEF TypeOK, BeginBlock
  <1>2. CASE BeginBlockPanics
    BY <1>2 DEF TypeOK, BeginBlockPanics
  <1>3. ASSUME NEW w \in 0..MaxTxGas, NEW u \in 0..MaxTxGas, DeliverTx(w, u)
        PROVE  TypeOK'
    BY <1>3 DEF TypeOK, DeliverTx
  <1>4. ASSUME NEW p \in Proposals, UpdateParams(p)
        PROVE  TypeOK'
    BY <1>4 DEF TypeOK, UpdateParams
  <1>5. ASSUME NEW g \in MaxGasValues, UpdateConsensusParams(g)
        PROVE  TypeOK'
    BY <1>5 DEF TypeOK, UpdateConsensusParams
  <1>6. CASE EndBlock
    <2>1. LimitedGasWanted(params, wanted, used) \in used..BigMax(wanted, used)
      BY LimitedGasFacts DEF TypeOK
    <2>2. blockGasWanted' \in Nat
      BY <1>6, <2>1 DEF EndBlock, TypeOK
    <2> QED
      BY <1>6, <2>2 DEF TypeOK, EndBlock
  <1>7. CASE EndBlockOverflows
    BY <1>7 DEF TypeOK, EndBlockOverflows
  <1>8. CASE UNCHANGED vars
    BY <1>8 DEF TypeOK, vars
  <1> QED
    BY <1>1, <1>2, <1>3, <1>4, <1>5, <1>6, <1>7, <1>8 DEF Next

\* The stored parameters stay valid, although SetBaseFee ignores the error of
\* SetParams, and the base fee never exceeds 256 bits.
THEOREM TypeCorrect == Spec => []TypeOK
  <1>1. Init => TypeOK
    BY DEF Init, TypeOK
  <1> QED
    BY <1>1, TypeStep, PTL DEF Spec

\* The facts of NewFeeFacts for a step that adjusts the fee.
LEMMA AdjustsFacts ==
  ASSUME TypeOK, Adjusts
  PROVE  LET fee == params.baseFee
             d == params.baseFeeChangeDenominator
             e == params.elasticityMultiplier
             new == params'.baseFee
         IN  /\ blockGasWanted > Target => new > fee \/ new = MaxInt256
             /\ blockGasWanted = Target => new = fee
             /\ blockGasWanted < Target => new <= BigMax(fee, Floor)
             /\ fee >= Floor => new >= Floor
             /\ new >= fee - (fee \div d)
             /\ blockGasWanted <= e * Target => new <= BigMax(fee + BigMax(((e - 1) * fee) \div d, 1), Floor)
  <1>1. Target \in Nat
    BY TargetNat DEF TypeOK, Target
  <1>2. Target = 0 => blockGasWanted = 0
    BY DEF Adjusts, BeginBlock, DividesByZero, Target
  <1>3. params'.baseFee = SaturatedNewInt(NextFee(params, blockGasWanted, Target))
    BY DEF Adjusts, BeginBlock, Target, TypeOK, Params
  <1>4. params \in Params /\ Valid(params) /\ params.baseFee <= MaxInt256 /\ blockGasWanted \in Nat
    BY DEF TypeOK
  <1> QED
    BY <1>1, <1>2, <1>3, <1>4, NewFeeFacts DEF Floor

\* CalculateBaseFee moves the fee in the direction of the demand, strictly
\* upwards, and leaves it alone at the target.
THEOREM DemandDrivesFee == Spec => FeeFollowsDemand
  <1>1. TypeOK /\ [Next]_vars =>
          [Adjusts =>
            /\ blockGasWanted > Target => params'.baseFee > params.baseFee \/ params'.baseFee = MaxInt256
            /\ blockGasWanted = Target => params'.baseFee = params.baseFee
            /\ blockGasWanted < Target => params'.baseFee <= BigMax(params.baseFee, Floor)]_vars
    BY AdjustsFacts
  <1> QED
    BY <1>1, TypeCorrect, PTL DEF Spec, FeeFollowsDemand

\* The decrease stops at the minimum gas price, and an increase cannot start
\* below it when the fee was not below.
THEOREM FloorIsKept == Spec => FloorKept
  <1>1. ASSUME TypeOK, BeginBlock, params.baseFee >= Floor
        PROVE  params'.baseFee >= Floor
    <2>1. CASE IsBaseFeeEnabled(params, height) /\ height # params.enableHeight
      BY <1>1, <2>1, AdjustsFacts DEF Adjusts
    <2>2. CASE ~ (IsBaseFeeEnabled(params, height) /\ height # params.enableHeight)
      BY <1>1, <2>2 DEF BeginBlock
    <2> QED
      BY <2>1, <2>2
  <1>2. TypeOK /\ [Next]_vars =>
          [BeginBlock /\ params.baseFee >= Floor => params'.baseFee >= Floor]_vars
    BY <1>1
  <1> QED
    BY <1>2, TypeCorrect, PTL DEF Spec, FloorKept

\* BaseFeeChangeDenominator and ElasticityMultiplier bound the change of the
\* base fee between two blocks.
THEOREM ChangeIsBounded == Spec => BoundedChange
  <1>1. TypeOK /\ [Next]_vars =>
          [Adjusts =>
            LET fee == params.baseFee
                d == params.baseFeeChangeDenominator
                e == params.elasticityMultiplier
            IN  /\ params'.baseFee >= fee - (fee \div d)
                /\ blockGasWanted <= e * Target =>
                     params'.baseFee <= BigMax(fee + BigMax(((e - 1) * fee) \div d, 1), Floor)]_vars
    BY AdjustsFacts
  <1> QED
    BY <1>1, TypeCorrect, PTL DEF Spec, BoundedChange

\* EndBlock records at least the gas used and at most the gas wanted.
THEOREM GasIsRecorded == Spec => []GasRecorded
  <1>1. Init => GasRecorded
    BY DEF Init, GasRecorded
  <1>2. ASSUME TypeOK, GasRecorded, [Next]_vars
        PROVE  GasRecorded'
    <2>1. CASE EndBlock
      <3>1. LimitedGasWanted(params, wanted, used) \in used..BigMax(wanted, used)
        BY <1>2, LimitedGasFacts DEF TypeOK
      <3> QED
        BY <2>1, <3>1 DEF EndBlock, GasRecorded
    <2>2. ASSUME NEW g \in MaxGasValues, UpdateConsensusParams(g)
          PROVE  GasRecorded'
      BY <1>2, <2>2 DEF UpdateConsensusParams, GasRecorded
    <2>3. CASE BeginBlock \/ BeginBlockPanics \/ EndBlockOverflows
      BY <2>3 DEF BeginBlock, BeginBlockPanics, EndBlockOverflows, GasRecorded
    <2>4. ASSUME NEW w \in 0..MaxTxGas, NEW u \in 0..MaxTxGas, DeliverTx(w, u)
          PROVE  GasRecorded'
      BY <2>4 DEF DeliverTx, GasRecorded
    <2>5. ASSUME NEW p \in Proposals, UpdateParams(p)
          PROVE  GasRecorded'
      BY <2>5 DEF UpdateParams, GasRecorded
    <2>6. CASE UNCHANGED vars
      BY <1>2, <2>6 DEF vars, GasRecorded
    <2> QED
      BY <1>2, <2>1, <2>2, <2>3, <2>4, <2>5, <2>6 DEF Next
  <1> QED
    BY <1>1, <1>2, TypeCorrect, PTL DEF Spec

\* A number divided by at most itself is not zero.
LEMMA DivPositive ==
  ASSUME NEW x \in Nat, NEW t \in Nat \ {0}, t <= x
  PROVE  x \div t # 0
  <1>1. x < (x \div t) * t + t
    BY DivFacts
  <1>2. SUFFICES ASSUME x \div t = 0 PROVE FALSE
    OBVIOUS
  <1>3. (x \div t) * t = 0
    BY <1>2
  <1> QED
    BY <1>1, <1>3

\* With a block gas limit that is unlimited or at least the elasticity
\* multiplier BeginBlock does not divide by zero.
THEOREM NeverDividesByZero == Spec => []NoDivisionByZero
  <1>1. TypeOK => NoDivisionByZero
    <2> SUFFICES ASSUME TypeOK,
                        params.elasticityMultiplier <= (IF maxGas > -1 THEN maxGas ELSE MaxUint64)
                 PROVE  GasTarget(params, maxGas) # 0
      BY DEF NoDivisionByZero, DividesByZero
    <2>1. params.elasticityMultiplier \in Nat \ {0}
      BY DEF TypeOK, Params, Valid
    <2>2. PICK n \in Nat : n = IF maxGas > -1 THEN maxGas ELSE MaxUint64
      BY DEF TypeOK
    <2> QED
      BY <2>1, <2>2, DivPositive DEF GasTarget
  <1> QED
    BY <1>1, TypeCorrect, PTL

-----------------------------------------------------------------------------
(* The gas estimation. *)

CONSTANTS TxGas

VARIABLES pc, lo, hi, gasCap, seen, response

Est == INSTANCE EstimateGas

\* The lower end of BinSearch, while its sums do not wrap: it is below the upper
\* end and failed, or is below the intrinsic gas.
LowerEnd ==
  /\ TxGas - 1 <= lo
  /\ lo = TxGas - 1 \/ (lo \in DOMAIN seen /\ Est!Failed(seen[lo]))
  /\ hi < TxGas => hi = gasCap
  /\ hi >= TxGas => lo < hi

\* While BinSearch runs its upper end succeeded, unless it is still the highest
\* allowance: then nothing executed so far did.  A wrapped sum leaves this true,
\* for the middle is below the upper end all the same.
Searching ==
  /\ response = Est!None
  /\ hi <= gasCap
  /\ IF hi = gasCap THEN \A g \in DOMAIN seen : Est!Failed(seen[g])
     ELSE hi \in DOMAIN seen /\ seen[hi] = "ok"
  /\ Est!NoWrap => LowerEnd

\* The inductive invariant of EstimateGas: what the interval of BinSearch means,
\* and the two properties of the answer.
EstInv ==
  /\ pc \in {"idle", "search", "done"}
  /\ lo \in Nat /\ hi \in Nat /\ gasCap \in Nat
  /\ pc = "idle" => response = Est!None
  /\ pc = "search" => Searching
  /\ Est!EstimateTight
  /\ Est!FailsAtAllowance

\* No request has been made.
LEMMA EstInit == Est!Init => EstInv
  BY DEF Est!Init, EstInv, Est!EstimateTight, Est!FailsAtAllowance, Est!None

\* The highest allowance is a gas limit.
LEMMA HighestType ==
  ASSUME Est!GasAssumption,
         NEW gas \in 0..MaxUint64, NEW blockMax \in -1..MaxUint64 \div 2, NEW reqCap \in 0..MaxUint64
  PROVE  Est!Highest(gas, blockMax, reqCap) \in Nat
  BY DEF Est!GasAssumption, Est!Highest

\* A request is refused, or begins a search between TxGas - 1 and an allowance
\* that may be below TxGas: then the loop of BinSearch does not run at all.
LEMMA RequestInv ==
  ASSUME Est!GasAssumption, EstInv, Est!Request
  PROVE  EstInv'
<1>1. pc = "idle" /\ response = Est!None /\ seen' = << >>
  BY DEF EstInv, Est!Request
<1>2. DOMAIN seen' = {}
  BY <1>1
<1>3. PICK gas, reqCap \in 0..MaxUint64, blockMax \in -1..MaxUint64 \div 2 :
        LET h == Est!Highest(gas, blockMax, reqCap)
        IN  \/ pc' = "done" /\ response' = Est!Refused("invalid") /\ UNCHANGED <<lo, hi, gasCap>>
            \/ /\ pc' = "search" /\ lo' = TxGas - 1 /\ hi' = h /\ gasCap' = h
               /\ UNCHANGED response
  BY DEF Est!Request
<1>4. CASE pc' = "done" /\ response' = Est!Refused("invalid") /\ UNCHANGED <<lo, hi, gasCap>>
  BY <1>4 DEF EstInv, Est!Refused, Est!EstimateTight, Est!FailsAtAllowance
<1>5. CASE /\ pc' = "search" /\ lo' = TxGas - 1 /\ UNCHANGED response
           /\ hi' = Est!Highest(gas, blockMax, reqCap) /\ gasCap' = Est!Highest(gas, blockMax, reqCap)
  <2>1. hi' \in Nat /\ gasCap' = hi' /\ lo' \in Nat /\ lo' = TxGas - 1 /\ TxGas \in Nat
    BY <1>5, HighestType DEF Est!GasAssumption
  <2>2. response' = Est!None
    BY <1>1, <1>5
  <2>3. Searching'
    BY <1>2, <2>1, <2>2 DEF Searching, LowerEnd
  <2>4. QED
    BY <1>5, <2>1, <2>2, <2>3 DEF EstInv, Est!None, Est!EstimateTight, Est!FailsAtAllowance
<1>6. QED  BY <1>3, <1>4, <1>5

\* A sum of uint64 is at most the sum of the numbers, and is it unless it wraps.
LEMMA WrappedSum ==
  ASSUME NEW x \in Nat, NEW n \in Nat \ {0}
  PROVE  x % n \in Nat /\ x % n <= x /\ (x < n => x % n = x)
  OBVIOUS

\* A round of BinSearch executes a limit below the upper end, and above the lower
\* end unless the sum wraps, and moves the end that the outcome speaks for.
LEMMA BinSearchInv ==
  ASSUME Est!GasAssumption, EstInv, Est!BinSearch
  PROVE  EstInv'
<1> DEFINE sum == (hi + lo) % (MaxUint64 + 1)
           mid == sum \div 2
<1>1. pc = "search" /\ lo + 1 < hi /\ Searching /\ gasCap' = gasCap /\ lo \in Nat /\ hi \in Nat /\ gasCap \in Nat
  BY DEF EstInv, Est!BinSearch
<1>2. mid \in Nat /\ mid < hi /\ (Est!NoWrap => lo < mid)
  <2>1. MaxUint64 + 1 \in Nat \ {0} /\ hi + lo \in Nat /\ hi <= gasCap
    BY <1>1 DEF Est!GasAssumption, Searching
  <2>2. sum \in Nat /\ sum <= hi + lo /\ (hi + lo < MaxUint64 + 1 => sum = hi + lo)
    BY ONLY <2>1, WrappedSum
  <2>3. Est!NoWrap => hi + lo < MaxUint64 + 1
    BY <1>1, <2>1 DEF Est!NoWrap, Est!GasAssumption
  <2> HIDE DEF sum
  <2>4. QED  BY <1>1, <2>2, <2>3
<1>3. PICK o \in Est!Outcomes :
        /\ Est!Executes(mid, o)
        /\ CASE o = "consensus" -> pc' = "done" /\ response' = Est!Refused("error") /\ UNCHANGED <<lo, hi>>
             [] o = "ok" -> hi' = mid /\ UNCHANGED <<pc, lo, response>>
             [] OTHER -> lo' = mid /\ UNCHANGED <<pc, hi, response>>
  BY DEF Est!BinSearch
<1> HIDE DEF sum, mid
<1>4. /\ DOMAIN seen' = DOMAIN seen \cup {mid}
      /\ seen'[mid] = o
      /\ \A g \in DOMAIN seen : seen'[g] = seen[g]
  BY <1>3 DEF Est!Executes
<1>5. CASE o = "consensus"
  <2>1. pc' = "done" /\ response' = Est!Refused("error") /\ UNCHANGED <<lo, hi>>
    BY <1>3, <1>5
  <2>2. QED  BY <1>1, <2>1 DEF EstInv, Est!Refused, Est!EstimateTight, Est!FailsAtAllowance
<1>6. CASE o # "consensus"
  <2>1. pc' = pc /\ response' = response /\ response = Est!None
    BY <1>1, <1>3, <1>6 DEF Searching
  <2>2. Searching'
    <3>1. CASE o = "ok"
      <4>1. hi' = mid /\ lo' = lo
        BY <1>3, <3>1
      <4>2. mid # gasCap /\ hi' \in DOMAIN seen' /\ seen'[hi'] = "ok"
        BY <1>1, <1>2, <1>4, <3>1, <4>1 DEF Searching
      <4>3. ASSUME Est!NoWrap PROVE LowerEnd'
        <5>1. LowerEnd /\ lo < mid
          BY <1>1, <1>2, <4>3 DEF Searching
        <5>2. lo' = TxGas - 1 \/ (lo' \in DOMAIN seen' /\ Est!Failed(seen'[lo']))
          BY <1>4, <4>1, <5>1 DEF LowerEnd
        <5>3. QED  BY <1>1, <1>2, <4>1, <5>1, <5>2 DEF LowerEnd, Est!GasAssumption
      <4>4. QED  BY <1>1, <1>2, <2>1, <4>1, <4>2, <4>3 DEF Searching, Est!NoWrap
    <3>2. CASE o # "ok"
      <4>1. lo' = mid /\ hi' = hi
        BY <1>3, <1>6, <3>2
      <4>2. lo' \in DOMAIN seen' /\ Est!Failed(seen'[lo'])
        BY <1>4, <3>2, <4>1 DEF Est!Failed
      <4>3. IF hi' = gasCap' THEN \A g \in DOMAIN seen' : Est!Failed(seen'[g])
            ELSE hi' \in DOMAIN seen' /\ seen'[hi'] = "ok"
        BY <1>1, <1>4, <3>2, <4>1 DEF Searching, Est!Failed
      <4>4. ASSUME Est!NoWrap PROVE LowerEnd'
        <5>1. LowerEnd /\ lo < mid
          BY <1>1, <1>2, <4>4 DEF Searching
        <5>2. QED  BY <1>1, <1>2, <4>1, <4>2, <5>1 DEF LowerEnd, Est!GasAssumption
      <4>5. QED  BY <1>1, <2>1, <4>1, <4>3, <4>4 DEF Searching, Est!NoWrap
    <3>3. QED  BY <3>1, <3>2
  <2>3. lo' \in Nat /\ hi' \in Nat
    BY <1>1, <1>2, <1>3, <1>6
  <2>4. QED
    BY <1>1, <2>1, <2>2, <2>3 DEF EstInv, Est!None, Est!EstimateTight, Est!FailsAtAllowance
<1>7. QED  BY <1>5, <1>6

\* A lowered limit is answered as it is; the highest allowance is executed first.
LEMMA RejectInv ==
  ASSUME Est!GasAssumption, EstInv, Est!Reject
  PROVE  EstInv'
<1>1. /\ pc = "search" /\ lo + 1 >= hi /\ Searching
      /\ pc' = "done" /\ lo' = lo /\ hi' = hi /\ gasCap' = gasCap
      /\ lo \in Nat /\ hi \in Nat /\ gasCap \in Nat
  BY DEF EstInv, Est!Reject
<1>2. CASE hi # gasCap
  <2>1. response' = [status |-> "gas", gas |-> hi] /\ seen' = seen
    BY <1>2 DEF Est!Reject, Est!Estimate
  <2>2. Est!NoWrap => hi = TxGas \/ (hi - 1 \in DOMAIN seen /\ Est!Failed(seen[hi - 1]))
    BY <1>1, <1>2 DEF Searching, LowerEnd, Est!GasAssumption
  <2>3. hi \in DOMAIN seen /\ seen[hi] = "ok" /\ hi <= gasCap
    BY <1>1, <1>2 DEF Searching
  <2>4. QED  BY <1>1, <2>1, <2>2, <2>3 DEF EstInv, Est!EstimateTight, Est!FailsAtAllowance, Est!NoWrap
<1>3. CASE hi = gasCap
  <2>1. PICK o \in Est!Outcomes :
          /\ Est!Executes(hi, o)
          /\ response' = CASE o = "ok" -> Est!Estimate
                           [] o = "consensus" -> Est!Refused("error")
                           [] o = "reverted" -> Est!Refused("reverted")
                           [] o = "vm" -> Est!Refused("vm")
                           [] OTHER -> Est!Refused("allowance")
    BY <1>3 DEF Est!Reject
  <2>2. /\ DOMAIN seen' = DOMAIN seen \cup {hi}
        /\ seen'[hi] = o
        /\ \A g \in DOMAIN seen : seen'[g] = seen[g]
    BY <2>1 DEF Est!Executes
  <2>3. \A g \in DOMAIN seen : Est!Failed(seen[g])
    BY <1>1, <1>3 DEF Searching
  <2>4. CASE o = "ok"
    <3>1. response' = [status |-> "gas", gas |-> hi]
      BY <2>1, <2>4 DEF Est!Estimate
    <3>2. hi >= TxGas
      BY <1>1, <2>1, <2>3, <2>4 DEF Est!Executes, Est!Failed, Est!GasAssumption
    <3>3. Est!NoWrap => hi = TxGas \/ (hi - 1 \in DOMAIN seen' /\ Est!Failed(seen'[hi - 1]))
      BY <1>1, <2>2, <3>2 DEF Searching, LowerEnd, Est!GasAssumption
    <3>4. QED
      BY <1>1, <1>3, <2>2, <2>4, <3>1, <3>3 DEF EstInv, Est!EstimateTight, Est!FailsAtAllowance, Est!NoWrap
  <2>5. CASE o # "ok"
    <3>1. \A g \in DOMAIN seen' : Est!Failed(seen'[g])
      BY <2>2, <2>3, <2>5 DEF Est!Failed
    <3>2. gasCap' \in DOMAIN seen' /\ seen'[gasCap'] = o
      BY <1>1, <1>3, <2>2
    <3>3. /\ response'.status \in {"error", "reverted", "vm", "allowance"}
          /\ response'.status = "allowance" <=> o \in {"oog", "intrinsic"}
      BY <2>1, <2>5 DEF Est!Refused, Est!Outcomes
    <3>4. QED
      BY <1>1, <3>1, <3>2, <3>3 DEF EstInv, Est!EstimateTight, Est!FailsAtAllowance
  <2>6. QED  BY <2>4, <2>5
<1>4. QED  BY <1>2, <1>3

\* EstInv holds throughout a query, whatever the executions answer.
LEMMA EstInvariance ==
  ASSUME Est!GasAssumption
  PROVE  Est!Spec => []EstInv
<1>1. ASSUME EstInv, [Est!Next]_Est!vars PROVE EstInv'
  <2>1. CASE Est!Return
    BY <2>1 DEF EstInv, Est!Return, Est!EstimateTight, Est!FailsAtAllowance, Est!None
  <2>2. CASE UNCHANGED Est!vars
    BY <1>1, <2>2 DEF EstInv, Searching, LowerEnd, Est!NoWrap, Est!vars, Est!EstimateTight, Est!FailsAtAllowance
  <2>3. QED  BY <1>1, <2>1, <2>2, RequestInv, BinSearchInv, RejectInv DEF Est!Next
<1>2. QED  BY <1>1, EstInit, PTL DEF Est!Spec

\* Whatever caps a request names, whatever its call does with its gas and for
\* every width of the integers: the estimate of EstimateGas was executed without
\* an error, and one unit less was not or cannot be, unless the allowance is above
\* half the width (x/evm/keeper/grpc_query.go, BinSearch of utils.go).
THEOREM EstimateIsTight ==
  ASSUME Est!GasAssumption
  PROVE  Est!Spec => []Est!EstimateTight
<1>1. EstInv => Est!EstimateTight
  BY DEF EstInv
<1>2. QED  BY <1>1, EstInvariance, PTL

\* EstimateGas answers with a failure only when the highest allowance failed and
\* so did every limit it tried, and gives the reason of the allowance itself.
THEOREM FailureIsTheAllowances ==
  ASSUME Est!GasAssumption
  PROVE  Est!Spec => []Est!FailsAtAllowance
<1>1. EstInv => Est!FailsAtAllowance
  BY DEF EstInv
<1>2. QED  BY <1>1, EstInvariance, PTL

-----------------------------------------------------------------------------
(* The transaction indexer. *)

CONSTANTS EthBlocks, Prunes, MaxErrors, MaxRestarts

VARIABLES blockHeight, resultHeight, earliest, db, latestBlock, lastBlock, i, allowGap, statusEarliest,
          header, newBlockSignal, errors, restarts, resumed, passed, failed, skipped

Idx == INSTANCE Indexer

\* The blocks whose absence from the database is not silent, and those in it.
Accounted == db \cup failed \cup skipped \cup passed

\* In the loop of OnStart nothing above lastBlock is indexed, and every block up to
\* it, from the one it resumed at or from any indexed one, is accounted for.
ServiceInv ==
  /\ \A d \in db : d <= lastBlock
  /\ \A h \in EthBlocks : h <= lastBlock /\ (resumed < h \/ \E a \in db : a < h) => h \in Accounted

\* In a round the blocks between lastBlock and i were skipped.
RoundInv ==
  /\ lastBlock < i
  /\ \A h \in EthBlocks : lastBlock < h /\ h < i => h \in skipped

\* The command has come up to i from the last indexed block, or down to i from
\* the first one.
ForwardInv ==
  /\ \A d \in db : d < i
  /\ \A h \in EthBlocks : h < i /\ (\E a \in db : a < h) => h \in Accounted

BackwardInv ==
  /\ \A d \in db : d > i
  /\ \A h \in EthBlocks : h > i /\ (\E b \in db : h < b) => h \in Accounted

IndexTypes ==
  /\ pc \in {"stopped", "subscribe", "load", "check", "wait", "for", "results", "index", "panicked", "forward", "backward"}
  /\ blockHeight \in Int /\ resultHeight \in Int /\ earliest \in Int
  /\ statusEarliest \in Int /\ latestBlock \in Int /\ header \in Int
  /\ lastBlock \in Int /\ resumed \in Int /\ i \in Int
  /\ db \subseteq EthBlocks

\* The inductive invariant of the indexer.  That the database has no gap is not
\* inductive: a step that indexes i keeps it because of where the loop stands.
IndexInv ==
  /\ IndexTypes
  /\ \A h \in EthBlocks : (\E a, b \in db : a < h /\ h < b) => h \in Accounted
  /\ pc \in Idx!Loop => ServiceInv
  /\ pc \in {"for", "results", "index"} => RoundInv
  /\ pc = "forward" => ForwardInv
  /\ pc = "backward" => BackwardInv

\* Heights are natural numbers.
LEMMA HeightsAreNatural ==
  ASSUME Idx!IndexerAssumption
  PROVE  MaxHeight \in Nat /\ EthBlocks \subseteq 1..MaxHeight /\ EthBlocks \subseteq Nat \ {0}
BY DEF Idx!IndexerAssumption

\* LastIndexedBlock and FirstIndexedBlock are the ends of the database.
EndsOfDatabase ==
  IF db = {} THEN Idx!LastIndexedBlock = -1 /\ Idx!FirstIndexedBlock = -1
  ELSE /\ Idx!LastIndexedBlock \in db /\ \A d \in db : d <= Idx!LastIndexedBlock
       /\ Idx!FirstIndexedBlock \in db /\ \A d \in db : d >= Idx!FirstIndexedBlock

\* A step that moves neither the database nor a loop keeps what is known of them.
LEMMA NothingIndexed ==
  ASSUME IndexInv, IndexTypes', UNCHANGED <<db, lastBlock, i, resumed, passed, failed, skipped>>,
         pc' \in Idx!Loop => pc \in Idx!Loop,
         pc' \in {"for", "results", "index"} => pc \in {"for", "results", "index"},
         pc' = "forward" => pc = "forward", pc' = "backward" => pc = "backward"
  PROVE  IndexInv'
<1>1. UNCHANGED Accounted
  BY DEF Accounted
<1>2. UNCHANGED ServiceInv /\ UNCHANGED RoundInv /\ UNCHANGED ForwardInv /\ UNCHANGED BackwardInv
  BY <1>1 DEF ServiceInv, RoundInv, ForwardInv, BackwardInv
<1>3. QED  BY <1>1, <1>2 DEF IndexInv

\* The service resumes after the last indexed block, or after the earliest block of
\* the node when what is between them is gone and may be skipped.
LEMMA LoadLastInv ==
  ASSUME Idx!IndexerAssumption, EndsOfDatabase, IndexInv, Idx!LoadLast, IndexTypes'
  PROVE  IndexInv'
<1>1. EthBlocks \subseteq Nat \ {0}
  BY HeightsAreNatural
<1>2. /\ UNCHANGED <<db, i, failed>> /\ db \subseteq EthBlocks
      /\ statusEarliest \in Int /\ latestBlock \in Int /\ lastBlock' \in Int
      /\ \A h \in EthBlocks : (\E a, b \in db : a < h /\ h < b) => h \in Accounted
  BY DEF IndexInv, IndexTypes, Idx!LoadLast
<1>3. CASE pc' = "panicked" /\ UNCHANGED <<lastBlock, resumed, skipped, passed>>
  BY <1>2, <1>3, NothingIndexed DEF Idx!Loop
<1>4. CASE /\ pc' = "check"
           /\ lastBlock' = Idx!ResumeFrom(Idx!LastIndexedBlock) /\ resumed' = lastBlock'
           /\ IF Idx!LastIndexedBlock # -1 /\ Idx!LastIndexedBlock < statusEarliest
              THEN /\ skipped' = skipped \cup (Idx!LastIndexedBlock + 1)..(statusEarliest - 1)
                   /\ passed' = passed \cup {statusEarliest}
              ELSE UNCHANGED <<skipped, passed>>
  <2>1. Accounted \subseteq Accounted'
    BY <1>2, <1>4 DEF Accounted
  <2>2. ServiceInv'
    <3>1. CASE db = {}
      BY <1>2, <1>4, <3>1 DEF ServiceInv
    <3>2. CASE db # {}
      <4>1. PICK last \in EthBlocks : last = Idx!LastIndexedBlock /\ last \in db /\ \A d \in db : d <= last
        <5>1. Idx!LastIndexedBlock \in db /\ \A d \in db : d <= Idx!LastIndexedBlock
          BY <1>2, <3>2, Zenon DEF EndsOfDatabase
        <5>2. QED  BY <1>2, <5>1, Zenon
      <4>2. lastBlock' = IF last < statusEarliest THEN statusEarliest ELSE last
        BY <1>1, <1>2, <1>4, <4>1 DEF Idx!ResumeFrom
      <4>3. /\ last < statusEarliest => (last + 1)..(statusEarliest - 1) \subseteq skipped'
            /\ last < statusEarliest => statusEarliest \in passed'
        BY <1>1, <1>4, <4>1
      <4>4. ASSUME NEW h \in EthBlocks, h <= lastBlock', NEW a \in db, a < h
            PROVE  h \in Accounted'
        <5>1. CASE h <= last
          BY <1>1, <1>2, <2>1, <4>1, <4>4, <5>1 DEF Accounted
        <5>2. CASE h > last
          BY <1>1, <1>2, <4>2, <4>3, <4>4, <5>2 DEF Accounted
        <5>3. QED  BY <1>1, <4>1, <5>1, <5>2
      <4>5. \A d \in db' : d <= lastBlock'
        <5>1. db' = db /\ \A d \in db : d \in Int /\ d <= last
          BY <1>1, <1>2, <4>1
        <5>2. last \in Int /\ last <= lastBlock' /\ lastBlock' \in Int
          BY <1>1, <1>2, <4>1, <4>2
        <5>3. QED  BY ONLY <5>1, <5>2
      <4>6. ASSUME NEW h \in EthBlocks, h <= lastBlock', resumed' < h
            PROVE  FALSE
        BY <1>1, <1>2, <1>4, <4>6
      <4>7. QED  BY <1>2, <4>4, <4>5, <4>6, Zenon DEF ServiceInv
    <3>3. QED  BY <3>1, <3>2
  <2>3. QED  BY <1>2, <1>4, <2>1, <2>2 DEF IndexInv
<1>5. QED  BY <1>3, <1>4 DEF Idx!LoadLast

\* The service has dealt with block i: it is in the database, or its indexing failed.
LEMMA ServiceIndexes ==
  ASSUME Idx!IndexerAssumption, IndexInv, IndexTypes', pc = "index", pc' = "for",
         lastBlock' = i, i' = i + 1, UNCHANGED <<resumed, passed, skipped>>,
         \/ db' = Idx!Indexed(i) /\ UNCHANGED failed
         \/ db' = db /\ failed' = failed \cup {i}
  PROVE  IndexInv'
<1>1. EthBlocks \subseteq Nat \ {0} /\ i \in Int /\ lastBlock \in Int /\ resumed \in Int
  BY HeightsAreNatural DEF IndexInv, IndexTypes
<1>2. /\ lastBlock < i /\ \A d \in db : d <= lastBlock
      /\ \A h \in EthBlocks : h <= lastBlock /\ (resumed < h \/ \E a \in db : a < h) => h \in Accounted
      /\ \A h \in EthBlocks : lastBlock < h /\ h < i => h \in skipped
      /\ \A h \in EthBlocks : (\E a, b \in db : a < h /\ h < b) => h \in Accounted
      /\ db \subseteq EthBlocks
  BY DEF IndexInv, IndexTypes, ServiceInv, RoundInv, Idx!Loop
<1>3. /\ db \subseteq db' /\ \A d \in db' : d \in db \/ d = i
      /\ Accounted \subseteq Accounted' /\ skipped \subseteq Accounted'
      /\ i \in EthBlocks => i \in Accounted'
  BY DEF Accounted, Idx!Indexed
<1>4. ASSUME NEW h \in EthBlocks, h <= i, resumed < h \/ \E a \in db' : a < h
      PROVE  h \in Accounted'
  <2>1. CASE h = i
    BY <1>3, <2>1
  <2>2. CASE lastBlock < h /\ h < i
    BY <1>2, <1>3, <2>2
  <2>3. CASE h <= lastBlock
    <3>1. resumed < h \/ \E a \in db : a < h
      BY <1>1, <1>2, <1>3, <1>4, <2>3
    <3>2. QED  BY <1>2, <1>3, <2>3, <3>1
  <2>4. QED  BY <1>1, <1>4, <2>1, <2>2, <2>3
<1>5. \A d \in db' : d <= i
  BY <1>1, <1>2, <1>3
<1>6. ServiceInv'
  BY <1>4, <1>5, Zenon DEF ServiceInv
<1>7. RoundInv'
  BY <1>1 DEF RoundInv
<1>8. ASSUME NEW h \in EthBlocks, NEW a \in db', NEW b \in db', a < h, h < b
      PROVE  h \in Accounted'
  <2>1. b \in Int /\ h \in Int /\ b <= i
    BY <1>1, <1>2, <1>3, <1>5
  <2>2. h <= i
    BY ONLY <1>1, <1>8, <2>1
  <2>3. QED  BY <1>4, <1>8, <2>2, Zenon
<1>9. QED  BY <1>6, <1>7, <1>8 DEF IndexInv

\* Every step of OnStart: waiting, fetching and failing to fetch move nothing, a
\* round begins after lastBlock, and an unavailable block is skipped or ends it.
LEMMA ServiceInvStep ==
  ASSUME Idx!IndexerAssumption, EndsOfDatabase, IndexInv, Idx!Service, IndexTypes'
  PROVE  IndexInv'
<1>1. CASE Idx!Subscribe
  BY <1>1, NothingIndexed DEF Idx!Subscribe, Idx!startVars, Idx!Loop
<1>2. CASE Idx!Wait \/ Idx!ForDone \/ Idx!Fetch \/ Idx!FetchFails
  <2>1. /\ UNCHANGED <<db, lastBlock, i, resumed, passed, failed, skipped>>
        /\ pc \in Idx!Loop
        /\ pc' \in {"check", "results", "index"}
        /\ pc' # "check" => pc \in {"for", "results"}
    <3>1. CASE Idx!Wait
      BY <3>1 DEF Idx!Wait, Idx!startVars, Idx!Loop
    <3>2. CASE Idx!ForDone
      BY <3>2 DEF Idx!ForDone, Idx!startVars, Idx!Loop
    <3>3. CASE Idx!Fetch
      BY <3>3 DEF Idx!Fetch, Idx!startVars, Idx!Loop
    <3>4. CASE Idx!FetchFails
      BY <3>4 DEF Idx!FetchFails, Idx!startVars, Idx!Loop
    <3>5. QED  BY <1>2, <3>1, <3>2, <3>3, <3>4
  <2>2. QED  BY <2>1, NothingIndexed
<1>3. CASE Idx!Check
  <2>1. CASE pc' = "wait" /\ i' = i
    BY <1>3, <2>1, NothingIndexed DEF Idx!Check, Idx!startVars, Idx!Loop
  <2>2. CASE pc' = "for" /\ i' = lastBlock + 1
    <3>1. UNCHANGED <<db, lastBlock, resumed, passed, failed, skipped>> /\ pc = "check"
      BY <1>3 DEF Idx!Check, Idx!startVars
    <3>2. UNCHANGED Accounted /\ UNCHANGED ServiceInv
      BY <3>1 DEF Accounted, ServiceInv
    <3>3. RoundInv'
      BY <2>2, <3>1, HeightsAreNatural DEF RoundInv, IndexInv, IndexTypes
    <3>4. QED  BY <2>2, <3>1, <3>2, <3>3 DEF IndexInv, Idx!Loop
  <2>3. QED  BY <1>3, <2>1, <2>2 DEF Idx!Check
<1>4. CASE Idx!FetchNotAvailable
  <2>1. /\ UNCHANGED <<db, lastBlock, resumed, passed, failed>>
        /\ pc \in {"for", "results"}
    BY <1>4 DEF Idx!FetchNotAvailable, Idx!startVars
  <2>2. CASE pc' = "check" /\ UNCHANGED <<i, skipped>>
    BY <2>1, <2>2, NothingIndexed DEF Idx!Loop
  <2>3. CASE pc' = "for" /\ i' = i + 1 /\ skipped' = skipped \cup {i}
    <3>1. Accounted \subseteq Accounted'
      BY <2>1, <2>3 DEF Accounted
    <3>2. ServiceInv'
      BY <2>1, <3>1 DEF IndexInv, ServiceInv, Idx!Loop
    <3>3. RoundInv'
      BY <2>1, <2>3, HeightsAreNatural DEF IndexInv, IndexTypes, RoundInv
    <3>4. QED  BY <2>1, <2>3, <3>1, <3>2, <3>3 DEF IndexInv
  <2>4. QED  BY <1>4, <2>2, <2>3 DEF Idx!FetchNotAvailable
<1>5. CASE Idx!IndexBlock \/ Idx!IndexBlockFails
  BY <1>5, ServiceIndexes DEF Idx!IndexBlock, Idx!IndexBlockFails, Idx!startVars
<1>6. QED  BY <1>1, <1>2, <1>3, <1>4, <1>5, LoadLastInv DEF Idx!Service

\* The command indexes block i, upwards or downwards.
LEMMA CommandInvStep ==
  ASSUME Idx!IndexerAssumption, EndsOfDatabase, IndexInv, IndexTypes',
         Idx!StartForward \/ Idx!StartBackward \/ Idx!CommandIndexes
  PROVE  IndexInv'
<1>1. /\ EthBlocks \subseteq Nat \ {0} /\ i \in Int /\ db \subseteq EthBlocks
      /\ \A h \in EthBlocks : (\E a, b \in db : a < h /\ h < b) => h \in Accounted
  BY HeightsAreNatural DEF IndexInv, IndexTypes
<1>2. CASE Idx!StartForward
  <2>1. /\ UNCHANGED <<db, passed, failed, skipped>> /\ pc' = "forward"
        /\ i' = IF Idx!LastIndexedBlock = -1 THEN 1 ELSE Idx!LastIndexedBlock + 1
    BY <1>2 DEF Idx!StartForward
  <2>2. UNCHANGED Accounted
    BY <2>1 DEF Accounted
  <2>3. ForwardInv'
    <3>1. CASE db = {}
      BY <2>1, <3>1 DEF ForwardInv
    <3>2. CASE db # {}
      <4>1. Idx!LastIndexedBlock \in db /\ \A d \in db : d <= Idx!LastIndexedBlock
        BY <1>1, <3>2, Zenon DEF EndsOfDatabase
      <4>2. PICK last \in EthBlocks : last = Idx!LastIndexedBlock
        BY <1>1, <4>1, Zenon
      <4>3. i' = last + 1 /\ last \in db /\ \A d \in db : d <= last
        BY <1>1, <2>1, <4>1, <4>2
      <4>4. \A d \in db : d < i'
        BY <1>1, <4>3
      <4>5. ASSUME NEW h \in EthBlocks, h < i', NEW a \in db, a < h
            PROVE  h \in Accounted
        <5>1. h = last \/ h < last
          BY <1>1, <4>3, <4>5
        <5>2. last \in Accounted
          BY <4>3 DEF Accounted
        <5>3. QED  BY <1>1, <4>3, <4>5, <5>1, <5>2, Zenon
      <4>6. QED  BY <2>1, <2>2, <4>4, <4>5, Zenon DEF ForwardInv
    <3>3. QED  BY <3>1, <3>2
  <2>4. QED  BY <1>1, <2>1, <2>2, <2>3 DEF IndexInv, Idx!Loop
<1>3. CASE Idx!StartBackward
  <2>1. /\ UNCHANGED <<db, passed, failed, skipped>> /\ pc' = "backward"
        /\ i' = (IF Idx!FirstIndexedBlock = -1 THEN blockHeight ELSE Idx!FirstIndexedBlock) - 1
    BY <1>3 DEF Idx!StartBackward
  <2>2. UNCHANGED Accounted
    BY <2>1 DEF Accounted
  <2>3. BackwardInv'
    <3>1. CASE db = {}
      BY <2>1, <3>1 DEF BackwardInv
    <3>2. CASE db # {}
      <4>1. Idx!FirstIndexedBlock \in db /\ \A d \in db : d >= Idx!FirstIndexedBlock
        BY <1>1, <3>2, Zenon DEF EndsOfDatabase
      <4>2. PICK first \in EthBlocks : first = Idx!FirstIndexedBlock
        BY <1>1, <4>1, Zenon
      <4>3. i' = first - 1 /\ first \in db /\ \A d \in db : d >= first
        BY <1>1, <2>1, <4>1, <4>2
      <4>4. \A d \in db : d > i'
        BY <1>1, <4>3
      <4>5. ASSUME NEW h \in EthBlocks, h > i', NEW b \in db, h < b
            PROVE  h \in Accounted
        <5>1. h = first \/ first < h
          BY <1>1, <4>3, <4>5
        <5>2. first \in Accounted
          BY <4>3 DEF Accounted
        <5>3. QED  BY <1>1, <4>3, <4>5, <5>1, <5>2, Zenon
      <4>6. QED  BY <2>1, <2>2, <4>4, <4>5, Zenon DEF BackwardInv
    <3>3. QED  BY <3>1, <3>2
  <2>4. QED  BY <1>1, <2>1, <2>2, <2>3 DEF IndexInv, Idx!Loop
<1>4. CASE Idx!CommandIndexes
  <2>1. /\ db' = db \cup ({i} \cap EthBlocks) /\ UNCHANGED <<passed, failed, skipped, pc>>
        /\ pc \in {"forward", "backward"}
        /\ i' = IF pc = "forward" THEN i + 1 ELSE i - 1
    BY <1>4 DEF Idx!CommandIndexes, Idx!CommandRunning, Idx!Indexed, Idx!startVars
  <2>2. /\ Accounted \subseteq Accounted' /\ (i \in EthBlocks => i \in Accounted')
        /\ \A d \in db' : d \in EthBlocks /\ (d \in db \/ d = i)
    BY <1>1, <2>1 DEF Accounted
  <2>3. CASE pc = "forward"
    <3>1. /\ \A d \in db : d < i
          /\ \A h \in EthBlocks : h < i /\ (\E a \in db : a < h) => h \in Accounted
      BY <2>3 DEF IndexInv, ForwardInv
    <3>2. \A d \in db' : d < i'
      BY <1>1, <2>1, <2>2, <2>3, <3>1
    <3>3. ASSUME NEW h \in EthBlocks, h < i', NEW a \in db', a < h
          PROVE  h \in Accounted'
      <4>1. h = i \/ (h < i /\ a \in db)
        BY <1>1, <2>1, <2>2, <2>3, <3>3
      <4>2. QED  BY <2>2, <3>1, <3>3, <4>1, Zenon
    <3>4. ForwardInv'
      BY <3>2, <3>3, Zenon DEF ForwardInv
    <3>5. ASSUME NEW h \in EthBlocks, NEW a \in db', NEW b \in db', a < h, h < b
          PROVE  h \in Accounted'
      <4>1. h < i'
        BY <1>1, <2>1, <2>2, <2>3, <3>2, <3>5
      <4>2. QED  BY <3>3, <3>5, <4>1, Zenon
    <3>6. QED  BY <2>1, <2>3, <3>4, <3>5 DEF IndexInv, Idx!Loop
  <2>4. CASE pc = "backward"
    <3>1. /\ \A d \in db : d > i
          /\ \A h \in EthBlocks : h > i /\ (\E b \in db : h < b) => h \in Accounted
      BY <2>4 DEF IndexInv, BackwardInv
    <3>2. \A d \in db' : d > i'
      BY <1>1, <2>1, <2>2, <2>4, <3>1
    <3>3. ASSUME NEW h \in EthBlocks, h > i', NEW b \in db', h < b
          PROVE  h \in Accounted'
      <4>1. h = i \/ (h > i /\ b \in db)
        BY <1>1, <2>1, <2>2, <2>4, <3>3
      <4>2. QED  BY <2>2, <3>1, <3>3, <4>1, Zenon
    <3>4. BackwardInv'
      BY <3>2, <3>3, Zenon DEF BackwardInv
    <3>5. ASSUME NEW h \in EthBlocks, NEW a \in db', NEW b \in db', a < h, h < b
          PROVE  h \in Accounted'
      <4>1. h > i'
        BY <1>1, <2>1, <2>2, <2>4, <3>2, <3>5
      <4>2. QED  BY <3>3, <3>5, <4>1, Zenon
    <3>6. QED  BY <2>1, <2>4, <3>4, <3>5 DEF IndexInv, Idx!Loop
  <2>5. QED  BY <2>1, <2>3, <2>4
<1>5. QED  BY <1>2, <1>3, <1>4

\* Every step keeps the types.
LEMMA IndexTypesStep ==
  ASSUME Idx!IndexerAssumption, EndsOfDatabase, IndexTypes, Idx!Next
  PROVE  IndexTypes'
<1>1. Idx!LastIndexedBlock \in Int /\ Idx!FirstIndexedBlock \in Int
  <2>1. EthBlocks \subseteq Int /\ db \subseteq EthBlocks /\ -1 \in Int
    BY HeightsAreNatural DEF IndexTypes
  <2>2. CASE db = {}
    BY <2>1, <2>2, Zenon DEF EndsOfDatabase
  <2>3. CASE db # {}
    <3>1. Idx!LastIndexedBlock \in db /\ Idx!FirstIndexedBlock \in db
      BY <2>1, <2>3, Zenon DEF EndsOfDatabase
    <3>2. QED  BY <2>1, <3>1, Zenon
  <2>4. QED  BY <2>2, <2>3
<1>2. CASE Idx!NewBlock
  BY <1>2 DEF IndexTypes, Idx!NewBlock, Idx!sharedVars, Idx!startVars
<1>3. CASE Idx!SaveResults
  BY <1>3 DEF IndexTypes, Idx!SaveResults, Idx!sharedVars, Idx!startVars
<1>4. CASE Idx!Prune
  BY <1>4 DEF IndexTypes, Idx!Prune, Idx!sharedVars, Idx!startVars
<1>5. CASE Idx!Start
  BY <1>5 DEF IndexTypes, Idx!Start, Idx!nodeVars
<1>6. CASE Idx!Subscribe
  BY <1>6 DEF IndexTypes, Idx!Subscribe, Idx!nodeVars, Idx!startVars
<1>7. CASE Idx!LoadLast
  <2>1. Idx!ResumeFrom(Idx!LastIndexedBlock) \in Int
    BY <1>1 DEF Idx!ResumeFrom, IndexTypes
  <2>2. lastBlock' \in Int /\ resumed' \in Int /\ pc' \in {"panicked", "check"}
    BY <1>7, <2>1 DEF IndexTypes, Idx!LoadLast
  <2>3. QED  BY <1>7, <2>2 DEF IndexTypes, Idx!LoadLast, Idx!nodeVars, Idx!sharedVars
<1>8. CASE Idx!Check
  BY <1>8 DEF IndexTypes, Idx!Check, Idx!nodeVars, Idx!sharedVars, Idx!startVars
<1>9. CASE Idx!ForDone
  BY <1>9 DEF IndexTypes, Idx!ForDone, Idx!nodeVars, Idx!sharedVars, Idx!startVars
<1>10. CASE Idx!Fetch
  BY <1>10 DEF IndexTypes, Idx!Fetch, Idx!nodeVars, Idx!sharedVars, Idx!startVars
<1>11. CASE Idx!FetchNotAvailable
  BY <1>11 DEF IndexTypes, Idx!FetchNotAvailable, Idx!nodeVars, Idx!sharedVars, Idx!startVars
<1>12. CASE Idx!FetchFails
  BY <1>12 DEF IndexTypes, Idx!FetchFails, Idx!nodeVars, Idx!sharedVars, Idx!startVars
<1>13. CASE Idx!IndexBlockFails
  BY <1>13 DEF IndexTypes, Idx!IndexBlockFails, Idx!nodeVars, Idx!sharedVars, Idx!startVars
<1>14. CASE Idx!CommandEnds
  BY <1>14 DEF IndexTypes, Idx!CommandEnds, Idx!nodeVars, Idx!sharedVars, Idx!startVars
<1>15. CASE Idx!Wait
  BY <1>15 DEF IndexTypes, Idx!Wait, Idx!nodeVars, Idx!startVars
<1>16. CASE Idx!ReceiveHeader
  BY <1>16 DEF IndexTypes, Idx!ReceiveHeader, Idx!nodeVars, Idx!startVars
<1>17. CASE Idx!Crash
  BY <1>17 DEF IndexTypes, Idx!Crash, Idx!nodeVars, Idx!startVars
<1>18. CASE Idx!IndexBlock
  BY <1>18 DEF IndexTypes, Idx!IndexBlock, Idx!Indexed, Idx!nodeVars, Idx!sharedVars, Idx!startVars
<1>19. CASE Idx!CommandIndexes
  BY <1>19 DEF IndexTypes, Idx!CommandIndexes, Idx!Indexed, Idx!nodeVars, Idx!sharedVars, Idx!startVars
<1>20. CASE Idx!StartForward
  BY <1>1, <1>20 DEF IndexTypes, Idx!StartForward, Idx!nodeVars, Idx!sharedVars
<1>21. CASE Idx!StartBackward
  BY <1>1, <1>21 DEF IndexTypes, Idx!StartBackward, Idx!nodeVars, Idx!sharedVars
<1>22. QED
  BY Zenon, <1>2, <1>3, <1>4, <1>5, <1>6, <1>7, <1>8, <1>9, <1>10, <1>11, <1>12, <1>13, <1>14, <1>15, <1>16, <1>17, <1>18, <1>19, <1>20, <1>21
     DEF Idx!Next, Idx!Service

\* The node, a crash and the end of the command index nothing.
LEMMA IndexStep ==
  ASSUME Idx!IndexerAssumption, EndsOfDatabase, IndexInv, [Idx!Next]_Idx!vars
  PROVE  IndexInv'
<1>1. CASE UNCHANGED Idx!vars
  <2>1. IndexTypes'
    BY <1>1 DEF IndexInv, IndexTypes, Idx!vars
  <2>2. QED  BY ZenonT(30), <1>1, <2>1, NothingIndexed DEF Idx!vars
<1>2. CASE Idx!Next
  <2>1. IndexTypes'
    BY Zenon, <1>2, IndexTypesStep DEF IndexInv
  <2>2. CASE Idx!NewBlock \/ Idx!SaveResults \/ Idx!Prune \/ Idx!ReceiveHeader
    BY ZenonT(30), <2>1, <2>2, NothingIndexed
       DEF Idx!NewBlock, Idx!SaveResults, Idx!Prune, Idx!ReceiveHeader, Idx!startVars
  <2>3. CASE Idx!Start \/ Idx!Crash \/ Idx!CommandEnds
    BY <2>1, <2>3, NothingIndexed DEF Idx!Start, Idx!Crash, Idx!CommandEnds, Idx!startVars, Idx!Loop
  <2>4. QED  BY Zenon, <1>2, <2>1, <2>2, <2>3, ServiceInvStep, CommandInvStep DEF Idx!Next
<1>3. QED  BY Zenon, <1>1, <1>2

LOCAL FST == INSTANCE FiniteSetTheorems

\* A nonempty set of numbers up to n has a largest and a smallest member.
LEMMA Extremes ==
  ASSUME NEW n \in Nat, NEW S, S \subseteq 1..n, S # {}
  PROVE  (\E x \in S : \A y \in S : y <= x) /\ (\E x \in S : \A y \in S : x <= y)
<1>1. FST!IsFiniteSet(S)
  <2>1. 1 \in Int /\ n \in Int
    OBVIOUS
  <2>2. FST!IsFiniteSet(1..n)
    BY ONLY <2>1, FST!FS_Interval, Zenon
  <2>3. QED  BY ONLY <2>2, S \subseteq 1..n, FST!FS_Subset, Zenon
<1>2. FST!IsWellFoundedOn(FST!StrictSubsetOrdering(S), SUBSET S)
  BY <1>1, FST!FS_StrictSubsetOrderingWellFounded, FST!FS_FiniteSubsetsOfFinite, Zenon
<1>3. \A z \in S : z \in Int
  OBVIOUS
<1>4. \E x \in S : \A y \in S : y <= x
  <2> DEFINE Above(x) == {y \in S : x <= y}
             C == {Above(x) : x \in S}
  <2>1. C \in SUBSET (SUBSET S) /\ C # {}
    BY ONLY Zenon, S # {}
  <2>2. PICK T \in C : \A U \in C : ~ (<<U, T>> \in FST!StrictSubsetOrdering(S))
    BY ONLY <1>2, <2>1, FST!WFMin, Zenon
  <2>3. PICK x \in S : T = Above(x)
    BY ONLY <2>2, Zenon
  <2>4. ASSUME NEW y \in S, ~ (y <= x)  PROVE FALSE
    <3>1. /\ x <= x /\ ~ (y <= x)
          /\ \A z \in S : y <= z => x <= z
      BY ONLY <1>3, <2>4, x \in S, y \in S
    <3>2. <<Above(y), T>> \in FST!StrictSubsetOrdering(S)
      BY ONLY <2>3, <3>1, x \in S, Zenon DEF FST!StrictSubsetOrdering
    <3>3. QED  BY ONLY <2>2, <3>2, y \in S, Zenon
  <2>5. QED  BY ONLY <2>4, x \in S, Zenon
<1>5. \E x \in S : \A y \in S : x <= y
  <2> DEFINE Below(x) == {y \in S : y <= x}
             C == {Below(x) : x \in S}
  <2>1. C \in SUBSET (SUBSET S) /\ C # {}
    BY ONLY Zenon, S # {}
  <2>2. PICK T \in C : \A U \in C : ~ (<<U, T>> \in FST!StrictSubsetOrdering(S))
    BY ONLY <1>2, <2>1, FST!WFMin, Zenon
  <2>3. PICK x \in S : T = Below(x)
    BY ONLY <2>2, Zenon
  <2>4. ASSUME NEW y \in S, ~ (x <= y)  PROVE FALSE
    <3>1. /\ x <= x /\ ~ (x <= y)
          /\ \A z \in S : z <= y => z <= x
      BY ONLY <1>3, <2>4, x \in S, y \in S
    <3>2. <<Below(y), T>> \in FST!StrictSubsetOrdering(S)
      BY ONLY <2>3, <3>1, x \in S, Zenon DEF FST!StrictSubsetOrdering
    <3>3. QED  BY ONLY <2>2, <3>2, y \in S, Zenon
  <2>5. QED  BY ONLY <2>4, x \in S, Zenon
<1>6. QED  BY <1>4, <1>5, Zenon

\* A database of heights of the chain has its ends: it is finite.
LEMMA DatabaseHasEnds ==
  ASSUME Idx!IndexerAssumption, db \subseteq EthBlocks
  PROVE  EndsOfDatabase
<1>1. CASE db = {}
  BY Zenon, <1>1 DEF EndsOfDatabase, Idx!LastIndexedBlock, Idx!FirstIndexedBlock
<1>2. CASE db # {}
  <2>1. db \in SUBSET (1..MaxHeight) /\ MaxHeight \in Nat
    BY HeightsAreNatural
  <2>2. PICK S : S = db
    BY Zenon
  <2>3. (\E x \in S : \A y \in S : y <= x) /\ (\E x \in S : \A y \in S : x <= y)
    <3>1. S \subseteq 1..MaxHeight /\ S # {} /\ MaxHeight \in Nat
      BY ONLY <1>2, <2>1, <2>2, Zenon
    <3>2. QED  BY ONLY <3>1, Extremes, Zenon
  <2>4. /\ Idx!Max(db) \in db /\ \A d \in db : d <= Idx!Max(db)
        /\ Idx!Min(db) \in db /\ \A d \in db : Idx!Min(db) <= d
    BY <2>2, <2>3, Zenon DEF Idx!Max, Idx!Min
  <2>5. QED  BY ZenonT(30), <1>2, <2>4, HeightsAreNatural DEF EndsOfDatabase, Idx!LastIndexedBlock, Idx!FirstIndexedBlock
<1>3. QED  BY ZenonT(30), <1>1, <1>2

\* Pruning only goes on: what was gone at a start or at a fetch is still gone.
PrunedInv == statusEarliest <= earliest /\ \A h \in skipped : h \in Int /\ h < earliest

LEMMA PrunedStep ==
  ASSUME Idx!IndexerAssumption, EndsOfDatabase, IndexTypes, PrunedInv, [Idx!Next]_Idx!vars
  PROVE  PrunedInv'
<1>1. earliest \in Int /\ statusEarliest \in Int /\ i \in Int
  BY DEF IndexTypes
<1>2. CASE UNCHANGED <<earliest, statusEarliest, skipped>>
  BY <1>2 DEF PrunedInv
<1>3. CASE Idx!Prune
  BY <1>1, <1>3 DEF PrunedInv, Idx!Prune, Idx!startVars
<1>4. CASE Idx!Start
  BY <1>1, <1>4 DEF PrunedInv, Idx!Start, Idx!nodeVars
<1>5. CASE Idx!LoadLast
  <2>1. UNCHANGED <<earliest, statusEarliest>>
    BY <1>5 DEF Idx!LoadLast, Idx!nodeVars
  <2>2. ASSUME NEW h \in skipped' PROVE h \in Int /\ h < earliest
    <3>1. CASE h \in skipped
      BY <3>1 DEF PrunedInv
    <3>2. CASE h \in (Idx!LastIndexedBlock + 1)..(statusEarliest - 1)
      BY <1>1, <3>2 DEF PrunedInv
    <3>3. QED  BY <1>5, <2>2, <3>1, <3>2 DEF Idx!LoadLast
  <2>3. QED  BY <2>1, <2>2 DEF PrunedInv
<1>6. CASE Idx!FetchNotAvailable
  BY <1>1, <1>6 DEF PrunedInv, Idx!FetchNotAvailable, Idx!nodeVars, Idx!startVars
<1>7. QED
  <2>1. CASE Idx!NewBlock \/ Idx!SaveResults \/ Idx!Subscribe \/ Idx!ReceiveHeader
    BY Zenon, <1>2, <2>1 DEF Idx!NewBlock, Idx!SaveResults, Idx!Subscribe, Idx!ReceiveHeader, Idx!nodeVars, Idx!startVars
  <2>2. CASE Idx!Check \/ Idx!Wait \/ Idx!ForDone \/ Idx!Fetch \/ Idx!FetchFails
    BY Zenon, <1>2, <2>2 DEF Idx!Check, Idx!Wait, Idx!ForDone, Idx!Fetch, Idx!FetchFails, Idx!nodeVars, Idx!startVars
  <2>3. CASE Idx!IndexBlock \/ Idx!IndexBlockFails \/ Idx!Crash
    BY Zenon, <1>2, <2>3 DEF Idx!IndexBlock, Idx!IndexBlockFails, Idx!Crash, Idx!nodeVars, Idx!startVars
  <2>4. CASE Idx!StartForward \/ Idx!StartBackward \/ Idx!CommandIndexes \/ Idx!CommandEnds
    BY Zenon, <1>2, <2>4
       DEF Idx!StartForward, Idx!StartBackward, Idx!CommandIndexes, Idx!CommandEnds, Idx!nodeVars, Idx!startVars
  <2>5. CASE UNCHANGED Idx!vars
    BY Zenon, <1>2, <2>5 DEF Idx!vars
  <2>6. QED  BY Zenon, <1>3, <1>4, <1>5, <1>6, <2>1, <2>2, <2>3, <2>4, <2>5 DEF Idx!Next, Idx!Service

\* Between two indexed blocks, and between where the service resumed and where it
\* is, no block is missing but one that failed, one that was pruned when a service
\* with allow-indexer-gap came to it, and the earliest block of the node at a start
\* below it, for every chain, every pruning and every sequence of services,
\* commands, crashes and failed fetches (server/indexer_service.go, indexer_cmd.go).
THEOREM IndexHasNoSilentGap ==
  ASSUME Idx!IndexerAssumption
  PROVE  Idx!Spec => []Idx!NoSilentGap
<1>1. Idx!Init => IndexInv /\ PrunedInv
  BY DEF Idx!Init, IndexInv, IndexTypes, PrunedInv, Idx!Loop
<1>2. IndexInv /\ PrunedInv => Idx!NoSilentGap
  BY ZenonT(30) DEF IndexInv, ServiceInv, PrunedInv, Accounted, Idx!NoSilentGap
<1>3. ASSUME IndexInv, PrunedInv, [Idx!Next]_Idx!vars PROVE (IndexInv /\ PrunedInv)'
  BY <1>3, DatabaseHasEnds, IndexStep, PrunedStep DEF IndexInv, IndexTypes
<1>4. QED  BY <1>1, <1>2, <1>3, PTL DEF Idx!Spec
=============================================================================
