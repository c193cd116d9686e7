----------------------------- MODULE FeeMarket -----------------------------
(***************************************************************************)
(* x/feemarket: the EIP-1559 base fee.  BeginBlock computes the base fee   *)
(* of the block from the gas the previous block wanted, EndBlock records   *)
(* the gas of this one, and governance may replace the parameters, which   *)
(* hold the base fee itself, in between.  Decimals (LegacyDec) are         *)
(* integers scaled by Dec.                                                 *)
(***************************************************************************)
EXTENDS Integers

CONSTANTS MaxInt256, MaxUint64, Dec, \* the widths and the precision, scaled down for TLC
          Proposals,       \* parameters that genesis or governance may propose
          MaxGasValues,    \* values of the consensus parameter Block.MaxGas
          MaxHeight, MaxTxGas

Params ==
  [noBaseFee : BOOLEAN, baseFeeChangeDenominator : Nat, elasticityMultiplier : Nat, baseFee : Int,
   enableHeight : Int, minGasPrice : Int, minGasMultiplier : Int]

MaxInt64 == MaxUint64 \div 2

ASSUME FeeMarketAssumption ==
  /\ MaxInt256 \in Nat \ {0} /\ MaxUint64 \in Nat \ {0} /\ Dec \in Nat \ {0}
  /\ Proposals \subseteq Params
  /\ \A p \in Proposals : p.baseFee <= MaxInt256
  /\ MaxGasValues \subseteq {g \in Int : g >= -1 /\ g <= MaxInt64}
  /\ MaxHeight \in Nat /\ MaxTxGas \in Nat

VARIABLES params, blockGasWanted,  \* the module's store
          maxGas,                  \* the consensus parameter
          height, phase,           \* begin, deliver, halted
          wanted, used             \* BlockGasWanted and BlockGasUsed of the context

vars == <<params, blockGasWanted, maxGas, height, phase, wanted, used>>

-----------------------------------------------------------------------------

\* Params.Validate
Valid(p) ==
  /\ p.baseFeeChangeDenominator # 0
  /\ p.baseFee >= 0
  /\ p.enableHeight >= 0
  /\ p.minGasMultiplier >= 0 /\ p.minGasMultiplier <= Dec
  /\ p.elasticityMultiplier # 0
  /\ p.minGasPrice >= 0

IsBaseFeeEnabled(p, h) == ~ p.noBaseFee /\ h >= p.enableHeight

\* A mutant of GasTarget: the multiplier counted twice.
GasTargetTwice(p, max) ==
  (IF max > -1 THEN max ELSE MaxUint64) \div (p.elasticityMultiplier * p.elasticityMultiplier)

\* The gas target: -1 stands for unlimited block gas.
GasTarget(p, max) == (IF max > -1 THEN max ELSE MaxUint64) \div p.elasticityMultiplier

TruncateInt(dec) == dec \div Dec

BigMax(x, y) == IF x >= y THEN x ELSE y

\* The change of a base fee for a difference of delta between gas and target.
FeeDelta(fee, delta, gasTarget, denominator) == ((fee * delta) \div gasTarget) \div denominator

\* A mutant of Raised: without the minimal step of 1.
RaisedWithoutStep(fee, delta, gasTarget, denominator) == fee + FeeDelta(fee, delta, gasTarget, denominator)

\* A block above the target raises the fee by at least 1.
Raised(fee, delta, gasTarget, denominator) ==
  fee + BigMax(FeeDelta(fee, delta, gasTarget, denominator), 1)

\* A mutant of Lowered: by at least 1, as for an increase.
LoweredByStep(fee, delta, gasTarget, denominator, floor) ==
  BigMax(fee - BigMax(FeeDelta(fee, delta, gasTarget, denominator), 1), floor)

\* A block below the target lowers it, but not below the minimum gas price.
Lowered(fee, delta, gasTarget, denominator, floor) ==
  BigMax(fee - FeeDelta(fee, delta, gasTarget, denominator), floor)

\* CalculateBaseFee when enabled and past EnableHeight.
NextFee(p, gas, gasTarget) ==
  CASE gas = gasTarget -> p.baseFee
    [] gas > gasTarget -> Raised(p.baseFee, gas - gasTarget, gasTarget, p.baseFeeChangeDenominator)
    [] gas < gasTarget -> Lowered(p.baseFee, gasTarget - gas, gasTarget, p.baseFeeChangeDenominator,
                                  TruncateInt(p.minGasPrice))

SaturatedNewInt(i) == IF i > MaxInt256 THEN MaxInt256 ELSE i

\* big.Int.Div panics.
DividesByZero(p, gas, h) ==
  /\ IsBaseFeeEnabled(p, h) /\ h # p.enableHeight
  /\ GasTarget(p, maxGas) = 0 /\ gas # 0

\* BeginBlock keeps the fee before and at EnableHeight, and without base fee.
BeginBlock ==
  /\ phase = "begin" /\ height <= MaxHeight
  /\ ~ DividesByZero(params, blockGasWanted, height)
  /\ params' = IF IsBaseFeeEnabled(params, height) /\ height # params.enableHeight
               THEN [params EXCEPT !.baseFee =
                       SaturatedNewInt(NextFee(params, blockGasWanted, GasTarget(params, maxGas)))]
               ELSE params
  /\ phase' = "deliver"
  /\ wanted' = 0 /\ used' = 0
  /\ UNCHANGED <<blockGasWanted, maxGas, height>>

BeginBlockPanics ==
  /\ phase = "begin" /\ height <= MaxHeight
  /\ DividesByZero(params, blockGasWanted, height)
  /\ phase' = "halted"
  /\ UNCHANGED <<params, blockGasWanted, maxGas, height, wanted, used>>

\* A transaction.  The meter of one that runs out of gas ends above its limit.
DeliverTx(gasWanted, gasUsed) ==
  /\ phase = "deliver"
  /\ wanted + gasWanted <= MaxUint64 /\ used + gasUsed <= MaxUint64
  /\ wanted' = wanted + gasWanted /\ used' = used + gasUsed
  /\ UNCHANGED <<params, blockGasWanted, maxGas, height, phase>>

\* MsgUpdateParams, executed by governance before the module's EndBlock.
UpdateParams(p) ==
  /\ phase = "deliver"
  /\ Valid(p)
  /\ params' = p
  /\ UNCHANGED <<blockGasWanted, maxGas, height, phase, wanted, used>>

\* A change of the consensus parameters takes effect with the next block.
UpdateConsensusParams(g) ==
  /\ phase = "begin"
  /\ maxGas' = g
  /\ UNCHANGED <<params, blockGasWanted, height, phase, wanted, used>>

\* The gas wanted counts for at least MinGasMultiplier of what was asked.
LimitedGasWanted(p, w, u) == TruncateInt(BigMax(w * p.minGasMultiplier, u * Dec))

EndBlock ==
  /\ phase = "deliver"
  /\ wanted <= MaxInt64 /\ used <= MaxInt64
  /\ blockGasWanted' = LimitedGasWanted(params, wanted, used)
  /\ phase' = "begin"
  /\ height' = height + 1
  /\ UNCHANGED <<params, maxGas, wanted, used>>

\* EndBlock returns an error for gas beyond int64, and the block fails.
EndBlockOverflows ==
  /\ phase = "deliver"
  /\ wanted > MaxInt64 \/ used > MaxInt64
  /\ phase' = "halted"
  /\ UNCHANGED <<params, blockGasWanted, maxGas, height, wanted, used>>

Init ==
  /\ params \in {p \in Proposals : Valid(p)}
  /\ blockGasWanted \in 0..MaxTxGas
  /\ maxGas \in MaxGasValues
  /\ height = 1 /\ phase = "begin"
  /\ wanted = 0 /\ used = 0

Next ==
  \/ BeginBlock \/ BeginBlockPanics
  \/ \E w, u \in 0..MaxTxGas : DeliverTx(w, u)
  \/ \E p \in Proposals : UpdateParams(p)
  \/ \E g \in MaxGasValues : UpdateConsensusParams(g)
  \/ EndBlock \/ EndBlockOverflows

Spec == Init /\ [][Next]_vars

-----------------------------------------------------------------------------
(* Properties *)

\* Types: the stored parameters are always valid, although BeginBlock ignores
\* the error of SetParams, and the base fee fits the width of sdkmath.Int.
TypeOK ==
  /\ params \in Params /\ Valid(params) /\ params.baseFee <= MaxInt256
  /\ blockGasWanted \in Nat
  /\ maxGas \in MaxGasValues
  /\ height \in Nat
  /\ phase \in {"begin", "deliver", "halted"}
  /\ wanted \in Nat /\ used \in Nat

Adjusts == BeginBlock /\ IsBaseFeeEnabled(params, height) /\ height # params.enableHeight

Target == GasTarget(params, maxGas)
Floor == TruncateInt(params.minGasPrice)

\* The base fee follows demand: it rises strictly above the target (until it
\* saturates), stays at the target, and below the target never rises beyond
\* the minimum gas price.
FeeFollowsDemand ==
  [][Adjusts =>
      /\ blockGasWanted > Target => params'.baseFee > params.baseFee \/ params'.baseFee = MaxInt256
      /\ blockGasWanted = Target => params'.baseFee = params.baseFee
      /\ blockGasWanted < Target => params'.baseFee <= BigMax(params.baseFee, Floor)]_vars

\* A base fee at or above the global minimum gas price stays there whatever
\* the blocks contain, until governance changes the parameters.
FloorKept ==
  [][BeginBlock /\ params.baseFee >= Floor => params'.baseFee >= Floor]_vars

\* BaseFeeChangeDenominator bounds the change between two blocks: the fee
\* drops by at most the fraction 1/denominator, and for a block within
\* ElasticityMultiplier times the target it rises by at most that many
\* fractions, by 1, or to the minimum gas price.
BoundedChange ==
  [][Adjusts =>
      LET fee == params.baseFee
          d == params.baseFeeChangeDenominator
          e == params.elasticityMultiplier
      IN  /\ params'.baseFee >= fee - (fee \div d)
          /\ blockGasWanted <= e * Target =>
               params'.baseFee <= BigMax(fee + BigMax(((e - 1) * fee) \div d, 1), Floor)]_vars

\* The gas recorded for the next base fee lies between what the block used
\* and the larger of that and what its transactions asked for.
GasRecorded == phase = "begin" /\ height > 1 => blockGasWanted \in used..BigMax(wanted, used)

\* BeginBlock divides by zero, and the chain halts, only with a block gas limit
\* below ElasticityMultiplier, which nothing checks; neither parameters nor
\* demand bring it about otherwise.
NoDivisionByZero ==
  phase = "begin" /\ params.elasticityMultiplier <= (IF maxGas > -1 THEN maxGas ELSE MaxUint64)
    => ~ DividesByZero(params, blockGasWanted, height)
=============================================================================
