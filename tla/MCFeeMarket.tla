---------------------------- MODULE MCFeeMarket ----------------------------
(***************************************************************************)
(* Small instances of FeeMarket for TLC.                                   *)
(***************************************************************************)
EXTENDS FeeMarket

Proposal(off, d, e, fee, enable, price, mult) ==
  [noBaseFee |-> off, baseFeeChangeDenominator |-> d, elasticityMultiplier |-> e, baseFee |-> fee,
   enableHeight |-> enable, minGasPrice |-> price, minGasMultiplier |-> mult]

\* With invalid ones, and a minimum gas price above the fee.
MCProposals ==
  {Proposal(FALSE, d, e, fee, 0, price, 1) : d \in {1, 3}, e \in {1, 2}, fee \in {0, 7}, price \in {0, 21}}
    \cup {Proposal(off, 2, 2, 19, enable, 5, mult) : off \in BOOLEAN, enable \in {0, 2}, mult \in {0, 2}}
    \cup {Proposal(FALSE, 0, 2, 7, 0, 0, 1), Proposal(FALSE, 2, 0, 7, 0, 0, 1),
          Proposal(FALSE, 2, 2, -1, 0, 0, 1), Proposal(FALSE, 2, 2, 7, 0, 0, 3)}

\* Unlimited block gas, a limit that cannot be split, one that just can, and a larger one.
MCMaxGas == {-1, 1, 2, 5}
=============================================================================
