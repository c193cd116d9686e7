------------------------------ MODULE MCEvmTx ------------------------------
(* Instances of EvmTx for TLC. *)
EXTENDS EvmTx, TLC

CONSTANTS a, b

Transfer(from, to, nonce, gas, feeCap, tipCap, value) ==
  [from |-> from, to |-> to, nonce |-> nonce, create |-> FALSE, dynamic |-> tipCap < feeCap,
   gas |-> gas, feeCap |-> feeCap, tipCap |-> tipCap, value |-> value]
Creation(from, to, nonce, gas, price, value) ==
  [Transfer(from, to, nonce, gas, price, price, value) EXCEPT !.create = TRUE]

MCGenesis ==
  [balance |-> (a :> 16 @@ b :> 0), sequence |-> (a :> 0 @@ b :> 0), exists |-> {a}]

MCConfig(baseFee, minGasPrice, multiplier, create) ==
  [baseFee |-> baseFee, minGasPrice |-> minGasPrice, minGasMultiplier |-> multiplier,
   enableCreate |-> create, enableCall |-> TRUE]

\* A dynamic fee, legacy ones, a creation alone and before a call, too much gas for a
\* block, several messages of one and of two senders.
MCTxs ==
  { <<Transfer(a, b, 0, 2, 2, 1, 5)>>,
    <<Transfer(a, b, 1, 4, 1, 1, 0)>>,
    <<Creation(a, b, 0, 3, 2, 1)>>,
    <<Creation(a, b, 0, 2, 2, 1), Transfer(a, b, 1, 2, 2, 1, 0)>>,
    <<Transfer(a, b, 0, 6, 1, 1, 0)>>,
    <<Transfer(a, b, 1, 3, 2, 1, 0), Transfer(a, b, 2, 1, 2, 1, 0)>>,
    <<Transfer(b, a, 0, 2, 2, 2, 1)>>,
    <<Transfer(b, a, 0, 2, 2, 1, 4), Transfer(a, b, 1, 1, 2, 2, 0)>> }

\* From before London to base fees of 0 and 1.
MCBaseFees == {Nil, 0, 1}
MCConfigs == {MCConfig(Nil, 2, 1, TRUE), MCConfig(1, 0, 0, FALSE), MCConfig(1, 1, 2, TRUE)}
=============================================================================
