----------------------------- MODULE EvmTxProofs ----------------------------
(***************************************************************************)
(* Proofs about the receipts of EvmTx, for any accounts, transactions,     *)
(* configurations and bounds: the fees they charge, the bloom of their     *)
(* logs, and the nonces they use up.                                       *)
(***************************************************************************)
EXTENDS EvmTxLedger

-----------------------------------------------------------------------------
(* What a transaction pays *)

\* While messages run, the fee collector holds what the finished ones were
\* charged and the full fees of the others.
FeeInv ==
  pc = "msgs" =>
    /\ CheckEthMinGasPrice(cfg, tx)
    /\ escrow = SumFunction(Fees(cfg, tx))
    /\ ResultsOf(tx, branch.msgs, msgIndex)
    /\ branch.escrow = SumFunction(Charged(cfg, tx, branch.msgs, msgIndex))
    /\ branch.gas = SumFunction(UsedBefore(tx, branch.msgs, msgIndex))

\* The receipts of the blocks so far.
ReceiptType ==
  [height : Nat, tx : Txs, ok : BOOLEAN, gas : Nat, fee : Nat,
   msgs : Seq(MessageResult), cfg : Config]
HistoryTypes == height \in Nat /\ receipts \in Seq(ReceiptType)

\* One more message: its full fee is replaced by the price of the gas it used.
LEMMA NextResult ==
  ASSUME NEW c \in Config, NEW t \in Txs, CheckEthMinGasPrice(c, t), NEW i \in DOMAIN t,
         NEW ms, ResultsOf(t, ms, i), NEW g \in Nat, g <= t[i].gas,
         NEW x \in MessageResult, x.gasUsed = g, NEW ms2, ms2 = WithResult(ms, x)
  PROVE  /\ ResultsOf(t, ms2, i + 1)
         /\ SumFunction(Charged(c, t, ms2, i + 1))
            = SumFunction(Charged(c, t, ms, i)) - Fees(c, t)[i] + EffectiveGasPrice(t[i], c.baseFee) * g
         /\ SumFunction(UsedBefore(t, ms2, i + 1)) = SumFunction(UsedBefore(t, ms, i)) + g
<1>0. i \in 1..Len(t) /\ Len(t) \in Nat /\ DOMAIN t = 1..Len(t) /\ IsFiniteSet(DOMAIN t)
  BY TxIs
<1>1. /\ Len(ms) = i - 1 /\ Len(ms2) = i /\ ms2[i].gasUsed = g /\ \A k \in 1..(i - 1) : ms2[k] = ms[k]
      /\ ms2 \in Seq(MessageResult)
  <2>1. ms \in Seq(MessageResult) /\ Len(ms) = i - 1
    BY DEF ResultsOf
  <2>. QED
    BY <1>0, <2>1 DEF WithResult
<1>2. ResultsOf(t, ms2, i + 1)
  <2>1. ASSUME NEW k \in 1..i PROVE ms2[k].gasUsed <= t[k].gas
    <3>1. CASE k = i
      BY <1>1, <3>1
    <3>2. CASE k # i
      <4>1. k \in 1..(i - 1)
        BY <1>0, <3>2
      <4>. QED
        BY <1>1, <4>1 DEF ResultsOf
    <3>. QED
      BY <3>1, <3>2
  <2>2. (i + 1) - 1 = i
    BY <1>0
  <2>. QED
    BY <1>1, <2>1, <2>2 DEF ResultsOf
<1>3. i \in 1..(Len(t) + 1) /\ i + 1 \in 1..(Len(t) + 1)
  BY <1>0
<1>4. PICK D : D = DOMAIN t
  OBVIOUS
<1>5. PICK p : p = EffectiveGasPrice(t[i], c.baseFee)
  OBVIOUS
<1>6. p * g \in Nat
  BY <1>5, MessagePays
<1>7. PICK f : f = Charged(c, t, ms, i)
  OBVIOUS
<1>8. PICK f2 : f2 = Charged(c, t, ms2, i + 1)
  OBVIOUS
<1>9. PICK u : u = UsedBefore(t, ms, i)
  OBVIOUS
<1>10. PICK u2 : u2 = UsedBefore(t, ms2, i + 1)
  OBVIOUS
<1>11. IsFiniteSet(D) /\ i \in D
  BY <1>0, <1>4
<1>12. f2[i] = p * g /\ f[i] = Fees(c, t)[i] /\ u2[i] = g /\ u[i] = 0
  BY ONLY SMTT(30), Z3T(30), <1>0, <1>1, <1>5, <1>7, <1>8, <1>9, <1>10 DEF Charged, UsedBefore
<1>13. ASSUME NEW k \in D, k # i PROVE f2[k] = f[k] /\ u2[k] = u[k]
  <2>1. k \in 1..Len(t) /\ k \in DOMAIN t
    BY <1>0, <1>4
  <2>2. CASE k < i
    <3>1. k \in 1..(i - 1) /\ k < i + 1
      BY <1>0, <2>1, <2>2
    <3>2. ms2[k] = ms[k]
      BY <1>1, <3>1
    <3>. QED
      BY Zenon, <1>7, <1>8, <1>9, <1>10, <2>1, <2>2, <3>1, <3>2 DEF Charged, UsedBefore
  <2>3. CASE ~ (k < i)
    <3>1. ~ (k < i + 1)
      BY ONLY SMTT(30), Z3T(30), <1>0, <1>13, <2>1, <2>3
    <3>. QED
      BY Zenon, <1>7, <1>8, <1>9, <1>10, <2>1, <2>3, <3>1 DEF Charged, UsedBefore
  <2>. QED
    BY <2>2, <2>3
<1>14. \A k \in D : f[k] \in Int /\ u[k] \in Int
  BY SMTT(30), Z3T(30), <1>3, <1>4, <1>7, <1>9, ChargedIs
<1>15. SumFunctionOnSet(f2, D) = SumFunctionOnSet(f, D) - f[i] + p * g
  BY ONLY SMTT(30), Z3T(30), <1>6, <1>11, <1>12, <1>13, <1>14, SumUpdate
<1>16. SumFunctionOnSet(u2, D) = SumFunctionOnSet(u, D) - u[i] + g
  BY ONLY SMTT(30), Z3T(30), g \in Nat, <1>11, <1>12, <1>13, <1>14, SumUpdate
<1>17. /\ SumFunction(f) = SumFunctionOnSet(f, D) /\ SumFunction(f2) = SumFunctionOnSet(f2, D)
       /\ SumFunction(u) = SumFunctionOnSet(u, D) /\ SumFunction(u2) = SumFunctionOnSet(u2, D)
  BY Zenon, <1>4, <1>7, <1>8, <1>9, <1>10, SumOverDomain DEF Charged, UsedBefore
<1>18. SumFunctionOnSet(u, D) \in Int
  BY ONLY Zenon, <1>11, <1>14, SumInt
<1>19. SumFunction(f2) = SumFunction(f) - Fees(c, t)[i] + p * g
  BY ONLY ZenonT(30), <1>12, <1>15, <1>17
<1>20. SumFunction(u2) = SumFunction(u) + g
  BY ONLY g \in Nat, <1>12, <1>16, <1>17, <1>18
<1>. QED
  BY ONLY ZenonT(30), <1>2, <1>5, <1>7, <1>8, <1>9, <1>10, <1>19, <1>20

\* Appending a receipt.
LEMMA ReceiptAppends ==
  ASSUME NEW R, NEW s \in Seq(R), NEW r \in R, NEW s2, s2 = Append(s, r)
  PROVE  /\ s2 \in Seq(R) /\ Len(s2) = Len(s) + 1 /\ Len(s) \in Nat
         /\ DOMAIN s = 1..Len(s) /\ DOMAIN s2 = 1..(Len(s) + 1)
         /\ s2[Len(s) + 1] = r /\ \A n \in 1..Len(s) : s2[n] = s[n]
OBVIOUS

\* A transaction whose messages all ran has paid for the gas they used.
LEMMA SuccessFee ==
  ASSUME NEW c \in Config, NEW t \in Txs, CheckEthMinGasPrice(c, t), NEW ms, ResultsOf(t, ms, Len(t) + 1),
         NEW r, r.ok, r.tx = t, r.cfg = c, r.msgs = ms,
         r.fee = SumFunction(Charged(c, t, ms, Len(t) + 1)), r.gas = SumFunction(UsedBefore(t, ms, Len(t) + 1))
  PROVE  FeeMatches(r)
<1>1. Len(t) \in Nat /\ DOMAIN t = 1..Len(t) /\ Len(t) + 1 \in 1..(Len(t) + 1)
  BY TxIs
<1>2. \A k \in DOMAIN t : k < Len(t) + 1
  BY <1>1
<1>3. Charged(c, t, ms, Len(t) + 1) = [k \in DOMAIN t |-> EffectiveGasPrice(t[k], c.baseFee) * ms[k].gasUsed]
  BY <1>2 DEF Charged
<1>4. UsedBefore(t, ms, Len(t) + 1) = [k \in DOMAIN t |-> ms[k].gasUsed]
  BY Zenon, <1>2 DEF UsedBefore
<1>5. /\ c.minGasPrice * r.gas <= r.fee /\ r.fee \in Nat /\ r.gas \in Nat
      /\ r.fee <= SumFunction([k \in DOMAIN t |-> t[k].feeCap * t[k].gas])
  <2>. DEFINE fee == SumFunction(Charged(c, t, ms, Len(t) + 1))
              gas == SumFunction(UsedBefore(t, ms, Len(t) + 1))
  <2>1. /\ c.minGasPrice * gas <= fee /\ fee \in Nat /\ gas \in Nat
        /\ fee <= SumFunction([k \in DOMAIN t |-> t[k].feeCap * t[k].gas])
    BY ZenonT(30), <1>1, ChargedSums
  <2>2. r.fee = fee /\ r.gas = gas
    BY Zenon
  <2>. HIDE DEF fee, gas
  <2>. QED
    BY ONLY Zenon, <2>1, <2>2
<1>6. c.minGasPrice * r.gas \in Nat
  BY Zenon, <1>5, FeesIs, MulNat
<1>7. r.fee >= c.minGasPrice * r.gas
  BY ONLY Zenon, <1>5, <1>6
<1>. QED
  BY ZenonT(30), <1>3, <1>4, <1>5, <1>7 DEF FeeMatches

\* A transaction that failed keeps its full fee, and reports the gas of the
\* messages that ran.
LEMMA FailureFee ==
  ASSUME NEW c \in Config, NEW t \in Txs, CheckEthMinGasPrice(c, t),
         NEW i \in 1..(Len(t) + 1), NEW ms, ResultsOf(t, ms, i),
         NEW r, r.tx = t, r.cfg = c, ~ r.ok,
         r.fee = SumFunction(Fees(c, t)), r.gas = SumFunction(UsedBefore(t, ms, i))
  PROVE  FeeMatches(r)
<1>1. /\ c.minGasPrice * r.gas <= r.fee /\ r.fee \in Nat /\ r.gas \in Nat
      /\ r.fee <= SumFunction([k \in DOMAIN t |-> t[k].feeCap * t[k].gas])
  BY ChargedSums
<1>2. c.minGasPrice * r.gas \in Nat
  BY Zenon, <1>1, FeesIs, MulNat
<1>3. r.fee >= c.minGasPrice * r.gas
  BY ONLY Zenon, <1>1, <1>2
<1>. QED
  BY Zenon, <1>1, <1>3 DEF FeeMatches

\* The receipt of a transaction that ends, in each of the three ways.
LEMMA EndedReceipt ==
  ASSUME BlockTypes, HistoryTypes, FeeInv, TxSucceeds \/ MessageFails \/ MessageErrors
  PROVE  /\ pc = "msgs" /\ pc' = "block" /\ UNCHANGED <<height, cfg>>
         /\ \E r \in ReceiptType :
              /\ receipts' = Append(receipts, r) /\ FeeMatches(r)
              /\ r.tx = tx /\ r.height = height /\ (r.ok => r.msgs = branch.msgs)
              /\ \/ /\ r.ok /\ deliver' = branch.state /\ blooms' = blooms \cup branch.blooms
                    /\ msgIndex = Len(tx) + 1
                 \/ ~ r.ok /\ deliver' = deliver /\ blooms' = blooms
<1>1. /\ pc = "msgs" /\ pc' = "block" /\ UNCHANGED <<height, cfg>>
      /\ tx \in Txs /\ cfg \in Config /\ msgIndex \in 1..(Len(tx) + 1)
  BY Zenon DEF TxSucceeds, MessageFails, MessageErrors, TxDone, BlockTypes
<1>2. /\ CheckEthMinGasPrice(cfg, tx) /\ ResultsOf(tx, branch.msgs, msgIndex)
      /\ escrow = SumFunction(Fees(cfg, tx))
      /\ branch.escrow = SumFunction(Charged(cfg, tx, branch.msgs, msgIndex))
      /\ branch.gas = SumFunction(UsedBefore(tx, branch.msgs, msgIndex))
  BY <1>1 DEF FeeInv
<1>3. branch.escrow \in Nat /\ branch.gas \in Nat /\ escrow \in Nat
  BY Zenon, <1>1, <1>2, ChargedSums
<1>4. Len(tx) \in Nat /\ DOMAIN tx = 1..Len(tx)
  BY <1>1, TxIs
<1>5. height \in Nat /\ branch.msgs \in Seq(MessageResult) /\ << >> \in Seq(MessageResult)
  BY <1>2 DEF HistoryTypes, ResultsOf
<1>6. CASE TxSucceeds
  <2>1. PICK r : r = Receipt(TRUE, branch.gas, branch.escrow)
    BY ZenonT(30)
  <2>2. /\ receipts' = Append(receipts, r) /\ deliver' = branch.state /\ blooms' = blooms \cup branch.blooms
        /\ msgIndex = Len(tx) + 1
    BY <1>1, <1>4, <1>6, <2>1 DEF TxSucceeds, TxDone
  <2>3. /\ r \in ReceiptType /\ r.tx = tx /\ r.ok /\ r.gas = branch.gas /\ r.fee = branch.escrow
        /\ r.msgs = branch.msgs /\ r.cfg = cfg /\ r.height = height
    BY ONLY <1>1, <1>3, <1>5, <2>1, Zenon DEF ReceiptType, Receipt
  <2>4. FeeMatches(r)
    BY ZenonT(30), <1>1, <1>2, <2>2, <2>3, SuccessFee
  <2>. QED
    BY <1>1, <2>2, <2>3, <2>4
<1>7. CASE MessageFails
  <2>1. msgIndex \in DOMAIN tx /\ msgIndex + 1 \in 1..(Len(tx) + 1)
    BY <1>1, <1>4, <1>7 DEF MessageFails
  <2>2. tx[msgIndex] \in Message /\ tx[msgIndex].gas \in Nat
    BY Zenon, <1>1, <2>1, TxIs, MessageIs
  <2>3. PICK used \in UsedGas \cap IntrinsicGas..tx[msgIndex].gas :
          TxDone(Receipt(FALSE, branch.gas + GasUsed(tx[msgIndex], used, cfg.minGasMultiplier), escrow))
    BY Zenon, <1>7 DEF MessageFails
  <2>4. used \in Nat /\ used <= tx[msgIndex].gas
    BY <2>2, <2>3, EvmTxAssumption
  <2>5. PICK g : g = GasUsed(tx[msgIndex], used, cfg.minGasMultiplier)
    OBVIOUS
  <2>6. g \in Nat /\ g <= tx[msgIndex].gas
    BY ZenonT(30), <1>1, <2>2, <2>4, <2>5, GasUsedIs
  <2>7. PICK r : r = Receipt(FALSE, branch.gas + g, escrow)
    BY Zenon
  <2>8. receipts' = Append(receipts, r) /\ deliver' = deliver /\ blooms' = blooms
    BY Zenon, <1>7, <2>3, <2>5, <2>7 DEF MessageFails, TxDone
  <2>9. branch.gas + g \in Nat
    BY <1>3, <2>6
  <2>10. /\ r \in ReceiptType /\ r.tx = tx /\ ~ r.ok /\ r.gas = branch.gas + g /\ r.fee = escrow
         /\ r.cfg = cfg /\ r.height = height
    BY ONLY ZenonT(30), <1>1, <1>3, <1>5, <2>9, <2>7 DEF ReceiptType, Receipt
  <2>11. PICK x : x = [gasUsed |-> g, emitted |-> FALSE, logs |-> FALSE]
    BY Zenon
  <2>12. x \in MessageResult /\ x.gasUsed = g
    BY Zenon, <2>6, <2>11 DEF MessageResult
  <2>13. PICK ms2 : ms2 = WithResult(branch.msgs, x)
    BY Zenon
  <2>14. /\ ResultsOf(tx, ms2, msgIndex + 1)
         /\ SumFunction(UsedBefore(tx, ms2, msgIndex + 1)) = branch.gas + g
    BY ONLY SMTT(30), Z3T(30), <1>1, <1>2, <2>1, <2>6, <2>12, <2>13, NextResult
  <2>15. FeeMatches(r)
    BY Zenon, <1>1, <1>2, <2>1, <2>10, <2>14, FailureFee
  <2>. QED
    BY ZenonT(30), <1>1, <2>8, <2>10, <2>15
<1>8. CASE MessageErrors
  <2>1. PICK r : r = Receipt(FALSE, branch.gas, escrow)
    BY Zenon
  <2>2. receipts' = Append(receipts, r) /\ deliver' = deliver /\ blooms' = blooms
    BY Zenon, <1>8, <2>1 DEF MessageErrors, TxDone
  <2>3. /\ r \in ReceiptType /\ r.tx = tx /\ ~ r.ok /\ r.gas = branch.gas /\ r.fee = escrow
        /\ r.cfg = cfg /\ r.height = height
    BY ONLY <1>1, <1>3, <1>5, <2>1, Zenon DEF ReceiptType, Receipt
  <2>4. FeeMatches(r)
    BY Zenon, <1>1, <1>2, <2>3, FailureFee
  <2>. QED
    BY Zenon, <1>1, <2>2, <2>3, <2>4
<1>. QED
  BY Zenon, <1>6, <1>7, <1>8

\* Before the first message nothing was refunded and no gas used.
LEMMA FirstResult ==
  ASSUME NEW c \in Config, NEW t \in Txs
  PROVE  /\ ResultsOf(t, << >>, 1) /\ Charged(c, t, << >>, 1) = Fees(c, t)
         /\ SumFunction(UsedBefore(t, << >>, 1)) = 0
<1>1. Len(t) \in Nat /\ DOMAIN t = 1..Len(t) /\ IsFiniteSet(DOMAIN t)
  BY TxIs
<1>2. \A k \in DOMAIN t : ~ (k < 1)
  BY ONLY <1>1
<1>3. ResultsOf(t, << >>, 1)
  BY DEF ResultsOf
<1>4. Charged(c, t, << >>, 1) = Fees(c, t)
  BY <1>2 DEF Charged, Fees
<1>5. PICK u, D : u = UsedBefore(t, << >>, 1) /\ D = DOMAIN t
  OBVIOUS
<1>6. DOMAIN u = D /\ \A k \in D : u[k] \in Int /\ u[k] = 0
  BY ONLY <1>2, <1>5 DEF UsedBefore
<1>7. IsFiniteSet(D) /\ {} \in SUBSET D /\ \A k \in D \ {} : u[k] = 0
  BY ZenonT(30), <1>1, <1>5, <1>6
<1>8. SumFunctionOnSet(u, D) = SumFunctionOnSet(u, {})
  BY ONLY ZenonT(30), <1>6, <1>7, SumZeros
<1>9. SumFunction(u) = 0
  BY ZenonT(30), <1>6, <1>8, SumEmpty, SumOverDomain
<1>. QED
  BY Zenon, <1>3, <1>4, <1>5, <1>9

\* What the ante handler establishes for the messages.
LEMMA DeliverFees ==
  ASSUME BlockTypes, NEW t \in Txs, DeliverTx(t)
  PROVE  FeeInv'
<1>1. /\ cfg \in Config /\ cfg' = cfg /\ tx' = t /\ msgIndex' = 1 /\ CheckEthMinGasPrice(cfg, t)
      /\ escrow' = Taken(cfg, t) /\ branch'.escrow = escrow' /\ branch'.gas = 0 /\ branch'.msgs = << >>
  BY DEF DeliverTx, AnteOK, BlockTypes, Taken
<1>2. Taken(cfg, t) = SumFunction(Fees(cfg, t))
  <2>1. SumFunction(Fees(cfg, t)) = SumFunctionOnSet(Fees(cfg, t), DOMAIN t)
    BY Zenon DEF SumFunction, Fees
  <2>. QED
    BY ZenonT(30), <1>1, <2>1, TakenIs
<1>3. /\ ResultsOf(t, << >>, 1) /\ Charged(cfg, t, << >>, 1) = Fees(cfg, t)
      /\ SumFunction(UsedBefore(t, << >>, 1)) = 0
  BY Zenon, <1>1, FirstResult
<1>. QED
  BY ZenonT(30), <1>1, <1>2, <1>3 DEF FeeInv

\* A message that ran is charged for the gas it used, the rest is refunded.
LEMMA ApplyFees ==
  ASSUME BlockTypes, FeeInv, ApplyTransaction
  PROVE  FeeInv'
<1>1. PICK used \in Nat, emitted, logs \in BOOLEAN :
           LET m == tx[msgIndex]
               gasUsed == GasUsed(m, used, cfg.minGasMultiplier)
           IN  /\ pc = "msgs" /\ pc' = "msgs" /\ msgIndex \in DOMAIN tx /\ m \in Message
               /\ used <= m.gas
               /\ branch'.escrow = branch.escrow - RefundGas(m, gasUsed)
               /\ branch'.gas = branch.gas + gasUsed
               /\ branch'.msgs = Append(branch.msgs, [gasUsed |-> gasUsed, emitted |-> emitted, logs |-> logs])
               /\ (~ Hooks => logs = emitted)
               /\ msgIndex' = msgIndex + 1
  BY Zenon, ApplyIs
<1>2. /\ cfg \in Config /\ tx \in Txs /\ msgIndex \in 1..(Len(tx) + 1) /\ UNCHANGED <<cfg, tx, escrow>>
      /\ CheckEthMinGasPrice(cfg, tx) /\ ResultsOf(tx, branch.msgs, msgIndex)
      /\ escrow = SumFunction(Fees(cfg, tx))
      /\ branch.escrow = SumFunction(Charged(cfg, tx, branch.msgs, msgIndex))
      /\ branch.gas = SumFunction(UsedBefore(tx, branch.msgs, msgIndex))
  BY Zenon, <1>1 DEF BlockTypes, FeeInv, ApplyTransaction
<1>3. PICK g : g = GasUsed(tx[msgIndex], used, cfg.minGasMultiplier)
  BY SMTT(30), Z3T(30)
<1>4. g \in Nat /\ g <= tx[msgIndex].gas
  BY Zenon, <1>1, <1>2, <1>3, GasUsedIs
<1>5. PICK x : x = [gasUsed |-> g, emitted |-> emitted, logs |-> logs]
  BY ZenonT(30)
<1>6. x \in MessageResult /\ x.gasUsed = g
  BY Zenon, <1>1, <1>4, <1>5 DEF MessageResult
<1>7. PICK ms2 : ms2 = WithResult(branch.msgs, x)
  OBVIOUS
<1>8. branch'.msgs = ms2
  BY ZenonT(30), <1>1, <1>3, <1>5, <1>7 DEF WithResult
<1>9. PICK p : p = EffectiveGasPrice(tx[msgIndex], cfg.baseFee)
  BY Zenon
<1>10. /\ ResultsOf(tx, ms2, msgIndex + 1)
       /\ SumFunction(Charged(cfg, tx, ms2, msgIndex + 1)) = branch.escrow - Fees(cfg, tx)[msgIndex] + p * g
       /\ SumFunction(UsedBefore(tx, ms2, msgIndex + 1)) = branch.gas + g
  BY ONLY SMTT(30), Z3T(30), <1>1, <1>2, <1>4, <1>6, <1>7, <1>9, NextResult
<1>11. p \in Nat /\ tx[msgIndex].gas \in Nat /\ Fees(cfg, tx)[msgIndex] = p * tx[msgIndex].gas
  BY ZenonT(30), <1>1, <1>2, <1>9, PriceIs, FeesIs, MessageIs
<1>12. branch'.escrow = branch.escrow - (tx[msgIndex].gas - g) * p
  BY Zenon, <1>1, <1>3, <1>9 DEF RefundGas
<1>13. branch.escrow \in Nat
  BY ZenonT(30), <1>2, ChargedSums
<1>14. (tx[msgIndex].gas - g) * p = p * tx[msgIndex].gas - p * g
  BY <1>4, <1>11
<1>15. p * tx[msgIndex].gas \in Nat /\ p * g \in Nat
  BY Zenon, <1>4, <1>11, MulNat
<1>16. branch'.escrow = SumFunction(Charged(cfg, tx, ms2, msgIndex + 1))
  BY ONLY <1>10, <1>11, <1>12, <1>13, <1>14, <1>15
<1>17. branch'.gas = SumFunction(UsedBefore(tx, ms2, msgIndex + 1))
  BY Zenon, <1>1, <1>3, <1>10
<1>. QED
  BY Zenon, <1>1, <1>2, <1>8, <1>10, <1>16, <1>17 DEF FeeInv

\* Every step keeps what is known of the fees.
LEMMA StepFees ==
  ASSUME BlockTypes, HistoryTypes, FeeInv, FeesMatchGas, [Next]_vars
  PROVE  HistoryTypes' /\ FeeInv' /\ FeesMatchGas'
<1>1. CASE UNCHANGED vars
  BY ZenonT(30), <1>1 DEF vars, HistoryTypes, FeeInv, FeesMatchGas
<1>2. ASSUME NEW t \in Txs, CheckTx(t) PROVE HistoryTypes' /\ FeeInv' /\ FeesMatchGas'
  BY <1>2 DEF CheckTx, HistoryTypes, FeeInv, FeesMatchGas
<1>3. ASSUME NEW t \in Txs, DeliverTx(t) PROVE HistoryTypes' /\ FeeInv' /\ FeesMatchGas'
  <2>1. UNCHANGED <<height, receipts>>
    BY <1>3 DEF DeliverTx
  <2>. QED
    BY ZenonT(30), <1>3, <2>1, DeliverFees DEF HistoryTypes, FeesMatchGas
<1>4. CASE BeginBlock
  BY <1>4 DEF BeginBlock, HistoryTypes, FeeInv, FeesMatchGas
<1>5. CASE EndBlock
  BY <1>5 DEF EndBlock, HistoryTypes, FeeInv, FeesMatchGas
<1>6. CASE ApplyTransaction
  <2>1. UNCHANGED <<height, receipts>>
    BY SMTT(30), Z3T(30), <1>6 DEF ApplyTransaction
  <2>. QED
    BY ZenonT(30), <1>6, <2>1, ApplyFees DEF HistoryTypes, FeesMatchGas
<1>7. CASE TxSucceeds \/ MessageFails \/ MessageErrors
  <2>1. PICK r \in ReceiptType : receipts' = Append(receipts, r) /\ FeeMatches(r)
    BY Zenon, <1>7, EndedReceipt
  <2>2. pc' = "block" /\ height' = height
    BY Zenon, <1>7, EndedReceipt
  <2>3. /\ receipts' \in Seq(ReceiptType) /\ Len(receipts) \in Nat
        /\ DOMAIN receipts = 1..Len(receipts) /\ DOMAIN receipts' = 1..(Len(receipts) + 1)
        /\ receipts'[Len(receipts) + 1] = r /\ \A n \in 1..Len(receipts) : receipts'[n] = receipts[n]
    BY <2>1, ReceiptAppends DEF HistoryTypes
  <2>4. ASSUME NEW n \in DOMAIN receipts' PROVE FeeMatches(receipts'[n])
    <3>1. CASE n = Len(receipts) + 1
      BY Zenon, <2>1, <2>3, <3>1
    <3>2. CASE n # Len(receipts) + 1
      <4>1. n \in 1..Len(receipts)
        BY <2>3, <3>2
      <4>. QED
        BY Zenon, <2>3, <4>1 DEF FeesMatchGas
    <3>. QED
      BY Zenon, <3>1, <3>2
  <2>. QED
    BY Zenon, <2>2, <2>3, <2>4 DEF HistoryTypes, FeeInv, FeesMatchGas
<1>. QED
  BY Zenon, <1>1, <1>2, <1>3, <1>4, <1>5, <1>6, <1>7 DEF Next

\* For every transaction of every block, the fee taken and not refunded is the
\* price of the gas its messages used when all succeeded, and of their whole gas
\* limits when one failed; never below the minimum gas price of the gas reported,
\* never above what the signers offered (DeductFees, RefundGas,
\* ResetGasMeterAndConsumeGas, and baseapp, which drops a failed refund).
THEOREM FeesMatchTheGas == Spec => []FeesMatchGas
<1>1. Init => BlockTypes /\ HistoryTypes /\ FeeInv /\ FeesMatchGas
  BY InitTypes DEF Init, HistoryTypes, FeeInv, FeesMatchGas
<1>2. BlockTypes /\ HistoryTypes /\ FeeInv /\ FeesMatchGas /\ [Next]_vars
        => BlockTypes' /\ HistoryTypes' /\ FeeInv' /\ FeesMatchGas'
  BY StepTypes, StepFees
<1>. QED
  BY <1>1, <1>2, PTL DEF Spec

\* While the messages of a transaction run, the fee collector holds the fees of
\* the messages still to come, so that the refund of none of them fails for
\* want of coins (RefundGas after the refunds of earlier messages).
THEOREM EscrowIsEnough == Spec => []EscrowCoversRefunds
<1>1. ASSUME BlockTypes, FeeInv PROVE EscrowCoversRefunds
  <2>. SUFFICES ASSUME pc = "msgs"
                PROVE  branch.escrow >= SumFunctionOnSet(Fees(cfg, tx), msgIndex..Len(tx))
    BY DEF EscrowCoversRefunds
  <2>1. cfg \in Config /\ tx \in Txs /\ msgIndex \in 1..(Len(tx) + 1)
    BY Zenon, <1>1 DEF BlockTypes
  <2>2. /\ CheckEthMinGasPrice(cfg, tx) /\ ResultsOf(tx, branch.msgs, msgIndex)
        /\ branch.escrow = SumFunction(Charged(cfg, tx, branch.msgs, msgIndex))
    BY Zenon, <1>1 DEF FeeInv
  <2>3. Len(tx) \in Nat /\ DOMAIN tx = 1..Len(tx) /\ IsFiniteSet(DOMAIN tx)
    BY Zenon, <2>1, TxIs
  <2>4. PICK f, T, D : f = Charged(cfg, tx, branch.msgs, msgIndex) /\ T = msgIndex..Len(tx) /\ D = DOMAIN tx
    OBVIOUS
  <2>5. T \in SUBSET D /\ IsFiniteSet(D) /\ IsFiniteSet(T)
    <3>1. T \in SUBSET D
      BY ONLY <2>1, <2>3, <2>4
    <3>. QED
      BY Zenon, <2>3, <2>4, <3>1, PartIsFinite
  <2>6. \A k \in D : f[k] \in Nat
    BY Zenon, <2>1, <2>2, <2>4, ChargedIs
  <2>7. SumFunctionOnSet(f, T) <= SumFunctionOnSet(f, D)
    BY Zenon, <2>5, <2>6, SumPart
  <2>8. \A k \in T : f[k] = Fees(cfg, tx)[k]
    <3>. SUFFICES ASSUME NEW k \in T PROVE f[k] = Fees(cfg, tx)[k]
      OBVIOUS
    <3>1. k \in DOMAIN tx /\ ~ (k < msgIndex)
      BY <2>1, <2>3, <2>4
    <3>. QED
      BY <2>4, <3>1 DEF Charged
  <2>9. SumFunctionOnSet(f, T) = SumFunctionOnSet(Fees(cfg, tx), T)
    BY Zenon, <2>5, <2>8, SumSame
  <2>10. branch.escrow = SumFunctionOnSet(f, D) /\ branch.escrow \in Nat
    BY Zenon, <2>1, <2>2, <2>4, ChargedSums
  <2>11. SumFunctionOnSet(f, T) \in Nat
    <3>1. \A k \in T : f[k] \in Nat
      BY Zenon, <2>5, <2>6
    <3>. QED
      BY <2>5, <3>1, SumNat
  <2>. QED
    BY Zenon, <2>4, <2>7, <2>9, <2>10, <2>11
<1>2. Init => BlockTypes /\ HistoryTypes /\ FeeInv /\ FeesMatchGas
  BY InitTypes DEF Init, HistoryTypes, FeeInv, FeesMatchGas
<1>3. BlockTypes /\ HistoryTypes /\ FeeInv /\ FeesMatchGas /\ [Next]_vars
        => BlockTypes' /\ HistoryTypes' /\ FeeInv' /\ FeesMatchGas'
  BY StepTypes, StepFees
<1>. QED
  BY <1>1, <1>2, <1>3, PTL DEF Spec

-----------------------------------------------------------------------------
(* The bloom of a block *)

\* The messages of a block that emitted logs, as BloomExact says.
BloomOf(rs, h) ==
  UNION {{<<n, k>> : k \in {j \in DOMAIN rs[n].msgs : rs[n].msgs[j].emitted}} :
         n \in {m \in DOMAIN rs : rs[m].height = h /\ rs[m].ok}}

\* The messages of the n-th transaction that emitted logs.
EmittedAt(n, ms) == {<<n, k>> : k \in {j \in DOMAIN ms : ms[j].emitted}}

\* What is known of blooms between steps: those of the block are the emitted ones,
\* no receipt is of a later block, and the messages of the transaction under way
\* have written their own.
BloomInv ==
  /\ blooms = BloomOf(receipts, height)
  /\ \A n \in DOMAIN receipts : receipts[n].height <= height
  /\ pc = "msgs" => branch.blooms = EmittedAt(Len(receipts) + 1, branch.msgs)

\* What is in the bloom.
LEMMA BloomMember ==
  ASSUME NEW rs, NEW h, NEW e
  PROVE  e \in BloomOf(rs, h)
         <=> \E n \in DOMAIN rs : /\ rs[n].height = h /\ rs[n].ok
                                  /\ \E k \in DOMAIN rs[n].msgs : rs[n].msgs[k].emitted /\ e = <<n, k>>
<1>1. ASSUME e \in BloomOf(rs, h)
      PROVE  \E n \in DOMAIN rs : /\ rs[n].height = h /\ rs[n].ok
                                  /\ \E k \in DOMAIN rs[n].msgs : rs[n].msgs[k].emitted /\ e = <<n, k>>
  <2>1. PICK n \in {m \in DOMAIN rs : rs[m].height = h /\ rs[m].ok} :
               e \in {<<n, k>> : k \in {j \in DOMAIN rs[n].msgs : rs[n].msgs[j].emitted}}
    BY Zenon, <1>1 DEF BloomOf
  <2>. QED
    BY Zenon, <2>1
<1>2. ASSUME NEW n \in DOMAIN rs, rs[n].height = h, rs[n].ok,
             NEW k \in DOMAIN rs[n].msgs, rs[n].msgs[k].emitted, e = <<n, k>>
      PROVE  e \in BloomOf(rs, h)
  <2>1. e \in {<<n, i>> : i \in {j \in DOMAIN rs[n].msgs : rs[n].msgs[j].emitted}}
    BY Zenon, <1>2
  <2>. QED
    BY ZenonT(30), <1>2, <2>1 DEF BloomOf
<1>. QED
  BY Zenon, <1>1, <1>2

\* A receipt adds its own logs.
LEMMA BloomAppends ==
  ASSUME NEW rs \in Seq(ReceiptType), NEW r \in ReceiptType, NEW h, r.height = h
  PROVE  BloomOf(Append(rs, r), h)
         = BloomOf(rs, h) \cup (IF r.ok THEN EmittedAt(Len(rs) + 1, r.msgs) ELSE {})
<1>1. PICK rs2 : rs2 = Append(rs, r)
  BY Zenon
<1>2. /\ DOMAIN rs2 = 1..(Len(rs) + 1) /\ DOMAIN rs = 1..Len(rs) /\ Len(rs) \in Nat
      /\ rs2[Len(rs) + 1] = r /\ \A n \in 1..Len(rs) : rs2[n] = rs[n]
  BY <1>1, ReceiptAppends
<1>3. PICK last : last = Len(rs) + 1
  OBVIOUS
<1>4. /\ last \in DOMAIN rs2 /\ last \notin DOMAIN rs /\ rs2[last] = r
      /\ \A n \in DOMAIN rs2 : n = last \/ n \in DOMAIN rs
      /\ \A n \in DOMAIN rs : n \in DOMAIN rs2 /\ rs2[n] = rs[n]
  BY <1>2, <1>3
<1>5. r.ok \in BOOLEAN
  BY Zenon DEF ReceiptType
<1>6. \A e \in BloomOf(rs, h) : e \in BloomOf(rs2, h)
  <2>. SUFFICES ASSUME NEW e \in BloomOf(rs, h) PROVE e \in BloomOf(rs2, h)
    OBVIOUS
  <2>1. PICK n \in DOMAIN rs : /\ rs[n].height = h /\ rs[n].ok
                              /\ \E k \in DOMAIN rs[n].msgs : rs[n].msgs[k].emitted /\ e = <<n, k>>
    BY ONLY BloomMember
  <2>2. n \in DOMAIN rs2 /\ rs2[n] = rs[n]
    BY Zenon, <1>4
  <2>3. \E k \in DOMAIN rs2[n].msgs : rs2[n].msgs[k].emitted /\ e = <<n, k>>
    BY <2>1, <2>2
  <2>. QED
    BY ZenonT(30), <2>1, <2>2, <2>3, BloomMember
<1>7. CASE r.ok
  <2>1. \A e : e \in EmittedAt(last, r.msgs) <=> \E k \in DOMAIN r.msgs : r.msgs[k].emitted /\ e = <<last, k>>
    BY Zenon DEF EmittedAt
  <2>2. ASSUME NEW e \in BloomOf(rs2, h) PROVE e \in BloomOf(rs, h) \/ e \in EmittedAt(last, r.msgs)
    <3>1. PICK n \in DOMAIN rs2 : /\ rs2[n].height = h /\ rs2[n].ok
                                 /\ \E k \in DOMAIN rs2[n].msgs : rs2[n].msgs[k].emitted /\ e = <<n, k>>
      BY BloomMember
    <3>2. CASE n = last
      BY Zenon, <1>4, <2>1, <3>1, <3>2
    <3>3. CASE n \in DOMAIN rs
      <4>1. rs2[n] = rs[n]
        BY Zenon, <1>4, <3>3
      <4>2. \E k \in DOMAIN rs[n].msgs : rs[n].msgs[k].emitted /\ e = <<n, k>>
        BY Zenon, <3>1, <4>1
      <4>. QED
        BY ZenonT(30), <3>1, <3>3, <4>1, <4>2, BloomMember
    <3>. QED
      BY Zenon, <1>4, <3>2, <3>3
  <2>3. ASSUME NEW e \in BloomOf(rs, h) PROVE e \in BloomOf(rs2, h)
    BY ZenonT(30), <1>4, <1>6, <2>3
  <2>4. ASSUME NEW e \in EmittedAt(last, r.msgs) PROVE e \in BloomOf(rs2, h)
    <3>1. \E k \in DOMAIN rs2[last].msgs : rs2[last].msgs[k].emitted /\ e = <<last, k>>
      BY <1>4, <2>1, <2>4
    <3>. QED
      BY ZenonT(30), <1>4, <1>7, <3>1, BloomMember
  <2>. QED
    BY Zenon, <1>1, <1>3, <1>7, <2>2, <2>3, <2>4
<1>8. CASE ~ r.ok
  <2>1. ASSUME NEW e \in BloomOf(rs2, h) PROVE e \in BloomOf(rs, h)
    <3>1. PICK n \in DOMAIN rs2 : /\ rs2[n].height = h /\ rs2[n].ok
                                 /\ \E k \in DOMAIN rs2[n].msgs : rs2[n].msgs[k].emitted /\ e = <<n, k>>
      BY BloomMember
    <3>2. n \in DOMAIN rs /\ rs2[n] = rs[n]
      BY Zenon, <1>4, <1>8, <3>1
    <3>3. \E k \in DOMAIN rs[n].msgs : rs[n].msgs[k].emitted /\ e = <<n, k>>
      BY <3>1, <3>2
    <3>. QED
      BY ZenonT(30), <3>1, <3>2, <3>3, BloomMember
  <2>. QED
    BY ZenonT(30), <1>1, <1>8, <1>6, <2>1
<1>. QED
  BY Zenon, <1>5, <1>7, <1>8

\* The bloom of the messages under way, after another one.
LEMMA ApplyBlooms ==
  ASSUME BlockTypes, HistoryTypes, FeeInv, BloomInv, ApplyTransaction
  PROVE  BloomInv'
<1>1. PICK used \in Nat, emitted, logs \in BOOLEAN :
           LET m == tx[msgIndex]
               gasUsed == GasUsed(m, used, cfg.minGasMultiplier)
           IN  /\ pc = "msgs"
               /\ branch'.blooms = IF emitted THEN branch.blooms \cup {BloomKey} ELSE branch.blooms
               /\ branch'.msgs = Append(branch.msgs, [gasUsed |-> gasUsed, emitted |-> emitted, logs |-> logs])
               /\ (~ Hooks => logs = emitted)
  BY ZenonT(30), ApplyIs
<1>2. /\ branch.msgs \in Seq(MessageResult) /\ Len(branch.msgs) = msgIndex - 1
      /\ msgIndex \in Nat /\ branch.blooms = EmittedAt(Len(receipts) + 1, branch.msgs)
      /\ blooms = BloomOf(receipts, height)
      /\ \A n \in DOMAIN receipts : receipts[n].height <= height
  <2>1. Len(tx) \in Nat /\ msgIndex \in 1..(Len(tx) + 1)
    BY ZenonT(30), <1>1, TxIs DEF BlockTypes
  <2>. QED
    BY <1>1, <2>1 DEF FeeInv, ResultsOf, BloomInv
<1>3. UNCHANGED <<receipts, height, blooms>> /\ BloomKey = <<Len(receipts) + 1, msgIndex>>
  BY DEF ApplyTransaction, BloomKey
<1>4. PICK n, ms, x : /\ n = Len(receipts) + 1 /\ ms = branch.msgs
                      /\ x = [gasUsed |-> GasUsed(tx[msgIndex], used, cfg.minGasMultiplier), emitted |-> emitted, logs |-> logs]
  BY Zenon
<1>5. PICK ms2 : ms2 = Append(ms, x)
  BY ZenonT(30)
<1>6. branch'.msgs = ms2 /\ x.emitted = emitted
  BY ZenonT(30), <1>1, <1>4, <1>5
<1>7. /\ DOMAIN ms = 1..(msgIndex - 1) /\ DOMAIN ms2 = 1..msgIndex
      /\ ms2[msgIndex] = x /\ \A k \in 1..(msgIndex - 1) : ms2[k] = ms[k]
  BY ONLY SMTT(60), Z3T(60), <1>2, <1>4, <1>5
<1>8. /\ msgIndex \in DOMAIN ms2 /\ msgIndex \notin DOMAIN ms
      /\ \A k \in DOMAIN ms2 : k = msgIndex \/ k \in DOMAIN ms
      /\ \A k \in DOMAIN ms : k \in DOMAIN ms2 /\ ms2[k] = ms[k]
  BY SMTT(30), Z3T(30), <1>2, <1>7
<1>9. CASE emitted
  <2>1. EmittedAt(n, ms2) = EmittedAt(n, ms) \cup {<<n, msgIndex>>}
    BY Zenon, <1>6, <1>7, <1>8, <1>9 DEF EmittedAt
  <2>. QED
    BY Zenon, <1>1, <1>2, <1>3, <1>4, <1>6, <1>9, <2>1 DEF BloomInv
<1>10. CASE ~ emitted
  <2>1. EmittedAt(n, ms2) = EmittedAt(n, ms)
    BY ZenonT(30), <1>6, <1>7, <1>8, <1>10 DEF EmittedAt
  <2>. QED
    BY Zenon, <1>1, <1>2, <1>3, <1>4, <1>6, <1>10, <2>1 DEF BloomInv
<1>. QED
  BY SMTT(30), Z3T(30), <1>9, <1>10

\* Every step keeps what is known of the blooms.
LEMMA StepBlooms ==
  ASSUME BlockTypes, HistoryTypes, FeeInv, BloomInv, [Next]_vars
  PROVE  BloomInv'
<1>. USE DEF BloomOf
<1>0. blooms = BloomOf(receipts, height)
  BY DEF BloomInv
<1>1. CASE UNCHANGED vars
  BY SMTT(30), Z3T(30), <1>0, <1>1 DEF vars, BloomInv
<1>2. ASSUME NEW t \in Txs, CheckTx(t) PROVE BloomInv'
  BY <1>0, <1>2 DEF CheckTx, BloomInv
<1>3. ASSUME NEW t \in Txs, DeliverTx(t) PROVE BloomInv'
  <2>1. UNCHANGED <<height, receipts, blooms>> /\ branch'.blooms = {} /\ branch'.msgs = << >>
    BY <1>3 DEF DeliverTx
  <2>2. EmittedAt(Len(receipts) + 1, << >>) = {}
    BY SMTT(30), Z3T(30) DEF EmittedAt
  <2>. QED
    BY <1>0, <2>1, <2>2 DEF BloomInv
<1>4. CASE BeginBlock
  <2>1. height' = height + 1 /\ UNCHANGED receipts /\ blooms' = {} /\ pc' = "block"
    BY Zenon, <1>4 DEF BeginBlock
  <2>2. \A n \in DOMAIN receipts : receipts[n].height \in Nat /\ receipts[n].height <= height
    <3>1. \A n \in DOMAIN receipts : receipts[n] \in ReceiptType
      BY DEF HistoryTypes
    <3>. QED
      BY <3>1 DEF ReceiptType, BloomInv
  <2>3. \A n \in DOMAIN receipts : receipts[n].height <= height + 1 /\ receipts[n].height # height + 1
    BY <2>2 DEF HistoryTypes
  <2>4. BloomOf(receipts, height + 1) = {}
    BY Zenon, <2>3
  <2>. QED
    BY Zenon, <1>0, <2>1, <2>3, <2>4 DEF BloomInv
<1>5. CASE EndBlock
  <2>1. pc' = "idle" /\ UNCHANGED <<height, receipts, blooms>>
    BY <1>5 DEF EndBlock
  <2>. QED
    BY <1>0, <2>1 DEF BloomInv
<1>6. CASE ApplyTransaction
  <2>1. UNCHANGED <<height, receipts, blooms>>
    BY Zenon, <1>6 DEF ApplyTransaction
  <2>. QED
    BY SMTT(30), Z3T(30), <1>0, <1>6, <2>1, ApplyBlooms
<1>7. CASE TxSucceeds \/ MessageFails \/ MessageErrors
  <2>1. pc = "msgs" /\ pc' = "block" /\ height' = height
    BY Zenon, <1>7, EndedReceipt
  <2>2. PICK r \in ReceiptType :
          /\ receipts' = Append(receipts, r) /\ r.height = height /\ (r.ok => r.msgs = branch.msgs)
          /\ \/ r.ok /\ blooms' = blooms \cup branch.blooms
             \/ ~ r.ok /\ blooms' = blooms
    BY Zenon, <1>7, EndedReceipt
  <2>3. BloomOf(receipts', height)
        = BloomOf(receipts, height) \cup (IF r.ok THEN EmittedAt(Len(receipts) + 1, r.msgs) ELSE {})
    BY SMTT(30), Z3T(30), <2>2, BloomAppends DEF HistoryTypes
  <2>4. blooms' = BloomOf(receipts', height)
    BY Zenon, <1>0, <2>1, <2>2, <2>3 DEF BloomInv
  <2>5. \A n \in DOMAIN receipts' : receipts'[n].height <= height
    <3>1. height \in Nat /\ \A n \in DOMAIN receipts : receipts[n].height <= height
      BY DEF BloomInv, HistoryTypes
    <3>2. /\ DOMAIN receipts = 1..Len(receipts) /\ DOMAIN receipts' = 1..(Len(receipts) + 1) /\ Len(receipts) \in Nat
          /\ receipts'[Len(receipts) + 1] = r /\ \A n \in 1..Len(receipts) : receipts'[n] = receipts[n]
      BY <2>2, ReceiptAppends DEF HistoryTypes
    <3>. QED
      BY <2>2, <3>1, <3>2
  <2>. QED
    BY Zenon, <1>0, <2>1, <2>4, <2>5 DEF BloomInv
<1>. QED
  BY ZenonT(30), <1>1, <1>2, <1>3, <1>4, <1>5, <1>6, <1>7 DEF Next

\* The bloom of the receipts is what BloomExact says: without hooks the responses
\* carry what was emitted.
LEMMA BloomSays ==
  ASSUME HistoryTypes, BloomInv
  PROVE  BloomExact
<1>. DEFINE E(n) == {<<n, k>> : k \in {j \in DOMAIN receipts[n].msgs : receipts[n].msgs[j].emitted}}
            L(n) == {<<n, k>> : k \in {j \in DOMAIN receipts[n].msgs : receipts[n].msgs[j].logs}}
<1>1. PICK kept : kept = {n \in DOMAIN receipts : receipts[n].height = height /\ receipts[n].ok}
  BY Zenon
<1>2. blooms = UNION {E(n) : n \in kept}
  BY Zenon, <1>1 DEF BloomInv, BloomOf
<1>3. ASSUME ~ Hooks, NEW n \in kept
      PROVE  E(n) = L(n)
  <2>1. receipts[n].msgs \in Seq(MessageResult)
    <3>1. receipts[n] \in ReceiptType
      BY <1>1 DEF HistoryTypes
    <3>. QED
      BY Zenon, <3>1 DEF ReceiptType
  <2>2. \A j \in DOMAIN receipts[n].msgs : receipts[n].msgs[j] \in MessageResult
    BY <2>1
  <2>3. \A j \in DOMAIN receipts[n].msgs : receipts[n].msgs[j].logs = receipts[n].msgs[j].emitted
    BY Zenon, <1>3, <2>2 DEF MessageResult
  <2>4. {j \in DOMAIN receipts[n].msgs : receipts[n].msgs[j].emitted} = {j \in DOMAIN receipts[n].msgs : receipts[n].msgs[j].logs}
    BY ONLY Zenon, <2>3
  <2>. QED
    BY ONLY Zenon, <2>4
<1>4. ASSUME ~ Hooks
      PROVE  blooms = UNION {L(n) : n \in kept}
  <2>1. \A n \in kept : E(n) = L(n)
    BY ONLY Zenon, <1>3, <1>4
  <2>2. {E(n) : n \in kept} = {L(n) : n \in kept}
    <3>. HIDE DEF E, L
    <3>. QED
      BY ONLY Zenon, <2>1
  <2>. QED
    BY ONLY Zenon, <1>2, <2>2
<1>. QED
  BY Zenon, <1>1, <1>2, <1>4 DEF BloomExact

\* At every moment the block's bloom covers what the messages of the block's
\* successful transactions emitted, and nothing of earlier blocks or of failed
\* transactions; without hooks, these are the logs of the responses, and with
\* hooks the responses may differ (ApplyTransaction, EndBlock).
THEOREM BloomIsExact == Spec => []BloomExact
<1>1. Init => BlockTypes /\ HistoryTypes /\ FeeInv /\ FeesMatchGas /\ BloomInv
  BY InitTypes DEF Init, HistoryTypes, FeeInv, FeesMatchGas, BloomInv, BloomOf
<1>2. BlockTypes /\ HistoryTypes /\ FeeInv /\ FeesMatchGas /\ BloomInv /\ [Next]_vars
        => BlockTypes' /\ HistoryTypes' /\ FeeInv' /\ FeesMatchGas' /\ BloomInv'
  BY Zenon, StepTypes, StepFees, StepBlooms
<1>. QED
  BY <1>1, <1>2, BloomSays, PTL DEF Spec

-----------------------------------------------------------------------------
(* Nonces *)

\* The nonces that account a has used are below q.
UsedUp(rs, a, q) ==
  \A n \in DOMAIN rs : \A k \in DOMAIN rs[n].tx :
    rs[n].tx[k].from = a /\ ~ Excused(rs[n], k) => rs[n].tx[k].nonce < q

\* The nonces of the messages of t are new and increase.
NewNonces(rs, s, t) ==
  /\ \A k \in DOMAIN t : t[k].nonce < s.sequence[t[k].from] /\ UsedUp(rs, t[k].from, t[k].nonce)
  /\ \A k, l \in DOMAIN t : k < l /\ t[k].from = t[l].from => t[k].nonce < t[l].nonce

\* The sequences of the branch are those the ante handler left, or those a
\* contract creation set.
BranchSequences(s, t, i, b) ==
  \A a \in Accounts : \/ b.sequence[a] = s.sequence[a]
                      \/ \E j \in From(t, a) : j < i /\ t[j].create /\ b.sequence[a] = t[j].nonce + 1

\* What is known of nonces between steps.
NonceInv ==
  /\ \A a \in Accounts : UsedUp(receipts, a, deliver.sequence[a])
  /\ pc = "msgs" => NewNonces(receipts, deliver, tx) /\ BranchSequences(deliver, tx, msgIndex, branch.state)

\* The messages of a receipt.
LEMMA ReceiptMessages ==
  ASSUME NEW r \in ReceiptType
  PROVE  r.tx \in Txs /\ \A k \in DOMAIN r.tx : r.tx[k].nonce \in Nat /\ r.tx[k].from \in Accounts
<1>1. r.tx \in Txs
  BY DEF ReceiptType
<1>. QED
  BY <1>1, TxIs, MessageIs

\* Nonces below a number are below every larger one.
LEMMA UsedUpAbove ==
  ASSUME NEW rs \in Seq(ReceiptType), NEW a, NEW p \in Nat, NEW q \in Nat, p <= q, UsedUp(rs, a, p)
  PROVE  UsedUp(rs, a, q)
<1>1. \A n \in DOMAIN rs : rs[n] \in ReceiptType
  OBVIOUS
<1>2. \A n \in DOMAIN rs : \A k \in DOMAIN rs[n].tx : rs[n].tx[k].nonce \in Nat
  BY Zenon, <1>1, ReceiptMessages
<1>3. ASSUME NEW n \in DOMAIN rs, NEW k \in DOMAIN rs[n].tx, rs[n].tx[k].from = a, ~ Excused(rs[n], k)
      PROVE  rs[n].tx[k].nonce < q
  <2>1. rs[n].tx[k].nonce < p
    BY Zenon, <1>3 DEF UsedUp
  <2>2. rs[n].tx[k].nonce \in Nat
    BY Zenon, <1>2
  <2>. QED
    BY SMTT(30), Z3T(30), <2>1, <2>2
<1>. QED
  BY <1>3 DEF UsedUp

\* The nonces used once a receipt is added.
LEMMA UsedUpAppends ==
  ASSUME NEW rs \in Seq(ReceiptType), NEW r \in ReceiptType, NEW rs2, rs2 = Append(rs, r),
         NEW a, NEW q, UsedUp(rs, a, q),
         \A k \in DOMAIN r.tx : r.tx[k].from = a /\ ~ Excused(r, k) => r.tx[k].nonce < q
  PROVE  UsedUp(rs2, a, q)
<1>1. /\ DOMAIN rs2 = 1..(Len(rs) + 1) /\ DOMAIN rs = 1..Len(rs) /\ Len(rs) \in Nat
      /\ rs2[Len(rs) + 1] = r /\ \A n \in 1..Len(rs) : rs2[n] = rs[n]
  BY SMTT(30), Z3T(30), ReceiptAppends
<1>2. \A n \in DOMAIN rs2 : rs2[n] = r \/ (n \in DOMAIN rs /\ rs2[n] = rs[n])
  BY ONLY SMTT(30), Z3T(30), <1>1
<1>3. ASSUME NEW n \in DOMAIN rs2, NEW k \in DOMAIN rs2[n].tx, rs2[n].tx[k].from = a, ~ Excused(rs2[n], k)
      PROVE  rs2[n].tx[k].nonce < q
  <2>1. CASE rs2[n] = r
    BY Zenon, <1>3, <2>1
  <2>2. CASE n \in DOMAIN rs /\ rs2[n] = rs[n]
    BY Zenon, <1>3, <2>2 DEF UsedUp
  <2>. QED
    BY Zenon, <1>2, <2>1, <2>2
<1>. QED
  BY Zenon, <1>3 DEF UsedUp

\* The nonces that CheckEthSenderNonce accepts start at the sender's sequence,
\* increase, and end below its sequence plus the number of its messages.
LEMMA AcceptedNonces ==
  ASSUME NEW s \in State, NEW t \in Txs, CheckEthSenderNonce(s, t)
  PROVE  /\ \A k \in DOMAIN t : /\ s.sequence[t[k].from] <= t[k].nonce
                                /\ t[k].nonce < s.sequence[t[k].from] + Cardinality(From(t, t[k].from))
         /\ \A k, l \in DOMAIN t : k < l /\ t[k].from = t[l].from => t[k].nonce < t[l].nonce
<1>. DEFINE Before(a, k) == {j \in From(t, a) : j < k}
<1>1. /\ IsFiniteSet(DOMAIN t) /\ DOMAIN t \subseteq Nat
      /\ \A k \in DOMAIN t : t[k].from \in Accounts /\ t[k].nonce \in Nat /\ s.sequence[t[k].from] \in Nat
  BY ONLY SMTT(30), Z3T(30), TxIs, MessageIs, StateIs
<1>2. ASSUME NEW a
      PROVE  IsFiniteSet(From(t, a)) /\ Cardinality(From(t, a)) \in Nat
  <2>1. From(t, a) \in SUBSET DOMAIN t
    BY DEF From
  <2>. QED
    BY Zenon, <1>1, <2>1, PartIsFinite, SizeIsNatural
<1>3. ASSUME NEW k \in DOMAIN t
      PROVE  t[k].nonce = s.sequence[t[k].from] + Cardinality(Before(t[k].from, k))
  BY DEF CheckEthSenderNonce
<1>4. ASSUME NEW S, IsFiniteSet(S), NEW T \in SUBSET S, NEW x \in S, x \notin T
      PROVE  Cardinality(T) \in Nat /\ Cardinality(T) < Cardinality(S)
  <2>1. /\ IsFiniteSet(T) /\ Cardinality(T) <= Cardinality(S) /\ Cardinality(S) # Cardinality(T)
    BY <1>4, PartIsSmaller
  <2>2. Cardinality(T) \in Nat /\ Cardinality(S) \in Nat
    BY Zenon, <1>4, <2>1, SizeIsNatural
  <2>. QED
    BY <2>1, <2>2
<1>. HIDE DEF Before
<1>5. ASSUME NEW k \in DOMAIN t
      PROVE  /\ s.sequence[t[k].from] <= t[k].nonce
             /\ t[k].nonce < s.sequence[t[k].from] + Cardinality(From(t, t[k].from))
  <2>1. Before(t[k].from, k) \in SUBSET From(t, t[k].from) /\ k \in From(t, t[k].from) /\ k \notin Before(t[k].from, k)
    BY <1>1 DEF Before, From
  <2>2. /\ Cardinality(Before(t[k].from, k)) \in Nat
        /\ Cardinality(Before(t[k].from, k)) < Cardinality(From(t, t[k].from))
    BY Zenon, <1>2, <1>4, <2>1
  <2>. QED
    BY ONLY <1>1, <1>2, <1>3, <2>2
<1>6. ASSUME NEW k \in DOMAIN t, NEW l \in DOMAIN t, k < l, t[k].from = t[l].from
      PROVE  t[k].nonce < t[l].nonce
  <2>1. /\ Before(t[k].from, k) \in SUBSET Before(t[k].from, l)
        /\ k \in Before(t[k].from, l) /\ k \notin Before(t[k].from, k)
        /\ Before(t[k].from, l) \in SUBSET From(t, t[k].from)
    BY ONLY SMTT(30), Z3T(30), <1>1, <1>6 DEF Before, From
  <2>2. IsFiniteSet(Before(t[k].from, l))
    BY Zenon, <1>2, <2>1, PartIsFinite
  <2>3. /\ Cardinality(Before(t[k].from, k)) \in Nat /\ Cardinality(Before(t[k].from, l)) \in Nat
        /\ Cardinality(Before(t[k].from, k)) < Cardinality(Before(t[k].from, l))
    BY ZenonT(30), <1>4, <2>1, <2>2, SizeIsNatural
  <2>4. t[l].nonce = s.sequence[t[k].from] + Cardinality(Before(t[k].from, l))
    BY Zenon, <1>3, <1>6
  <2>. QED
    BY SMTT(30), Z3T(30), <1>1, <1>3, <2>3, <2>4
<1>. QED
  BY Zenon, <1>5, <1>6

\* What the ante handler makes sure of.
LEMMA DeliverNonces ==
  ASSUME BlockTypes, HistoryTypes, NonceInv, NEW t \in Txs, DeliverTx(t)
  PROVE  NonceInv'
<1>1. /\ deliver \in State /\ CheckEthSenderNonce(deliver, t) /\ UNCHANGED receipts
      /\ deliver' = AnteState(deliver, cfg, t, "deliver") /\ tx' = t /\ branch'.state = deliver'
      /\ receipts \in Seq(ReceiptType)
  BY DEF BlockTypes, HistoryTypes, DeliverTx, AnteOK, Verified
<1>2. \A a \in Accounts : deliver'.sequence[a] = deliver.sequence[a] + Cardinality(From(t, a))
  BY ONLY SMTT(30), Z3T(30), <1>1 DEF AnteState, Verified, State
<1>3. \A a \in Accounts : deliver.sequence[a] \in Nat /\ Cardinality(From(t, a)) \in Nat
  <2>1. \A a \in Accounts : IsFiniteSet(From(t, a))
    <3>1. \A a \in Accounts : From(t, a) \in SUBSET DOMAIN t
      BY SMTT(30), Z3T(30) DEF From
    <3>. QED
      BY <3>1, TxIs, PartIsFinite
  <2>. QED
    BY Zenon, <1>1, <2>1, StateIs, SizeIsNatural
<1>4. ASSUME NEW a \in Accounts PROVE UsedUp(receipts, a, deliver'.sequence[a])
  <2>1. deliver'.sequence[a] \in Nat /\ deliver.sequence[a] <= deliver'.sequence[a]
    BY SMTT(30), Z3T(30), <1>2, <1>3
  <2>. QED
    BY ZenonT(30), <1>1, <1>3, <2>1, UsedUpAbove DEF NonceInv
<1>5. ASSUME NEW k \in DOMAIN t
      PROVE  t[k].nonce < deliver'.sequence[t[k].from] /\ UsedUp(receipts, t[k].from, t[k].nonce)
  <2>1. t[k].from \in Accounts /\ t[k].nonce \in Nat
    BY Zenon, TxIs, MessageIs
  <2>2. /\ deliver.sequence[t[k].from] <= t[k].nonce
        /\ t[k].nonce < deliver.sequence[t[k].from] + Cardinality(From(t, t[k].from))
    BY Zenon, <1>1, AcceptedNonces
  <2>3. UsedUp(receipts, t[k].from, t[k].nonce)
    BY ZenonT(30), <1>1, <1>3, <2>1, <2>2, UsedUpAbove DEF NonceInv
  <2>. QED
    BY Zenon, <1>2, <2>1, <2>2, <2>3
<1>6. NewNonces(receipts', deliver', t)
  BY ZenonT(30), <1>1, <1>5, AcceptedNonces DEF NewNonces
<1>7. BranchSequences(deliver', t, msgIndex', branch'.state)
  BY ZenonT(30), <1>1 DEF BranchSequences
<1>. QED
  BY ZenonT(30), <1>1, <1>4, <1>6, <1>7 DEF NonceInv

\* A message that ran may have set the sequence of its sender.
LEMMA ApplyNonces ==
  ASSUME BlockTypes, NonceInv, ApplyTransaction
  PROVE  NonceInv'
<1>1. PICK used \in Nat, emitted, logs \in BOOLEAN :
           LET m == tx[msgIndex]
               gasUsed == GasUsed(m, used, cfg.minGasMultiplier)
           IN  /\ pc = "msgs" /\ msgIndex \in DOMAIN tx /\ m \in Message
               /\ branch'.state = Executed(branch.state, m, RefundGas(m, gasUsed))
               /\ msgIndex' = msgIndex + 1
  BY Zenon, ApplyIs
<1>2. /\ UNCHANGED <<receipts, deliver, tx>> /\ branch.state \in State /\ msgIndex \in Nat
      /\ NewNonces(receipts, deliver, tx) /\ BranchSequences(deliver, tx, msgIndex, branch.state)
      /\ DOMAIN tx \subseteq Nat
  <2>1. tx \in Txs /\ msgIndex \in 1..(Len(tx) + 1) /\ branch.state \in State
    BY <1>1 DEF BlockTypes
  <2>2. Len(tx) \in Nat /\ DOMAIN tx \subseteq Nat
    BY ONLY SMTT(30), Z3T(30), <2>1, TxIs
  <2>. QED
    BY Zenon, <1>1, <2>1, <2>2 DEF NonceInv, ApplyTransaction
<1>3. PICK m : m = tx[msgIndex] /\ m.from \in Accounts
  BY <1>1, MessageIs
<1>4. branch'.state.sequence = IF m.create THEN [branch.state.sequence EXCEPT ![m.from] = m.nonce + 1] ELSE branch.state.sequence
  BY Zenon, <1>1, <1>2, <1>3 DEF Executed, State
<1>5. ASSUME NEW a \in Accounts
      PROVE  \/ branch'.state.sequence[a] = deliver.sequence[a]
             \/ \E j \in From(tx, a) : j < msgIndex + 1 /\ tx[j].create /\ branch'.state.sequence[a] = tx[j].nonce + 1
  <2>1. CASE m.create /\ a = m.from
    <3>1. branch'.state.sequence[a] = m.nonce + 1
      BY ZenonT(30), <1>2, <1>4, <2>1 DEF State
    <3>2. msgIndex \in From(tx, a) /\ msgIndex < msgIndex + 1
      BY ONLY SMTT(30), Z3T(30), <1>1, <1>2, <1>3, <2>1 DEF From
    <3>. QED
      BY Zenon, <1>3, <2>1, <3>1, <3>2
  <2>2. CASE ~ (m.create /\ a = m.from)
    <3>1. branch'.state.sequence[a] = branch.state.sequence[a]
      BY Zenon, <1>2, <1>4, <2>2 DEF State
    <3>2. \A j \in From(tx, a) : j < msgIndex => j < msgIndex + 1
      BY <1>2 DEF From
    <3>. QED
      BY Zenon, <1>2, <3>1, <3>2 DEF BranchSequences
  <2>. QED
    BY Zenon, <2>1, <2>2
<1>6. BranchSequences(deliver, tx, msgIndex + 1, branch'.state)
  BY Zenon, <1>5 DEF BranchSequences
<1>. QED
  BY ZenonT(30), <1>1, <1>2, <1>6 DEF NonceInv

\* A transaction that ended has used its nonces up, but for those it set back.
LEMMA EndNonces ==
  ASSUME BlockTypes, HistoryTypes, FeeInv, NonceInv, TxSucceeds \/ MessageFails \/ MessageErrors
  PROVE  NonceInv'
<1>1. pc = "msgs" /\ pc' = "block"
  BY EndedReceipt
<1>2. PICK r \in ReceiptType :
         /\ receipts' = Append(receipts, r) /\ r.tx = tx
         /\ (r.ok /\ deliver' = branch.state) \/ (~ r.ok /\ deliver' = deliver)
  BY EndedReceipt
<1>3. /\ tx \in Txs /\ receipts \in Seq(ReceiptType) /\ deliver \in State
      /\ NewNonces(receipts, deliver, tx) /\ BranchSequences(deliver, tx, msgIndex, branch.state)
      /\ \A a \in Accounts : UsedUp(receipts, a, deliver.sequence[a])
  BY Zenon, <1>1 DEF BlockTypes, HistoryTypes, NonceInv
<1>4. \A k \in DOMAIN tx : k \in Nat /\ tx[k].nonce \in Nat /\ tx[k].from \in Accounts
  BY ONLY SMTT(30), Z3T(30), <1>3, TxIs, MessageIs
<1>5. ASSUME NEW a \in Accounts PROVE UsedUp(receipts', a, deliver'.sequence[a])
  <2>1. CASE deliver'.sequence[a] = deliver.sequence[a]
    <3>1. \A k \in DOMAIN r.tx : r.tx[k].from = a /\ ~ Excused(r, k) => r.tx[k].nonce < deliver.sequence[a]
      BY Zenon, <1>2, <1>3 DEF NewNonces
    <3>. QED
      BY Zenon, <1>2, <1>3, <2>1, <3>1, UsedUpAppends
  <2>2. ASSUME NEW j \in From(tx, a), tx[j].create, deliver'.sequence[a] = tx[j].nonce + 1, r.ok
        PROVE  UsedUp(receipts', a, deliver'.sequence[a])
    <3>1. j \in DOMAIN tx /\ tx[j].from = a /\ tx[j].nonce \in Nat /\ j \in Nat
      BY Zenon, <1>4 DEF From
    <3>2. UsedUp(receipts, a, tx[j].nonce)
      BY <1>3, <3>1 DEF NewNonces
    <3>3. tx[j].nonce + 1 \in Nat /\ tx[j].nonce <= tx[j].nonce + 1
      BY ONLY SMTT(30), Z3T(30), <3>1
    <3>4. UsedUp(receipts, a, tx[j].nonce + 1)
      BY ZenonT(30), <1>3, <3>1, <3>2, <3>3, UsedUpAbove
    <3>5. ASSUME NEW k \in DOMAIN r.tx, r.tx[k].from = a, ~ Excused(r, k) PROVE r.tx[k].nonce < tx[j].nonce + 1
      <4>1. k \in DOMAIN tx /\ tx[k].from = a /\ tx[k].nonce \in Nat /\ k \in Nat
        BY ZenonT(30), <1>2, <1>4, <3>5
      <4>2. ~ (j < k)
        BY ZenonT(30), <1>2, <2>2, <3>5 DEF Excused
      <4>3. CASE j = k
        BY ONLY <1>2, <3>1, <4>3
      <4>4. CASE k < j
        <5>1. tx[k].nonce < tx[j].nonce
          BY ZenonT(30), <1>3, <3>1, <4>1, <4>4 DEF NewNonces
        <5>. QED
          BY ONLY SMTT(30), Z3T(30), <1>2, <3>1, <4>1, <5>1
      <4>. QED
        BY ONLY SMTT(30), Z3T(30), <3>1, <4>1, <4>2, <4>3, <4>4
    <3>6. PICK q : q = tx[j].nonce + 1
      BY Zenon
    <3>7. UsedUp(receipts, a, q) /\ \A k \in DOMAIN r.tx : r.tx[k].from = a /\ ~ Excused(r, k) => r.tx[k].nonce < q
      BY ZenonT(30), <3>4, <3>5, <3>6
    <3>8. UsedUp(receipts', a, q)
      BY ONLY Zenon, <1>2, <1>3, <3>7, UsedUpAppends
    <3>. QED
      BY Zenon, <2>2, <3>6, <3>8
  <2>. QED
    BY ZenonT(30), <1>2, <1>3, <2>1, <2>2 DEF BranchSequences
<1>. QED
  BY <1>1, <1>5 DEF NonceInv

\* Every step keeps what is known of the nonces.
LEMMA StepNonces ==
  ASSUME BlockTypes, HistoryTypes, FeeInv, NonceInv, NoReplay, [Next]_vars
  PROVE  NonceInv' /\ NoReplay'
<1>1. CASE UNCHANGED vars
  BY Zenon, <1>1 DEF vars, NonceInv, NoReplay
<1>2. ASSUME NEW t \in Txs, CheckTx(t) PROVE NonceInv' /\ NoReplay'
  BY Zenon, <1>2 DEF CheckTx, NonceInv, NoReplay
<1>3. ASSUME NEW t \in Txs, DeliverTx(t) PROVE NonceInv' /\ NoReplay'
  <2>1. UNCHANGED receipts
    BY Zenon, <1>3 DEF DeliverTx
  <2>. QED
    BY ZenonT(30), <1>3, <2>1, DeliverNonces DEF NoReplay
<1>4. CASE BeginBlock \/ EndBlock
  <2>1. UNCHANGED <<receipts, deliver>> /\ pc' # "msgs"
    BY <1>4 DEF BeginBlock, EndBlock
  <2>. QED
    BY ZenonT(30), <2>1 DEF NonceInv, NoReplay
<1>5. CASE ApplyTransaction
  <2>1. UNCHANGED receipts
    BY Zenon, <1>5 DEF ApplyTransaction
  <2>. QED
    BY ZenonT(30), <1>5, <2>1, ApplyNonces DEF NoReplay
<1>6. CASE TxSucceeds \/ MessageFails \/ MessageErrors
  <2>1. pc = "msgs"
    BY ZenonT(30), <1>6, EndedReceipt
  <2>2. PICK r \in ReceiptType : receipts' = Append(receipts, r) /\ r.tx = tx
    BY Zenon, <1>6, EndedReceipt
  <2>3. /\ DOMAIN receipts = 1..Len(receipts) /\ DOMAIN receipts' = 1..(Len(receipts) + 1) /\ Len(receipts) \in Nat
        /\ receipts'[Len(receipts) + 1] = r /\ \A n \in 1..Len(receipts) : receipts'[n] = receipts[n]
    BY ONLY SMTT(30), Z3T(30), <2>2, ReceiptAppends DEF HistoryTypes
  <2>4. NewNonces(receipts, deliver, tx) /\ tx \in Txs /\ DOMAIN tx \subseteq Nat
    BY SMTT(30), Z3T(30), <2>1, TxIs DEF NonceInv, BlockTypes
  <2>5. \A k \in DOMAIN tx : tx[k].nonce \in Nat
    BY ZenonT(30), <2>4, TxIs, MessageIs
  <2>6. ASSUME NEW n \in DOMAIN receipts', NEW o \in DOMAIN receipts',
               NEW k \in DOMAIN receipts'[n].tx, NEW l \in DOMAIN receipts'[o].tx,
               n <= o, <<n, k>> # <<o, l>>,
               receipts'[n].tx[k].from = receipts'[o].tx[l].from,
               receipts'[n].tx[k].nonce = receipts'[o].tx[l].nonce
        PROVE  Excused(receipts'[n], k)
    <3>1. CASE o # Len(receipts) + 1
      <4>1. n \in DOMAIN receipts /\ o \in DOMAIN receipts /\ receipts'[n] = receipts[n] /\ receipts'[o] = receipts[o]
        BY ONLY SMTT(30), Z3T(30), <2>3, <2>6, <3>1
      <4>2. Excused(receipts[n], k)
        BY ZenonT(30), <2>6, <4>1 DEF NoReplay, UsedOnce
      <4>. QED
        BY Zenon, <4>1, <4>2
    <3>2. CASE o = Len(receipts) + 1 /\ n # o
      <4>1. n \in DOMAIN receipts /\ receipts'[n] = receipts[n] /\ receipts'[o].tx = tx
        BY ONLY SMTT(30), Z3T(30), <2>2, <2>3, <2>6, <3>2
      <4>2. l \in DOMAIN tx /\ k \in DOMAIN receipts[n].tx /\ UsedUp(receipts, tx[l].from, tx[l].nonce)
        BY Zenon, <2>4, <2>6, <4>1 DEF NewNonces
      <4>3. CASE ~ Excused(receipts[n], k)
        <5>1. receipts[n].tx[k].nonce < tx[l].nonce
          BY ZenonT(30), <2>6, <4>1, <4>2, <4>3 DEF UsedUp
        <5>. QED
          BY ONLY SMTT(30), Z3T(30), <2>5, <2>6, <4>1, <4>2, <5>1
      <4>. QED
        BY Zenon, <4>1, <4>3
    <3>3. CASE o = Len(receipts) + 1 /\ n = o
      <4>1. k \in DOMAIN tx /\ l \in DOMAIN tx /\ k # l /\ tx[k].from = tx[l].from /\ tx[k].nonce = tx[l].nonce
        BY ZenonT(30), <2>2, <2>3, <2>6, <3>3
      <4>2. k < l \/ l < k
        BY ONLY SMTT(30), Z3T(30), <2>4, <4>1
      <4>3. tx[k].nonce < tx[l].nonce \/ tx[l].nonce < tx[k].nonce
        BY ZenonT(30), <2>4, <4>1, <4>2 DEF NewNonces
      <4>. QED
        BY ONLY SMTT(30), Z3T(30), <2>5, <4>1, <4>3
    <3>. QED
      BY ZenonT(30), <3>1, <3>2, <3>3
  <2>7. NoReplay'
    BY ZenonT(30), <2>6 DEF NoReplay, UsedOnce
  <2>. QED
    BY ZenonT(30), <1>6, <2>7, EndNonces
<1>. QED
  BY ZenonT(30), <1>1, <1>2, <1>3, <1>4, <1>5, <1>6 DEF Next

\* Over all blocks no message is executed twice: two messages of one sender with
\* one nonce occur only where a contract creation set the sender's nonce back
\* behind later messages of its own transaction (CheckEthSenderNonce, the
\* increment in the ante handler, and the nonce ApplyMessage writes).
THEOREM NothingIsReplayed == Spec => []NoReplay
<1>1. Init => BlockTypes /\ HistoryTypes /\ FeeInv /\ FeesMatchGas /\ NonceInv /\ NoReplay
  <2>. SUFFICES ASSUME Init PROVE HistoryTypes /\ FeeInv /\ FeesMatchGas /\ NonceInv /\ NoReplay
    BY InitTypes
  <2>1. receipts = << >> /\ pc # "msgs"
    BY DEF Init
  <2>2. HistoryTypes /\ FeeInv /\ FeesMatchGas
    BY <2>1 DEF Init, HistoryTypes, FeeInv, FeesMatchGas
  <2>. QED
    BY <2>1, <2>2 DEF NonceInv, UsedUp, NoReplay, UsedOnce
<1>2. BlockTypes /\ HistoryTypes /\ FeeInv /\ FeesMatchGas /\ NonceInv /\ NoReplay /\ [Next]_vars
        => BlockTypes' /\ HistoryTypes' /\ FeeInv' /\ FeesMatchGas' /\ NonceInv' /\ NoReplay'
  BY StepTypes, StepFees, StepNonces
<1>. QED
  BY <1>1, <1>2, PTL DEF Spec
=============================================================================
