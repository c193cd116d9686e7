------------------------------- MODULE EvmTx -------------------------------
(***************************************************************************)
(* The life of Ethereum transactions in the application: CheckTx and the   *)
(* recheck of the mempool, the ante handler in a block (app/ante), the     *)
(* execution of each message (ApplyTransaction) with its refund, and the   *)
(* begin and end of blocks.  A transaction is a sequence of messages; its  *)
(* fee and nonces are taken by the ante handler for all messages before    *)
(* the first one runs.  baseapp, which discards the writes of a failed     *)
(* ante handler and of all messages when one fails, the bank, the mempool  *)
(* and the virtual machine are external.  What the machine does inside a   *)
(* message is the subject of StateDB; here it moves the value, uses gas    *)
(* and may fail.  Prices are integers, the multiplier is scaled by Dec.    *)
(***************************************************************************)
EXTENDS Integers, FiniteSetsExt, Sequences

CONSTANTS Accounts,        \* senders and recipients
          Contracts,       \* those with code
          Txs,             \* the transactions that may be submitted
          Genesis,         \* the initial state of the accounts
          BaseFees,        \* what the fee market may compute; Nil before London
          Configs,         \* what governance may set
          IntrinsicGas,    \* the intrinsic gas of a message
          Hooks,           \* whether modules hook into the end of a message
          MaxGas,          \* the consensus parameter Block.MaxGas
          MaxTxGasWanted,  \* the node's option, 0 for none
          NodeMinGasPrice, \* the node's minimum gas price
          UsedGas,         \* amounts of gas the machine may use
          Refunds,         \* values of its refund counter
          Dec,             \* one, as a decimal
          MaxBlocks, MaxTxs, MaxMempool \* bounds on the run

Nil == -1
NoTx == << >>

Message == [from : Accounts, to : Accounts, nonce : Nat, create : BOOLEAN, dynamic : BOOLEAN,
            gas : Nat, feeCap : Nat, tipCap : Nat, value : Nat]
Config == [baseFee : Nat \cup {Nil}, minGasPrice : Nat, minGasMultiplier : 0..Dec,
           enableCreate : BOOLEAN, enableCall : BOOLEAN]
State == [balance : [Accounts -> Nat], sequence : [Accounts -> Nat], exists : SUBSET Accounts]

ASSUME EvmTxAssumption ==
  /\ IsFiniteSet(Accounts) /\ Contracts \subseteq Accounts
  /\ Txs \subseteq Seq(Message) \ {NoTx}
  /\ \A tx \in Txs : \A k \in DOMAIN tx : tx[k].tipCap <= tx[k].feeCap /\ (~ tx[k].dynamic => tx[k].tipCap = tx[k].feeCap)
  /\ Genesis \in State /\ BaseFees \subseteq Nat \cup {Nil} /\ Configs \subseteq Config
  /\ {IntrinsicGas, MaxTxGasWanted, NodeMinGasPrice, MaxBlocks, MaxTxs, MaxMempool} \subseteq Nat
  /\ MaxGas \in Nat \cup {-1} /\ Hooks \in BOOLEAN
  /\ UsedGas \subseteq Nat /\ Refunds \subseteq Nat /\ Dec \in Nat \ {0}

VARIABLES height, pc,        \* pc: between blocks, in a block, in the messages of tx
          deliver,           \* the state of the block
          check,             \* the state of CheckTx
          cfg, checkCfg,     \* the block configuration cached for each
          mempool,           \* transactions that passed CheckTx, in order
          tx, msgIndex,      \* the transaction being executed
          escrow,            \* its fees in the virtual account of the fee collector
          branch,            \* what its messages wrote so far: state, escrow, gas used, blooms
          blooms,            \* messages of the block whose bloom is stored
          collected,         \* fees of the finished transactions
          receipts           \* history: their results

vars == <<height, pc, deliver, check, cfg, checkCfg, mempool, tx, msgIndex, escrow, branch, blooms, collected, receipts>>
checkVars == <<check, checkCfg, mempool>>

-----------------------------------------------------------------------------
(* Prices and gas *)

EffectiveGasPrice(m, baseFee) ==
  IF baseFee = Nil THEN m.feeCap ELSE Min({m.tipCap + baseFee, m.feeCap})

EffectiveFee(m, baseFee) == EffectiveGasPrice(m, baseFee) * m.gas

Cost(m) == m.feeCap * m.gas + m.value

\* A MaxGas that is not positive gives 0.
BlockGasLimit == IF MaxGas > 0 THEN MaxGas ELSE 0

GasToRefund(availableRefund, gasConsumed, refundQuotient) == Min({gasConsumed \div refundQuotient, availableRefund})

\* Refunds are capped at a half of the gas used, from London on at a fifth.
RefundQuotient(baseFee) == IF baseFee = Nil THEN 2 ELSE 5

\* The gas charged for a message.
GasUsed(m, temporaryGasUsed, multiplier) == Max({(m.gas * multiplier) \div Dec, temporaryGasUsed})

-----------------------------------------------------------------------------
(* The ante handler *)

From(t, a) == {k \in DOMAIN t : t[k].from = a}
Senders(t) == {t[k].from : k \in DOMAIN t}

CheckEthMempoolFee(c, t, mode) ==
  mode # "deliver" /\ c.baseFee = Nil =>
    \A k \in DOMAIN t : t[k].feeCap * t[k].gas >= NodeMinGasPrice * t[k].gas

\* A mutant of CheckEthMinGasPrice: the fee cap is compared.
ComparesFeeCap(c, t) == \A k \in DOMAIN t : t[k].feeCap * t[k].gas >= c.minGasPrice * t[k].gas

CheckEthMinGasPrice(c, t) ==
  c.minGasPrice # 0 => \A k \in DOMAIN t : EffectiveFee(t[k], c.baseFee) >= c.minGasPrice * t[k].gas

ValidateEthBasic(c, t, mode) ==
  mode # "recheck" =>
    \A k \in DOMAIN t :
      /\ IF t[k].create THEN c.enableCreate ELSE c.enableCall
      /\ c.baseFee = Nil => ~ t[k].dynamic

\* In CheckTx a missing sender is created.
VerifyEthAccount(s, t, mode) ==
  mode # "deliver" =>
    \A k \in DOMAIN t : t[k].from \notin Contracts /\ s.balance[t[k].from] >= Cost(t[k])

CheckEthCanTransfer(s, c, t) ==
  \A k \in DOMAIN t :
    /\ c.baseFee # Nil => t[k].feeCap >= c.baseFee
    /\ t[k].value > 0 => s.balance[t[k].from] >= t[k].value

\* A mutant of GasWanted: the option is applied when it is off.
AlwaysCapped(t, mode) ==
  SumFunction([k \in DOMAIN t |-> IF mode # "deliver" THEN Min({t[k].gas, MaxTxGasWanted}) ELSE t[k].gas])

GasWanted(t, mode) ==
  SumFunction([k \in DOMAIN t |-> IF mode # "deliver" /\ MaxTxGasWanted # 0
                                  THEN Min({t[k].gas, MaxTxGasWanted}) ELSE t[k].gas])

\* The fee of every message.
Fees(c, t) == [k \in DOMAIN t |-> EffectiveFee(t[k], c.baseFee)]

\* A mutant of FeesOf: an account pays for its first message only.
FeeOfFirst(c, t, a) == SumFunctionOnSet(Fees(c, t), {k \in From(t, a) : \A j \in From(t, a) : k <= j})

\* What the loop over the messages takes from an account.
FeesOf(c, t, a) == SumFunctionOnSet(Fees(c, t), From(t, a))

\* VerifyFee and DeductTxCostsFromUserBalance for every message in turn: an
\* account pays for all of its messages.  A zero fee is not deducted.
CanPay(s, c, t, mode) ==
  /\ mode = "check" => \A k \in DOMAIN t : t[k].gas >= IntrinsicGas
  /\ \A k \in DOMAIN t : c.baseFee # Nil => t[k].feeCap >= c.baseFee
  /\ Senders(t) \subseteq s.exists
  /\ \A a \in Senders(t) : FeesOf(c, t, a) <= s.balance[a]

CheckEthGasConsume(s, c, t, mode) ==
  /\ mode # "recheck" => CanPay(s, c, t, mode)
  /\ GasWanted(t, mode) <= BlockGasLimit

\* A mutant of CheckEthSenderNonce: only nonces that are too high are rejected.
AcceptsUsedNonce(s, t) ==
  \A k \in DOMAIN t :
    /\ t[k].from \in s.exists
    /\ t[k].nonce <= s.sequence[t[k].from] + Cardinality({j \in From(t, t[k].from) : j < k})

\* Each message must have the next nonce of its sender, the earlier messages counted.
CheckEthSenderNonce(s, t) ==
  \A k \in DOMAIN t :
    /\ t[k].from \in s.exists
    /\ t[k].nonce = s.sequence[t[k].from] + Cardinality({j \in From(t, t[k].from) : j < k})

\* The state the ante handler works on after VerifyEthAccount.
Verified(s, t, mode) == IF mode = "deliver" THEN s ELSE [s EXCEPT !.exists = @ \cup Senders(t)]

AnteOK(s, c, t, mode) ==
  /\ CheckEthMempoolFee(c, t, mode)
  /\ CheckEthMinGasPrice(c, t)
  /\ ValidateEthBasic(c, t, mode)
  /\ VerifyEthAccount(s, t, mode)
  /\ CheckEthCanTransfer(s, c, t)
  /\ CheckEthGasConsume(Verified(s, t, mode), c, t, mode)
  /\ CheckEthSenderNonce(Verified(s, t, mode), t)

\* A mutant of AnteState: a recheck leaves the sequences alone as well.
RecheckKeepsSequence(s, c, t, mode) ==
  IF mode = "recheck" THEN Verified(s, t, mode)
  ELSE [Verified(s, t, mode) EXCEPT
          !.balance = [a \in Accounts |-> @[a] - FeesOf(c, t, a)],
          !.sequence = [a \in Accounts |-> @[a] + Cardinality(From(t, a))]]

\* What it leaves when it accepts.  (DeductFees takes nothing at height 0, where no
\* Ethereum transaction runs.)
AnteState(s, c, t, mode) ==
  [Verified(s, t, mode) EXCEPT
     !.balance = [a \in Accounts |-> IF mode = "recheck" THEN @[a] ELSE @[a] - FeesOf(c, t, a)],
     !.sequence = [a \in Accounts |-> @[a] + Cardinality(From(t, a))]]

-----------------------------------------------------------------------------
(* The mempool *)

CheckTx(t) ==
  /\ Len(mempool) < MaxMempool /\ t \notin Range(mempool)
  /\ AnteOK(check, checkCfg, t, "check")
  /\ check' = AnteState(check, checkCfg, t, "check")
  /\ mempool' = Append(mempool, t)
  /\ UNCHANGED <<height, pc, deliver, cfg, checkCfg, tx, msgIndex, escrow, branch, blooms, collected, receipts>>

\* The recheck of one transaction on the state the earlier ones left.
Recheck(c, acc, t) ==
  IF AnteOK(acc.state, c, t, "recheck")
  THEN [state |-> AnteState(acc.state, c, t, "recheck"), kept |-> Append(acc.kept, t)]
  ELSE acc

\* The update of a mempool after a block: what the block included leaves it, the
\* rest is rechecked in its order, from the committed state s.
Update(c, s, included, pool) ==
  LET after[n \in 0..Len(pool)] ==
        IF n = 0 THEN [state |-> s, kept |-> << >>]
        ELSE IF pool[n] \in included THEN after[n - 1]
        ELSE Recheck(c, after[n - 1], pool[n])
  IN  after[Len(pool)]

-----------------------------------------------------------------------------
(* Blocks *)

NoBranch == [state |-> Genesis, escrow |-> 0, gas |-> 0, blooms |-> {}, msgs |-> << >>]

\* The fee market sets the base fee, then the configuration is cached.  Once
\* London is active it stays so.
BeginBlock ==
  /\ pc = "idle" /\ height < MaxBlocks
  /\ height' = height + 1
  /\ pc' = "block"
  /\ \E b \in BaseFees :
       /\ b = Nil => checkCfg.baseFee = Nil
       /\ cfg' = [checkCfg EXCEPT !.baseFee = b]
  /\ blooms' = {}
  /\ UNCHANGED <<deliver, checkVars, tx, msgIndex, escrow, branch, collected, receipts>>

\* A transaction the ante handler accepts; a rejected one leaves no trace.
DeliverTx(t) ==
  /\ pc = "block" /\ Len(receipts) < MaxTxs
  /\ AnteOK(deliver, cfg, t, "deliver")
  /\ deliver' = AnteState(deliver, cfg, t, "deliver")
  /\ escrow' = SumFunction([a \in Senders(t) |-> FeesOf(cfg, t, a)])
  /\ branch' = [state |-> deliver', escrow |-> escrow', gas |-> 0, blooms |-> {}, msgs |-> << >>]
  /\ tx' = t /\ msgIndex' = 1
  /\ pc' = "msgs"
  /\ UNCHANGED <<height, checkVars, cfg, blooms, collected, receipts>>

Enabled(m) == IF m.create THEN cfg.enableCreate ELSE cfg.enableCall

\* The accounts after the machine ran message m and the refund was paid.  After
\* a creation the nonce of the sender is the message's plus one.
Executed(s, m, refund) ==
  LET paid == [s.balance EXCEPT ![m.from] = @ - m.value]
      moved == [paid EXCEPT ![m.to] = @ + m.value]
  IN  [s EXCEPT !.balance = [moved EXCEPT ![m.from] = @ + refund],
                !.sequence = IF m.create THEN [@ EXCEPT ![m.from] = m.nonce + 1] ELSE @,
                !.exists = IF m.create \/ m.value > 0 THEN @ \cup {m.to} ELSE @]

\* What RefundGas returns to the sender, at the price it paid.
RefundGas(m, gasUsed) == (m.gas - gasUsed) * EffectiveGasPrice(m, cfg.baseFee)

\* A mutant of BloomKey: one bloom for a transaction.
BloomPerTx == <<Len(receipts) + 1, 1>>

\* The keys of the object store are the transaction and the message.
BloomKey == <<Len(receipts) + 1, msgIndex>>

\* ApplyTransaction for a message that succeeds.  The bloom is that of the logs the
\* machine emitted; a hook may alter the logs of the response afterwards.
ApplyTransaction ==
  /\ pc = "msgs" /\ msgIndex <= Len(tx)
  /\ LET m == tx[msgIndex] IN
     /\ Enabled(m)
     /\ branch.state.balance[m.from] >= m.value
     /\ \E used \in UsedGas \cap IntrinsicGas..m.gas, refund \in Refunds, emitted, logs \in BOOLEAN :
          LET gasUsed == GasUsed(m, used, cfg.minGasMultiplier) IN
          /\ used >= GasToRefund(refund, used, RefundQuotient(cfg.baseFee))
          /\ ~ Hooks => logs = emitted
          /\ RefundGas(m, gasUsed) \in 0..branch.escrow
          /\ branch' = [state |-> Executed(branch.state, m, RefundGas(m, gasUsed)),
                        escrow |-> branch.escrow - RefundGas(m, gasUsed),
                        gas |-> branch.gas + gasUsed,
                        blooms |-> IF emitted THEN branch.blooms \cup {BloomKey} ELSE branch.blooms,
                        msgs |-> Append(branch.msgs, [gasUsed |-> gasUsed, emitted |-> emitted, logs |-> logs])]
  /\ msgIndex' = msgIndex + 1
  /\ UNCHANGED <<height, pc, deliver, checkVars, cfg, tx, escrow, blooms, collected, receipts>>

\* The result of a transaction; the responses of its messages are kept if all succeeded.
Receipt(ok, gas, fee) ==
  [height |-> height, tx |-> tx, ok |-> ok, gas |-> gas, fee |-> fee,
   msgs |-> IF ok THEN branch.msgs ELSE << >>, cfg |-> cfg]

TxDone(r) ==
  /\ receipts' = Append(receipts, r)
  /\ collected' = collected + r.fee
  /\ pc' = "block" /\ tx' = NoTx /\ msgIndex' = 0 /\ escrow' = 0 /\ branch' = NoBranch

\* All messages succeeded: their writes are kept.
TxSucceeds ==
  /\ pc = "msgs" /\ msgIndex > Len(tx)
  /\ deliver' = branch.state
  /\ blooms' = blooms \cup branch.blooms
  /\ TxDone(Receipt(TRUE, branch.gas, branch.escrow))
  /\ UNCHANGED <<height, checkVars, cfg>>

\* A mutant of MessageFails: the refunds of the earlier messages are taken from the fee.
FailureKeepsRefunds ==
  /\ pc = "msgs" /\ msgIndex <= Len(tx)
  /\ Enabled(tx[msgIndex])
  /\ TxDone(Receipt(FALSE, branch.gas, branch.escrow))
  /\ UNCHANGED <<height, deliver, checkVars, cfg, blooms>>

\* The machine or a hook fails: EthereumTx returns the error after it refunded
\* and counted the gas, and baseapp drops the writes of all messages, the
\* refunds included.  The gas meter is not part of the state.
MessageFails ==
  /\ pc = "msgs" /\ msgIndex <= Len(tx)
  /\ Enabled(tx[msgIndex])
  /\ \E used \in UsedGas \cap IntrinsicGas..tx[msgIndex].gas :
       TxDone(Receipt(FALSE, branch.gas + GasUsed(tx[msgIndex], used, cfg.minGasMultiplier), escrow))
  /\ UNCHANGED <<height, deliver, checkVars, cfg, blooms>>

\* An error without a result: a disabled operation, too little gas, or a failed Commit.
MessageErrors ==
  /\ pc = "msgs" /\ msgIndex <= Len(tx)
  /\ TxDone(Receipt(FALSE, branch.gas, escrow))
  /\ UNCHANGED <<height, deliver, checkVars, cfg, blooms>>

\* Governance may replace the parameters; the commit resets the check state and
\* rechecks what is left of the mempool.
EndBlock ==
  /\ pc = "block"
  /\ pc' = "idle"
  /\ \E c \in Configs \cup {cfg} :
       LET next == [c EXCEPT !.baseFee = cfg.baseFee]
           included == {receipts[k].tx : k \in {j \in DOMAIN receipts : receipts[j].height = height}}
           updated == Update(next, deliver, included, mempool)
       IN  /\ cfg' = next /\ checkCfg' = next
           /\ check' = updated.state /\ mempool' = updated.kept
  /\ UNCHANGED <<height, deliver, tx, msgIndex, escrow, branch, blooms, collected, receipts>>

Init ==
  /\ height = 0 /\ pc = "idle"
  /\ deliver = Genesis /\ check = Genesis
  /\ cfg \in {c \in Configs : c.baseFee \in BaseFees} /\ checkCfg = cfg
  /\ mempool = << >> /\ tx = NoTx /\ msgIndex = 0 /\ escrow = 0 /\ branch = NoBranch
  /\ blooms = {} /\ collected = 0 /\ receipts = << >>

Next ==
  \/ \E t \in Txs : CheckTx(t) \/ DeliverTx(t)
  \/ BeginBlock \/ EndBlock
  \/ ApplyTransaction \/ MessageFails \/ MessageErrors \/ TxSucceeds

Spec == Init /\ [][Next]_vars

-----------------------------------------------------------------------------
(* Properties *)

Supply(s) == SumFunction(s.balance)

\* Fees, refunds, transfers and discarded branches neither create nor destroy
\* coins: what the accounts lost is with the fee collector.
CoinsConserved ==
  /\ Supply(deliver) + escrow + collected = Supply(Genesis)
  /\ pc = "msgs" => Supply(branch.state) + branch.escrow + collected = Supply(Genesis)

\* While messages run, the fee collector still holds the full fee of all that
\* are left, so RefundGas cannot fail for lack of funds.
EscrowCoversRefunds ==
  pc = "msgs" =>
    branch.escrow >= SumFunctionOnSet(Fees(cfg, tx), msgIndex..Len(tx))

\* What a receipt says of the fee.  A successful transaction has paid each
\* message's gas at its effective price.  A failed one has paid its whole gas
\* limit, although its receipt reports the gas used: baseapp drops the refund with
\* the other writes of the messages.  Both paid at least the minimum gas price for
\* the gas reported and at most what the signers offered.
FeeMatches(r) ==
  /\ r.ok => /\ r.fee = SumFunction([k \in DOMAIN r.tx |-> EffectiveGasPrice(r.tx[k], r.cfg.baseFee) * r.msgs[k].gasUsed])
             /\ r.gas = SumFunction([k \in DOMAIN r.tx |-> r.msgs[k].gasUsed])
  /\ ~ r.ok => r.fee = SumFunction(Fees(r.cfg, r.tx))
  /\ r.fee >= r.cfg.minGasPrice * r.gas
  /\ r.fee <= SumFunction([k \in DOMAIN r.tx |-> r.tx[k].feeCap * r.tx[k].gas])

\* What DeductFees took and RefundGas did not give back is, for every transaction
\* of a block, the price of the gas charged if it succeeded and of its gas limits
\* if it failed (the handler's tests, which run no baseapp, expect a refund for a
\* reverted transaction too).
FeesMatchGas == \A n \in DOMAIN receipts : FeeMatches(receipts[n])

\* A successful creation of the sender precedes message k in its own transaction:
\* ApplyMessageWithConfig then sets the nonce back to the creation's plus one,
\* although the ante handler had counted the later messages.
Excused(r, k) == r.ok /\ \E j \in From(r.tx, r.tx[k].from) : j < k /\ r.tx[j].create

UsedOnce(rs) ==
  \A n, o \in DOMAIN rs : \A k \in DOMAIN rs[n].tx, l \in DOMAIN rs[o].tx :
    /\ n <= o /\ <<n, k>> # <<o, l>>
    /\ rs[n].tx[k].from = rs[o].tx[l].from
    /\ rs[n].tx[k].nonce = rs[o].tx[l].nonce
    => Excused(rs[n], k)

\* No message is accepted twice: a nonce of a sender is used once, whether its
\* transaction succeeds or fails, unless a creation of the sender set it back.
NoReplay == UsedOnce(receipts)

\* The check state is the committed one advanced by the mempool: every sender's
\* sequence counts its waiting messages.
MempoolSequences ==
  pc = "idle" =>
    \A a \in Accounts :
      check.sequence[a] = deliver.sequence[a] + SumFunction([k \in DOMAIN mempool |-> Cardinality(From(mempool[k], a))])

\* What CheckTx accepts from existing accounts, a block accepts on the same state
\* with the same configuration, unless max-tx-gas-wanted hides its gas: a
\* transaction is not admitted in vain.
CheckImpliesDeliver ==
  MaxTxGasWanted = 0 =>
    \A t \in Txs : Senders(t) \subseteq deliver.exists /\ AnteOK(deliver, cfg, t, "check") => AnteOK(deliver, cfg, t, "deliver")

\* The block's bloom covers the logs that the messages of successful transactions
\* emitted, and nothing else: not those of a discarded branch or of an earlier
\* block.  Without hooks these are the logs their responses carry; with hooks the
\* response may carry others, which the bloom stored before does not follow
\* (state_transition.go:211, 245).
BloomExact ==
  LET kept == {n \in DOMAIN receipts : receipts[n].height = height /\ receipts[n].ok}
  IN  /\ blooms = UNION {{<<n, k>> : k \in {j \in DOMAIN receipts[n].msgs : receipts[n].msgs[j].emitted}} : n \in kept}
      /\ ~ Hooks => blooms = UNION {{<<n, k>> : k \in {j \in DOMAIN receipts[n].msgs : receipts[n].msgs[j].logs}} : n \in kept}
=============================================================================
