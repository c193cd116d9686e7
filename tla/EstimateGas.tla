----------------------------- MODULE EstimateGas -----------------------------
(***************************************************************************)
(* The gas estimation of x/evm/keeper/grpc_query.go: EstimateGas chooses   *)
(* the highest gas limit a call may have, searches below it with the       *)
(* BinSearch of x/evm/types/utils.go, and executes the limit itself when   *)
(* the search never lowered it.                                            *)
(*                                                                         *)
(* What an execution does with a gas limit is up to the call, and need not *)
(* be monotone: a contract may look at the gas it has left. Only what the  *)
(* intrinsic gas decides is fixed: below TxGas no execution begins. An     *)
(* execution is not committed, so the same limit ends the same way again.  *)
(*                                                                         *)
(* Gas is a uint64, whose largest value is a parameter: the sum of         *)
(* BinSearch is taken modulo the width.  The cap of a request is checked   *)
(* from below only, so with a cap above half the width the sum may wrap;   *)
(* the middle is then no middle, and the search of a call that fails at    *)
(* every limit goes round for ever.                                        *)
(***************************************************************************)
EXTENDS Integers, FiniteSets

CONSTANTS TxGas,     \* params.TxGas of go-ethereum, 21000
          MaxUint64  \* the largest uint64; half of it is the largest int64

ASSUME GasAssumption == TxGas \in Nat \ {0} /\ MaxUint64 \in Nat /\ MaxUint64 > TxGas

VARIABLES pc,       \* where EstimateGas is
          lo, hi,   \* the arguments of BinSearch, and its loop variables
          gasCap,   \* the highest allowance
          seen,     \* the outcome of every gas limit executed so far
          response  \* what the request was answered

vars == <<pc, lo, hi, gasCap, seen, response>>

\* The ends of an execution: ErrIntrinsicGas, an error of the message itself, or
\* a response whose VmError is empty, out of gas, a revert, or another one.
Outcomes == {"intrinsic", "consensus", "ok", "oog", "reverted", "vm"}

Failed(o) == o # "ok"

None == [status |-> "none"]
Refused(why) == [status |-> why]

Init ==
  /\ pc = "idle" /\ lo = 0 /\ hi = 0 /\ gasCap = 0
  /\ seen = << >> /\ response = None

\* The highest gas limit of the estimation: the gas of the arguments when it is
\* at least TxGas (0 stands for none), else the gas limit of a block, which is -1
\* when there is none; at most the cap of the request.
Highest(gas, maxGas, reqCap) ==
  LET wanted == IF gas >= TxGas THEN gas ELSE IF maxGas > 0 THEN maxGas ELSE reqCap
  IN  IF reqCap # 0 /\ wanted > reqCap THEN reqCap ELSE wanted

\* A request is refused when its cap is below TxGas or its arguments make no
\* message; else its search begins.
Request ==
  /\ pc = "idle"
  /\ \E gas, reqCap \in 0 .. MaxUint64, maxGas \in -1 .. MaxUint64 \div 2 :
       LET h == Highest(gas, maxGas, reqCap)
       IN  \/ /\ pc' = "done" /\ response' = Refused("invalid")
              /\ UNCHANGED <<lo, hi, gasCap>>
           \/ /\ reqCap >= TxGas
              /\ pc' = "search" /\ lo' = TxGas - 1 /\ hi' = h /\ gasCap' = h
              /\ UNCHANGED response
  /\ seen' = << >>

\* executable(gas) ends with o.
Executes(gas, o) ==
  /\ IF gas \in DOMAIN seen THEN o = seen[gas]
     ELSE gas < TxGas => o \in {"intrinsic", "consensus"}
  /\ seen' = [g \in DOMAIN seen \cup {gas} |-> IF g = gas THEN o ELSE seen[g]]

\* Mutant: the middle is rounded down once more.
MiddleBelow ==
  /\ pc = "search" /\ lo + 1 < hi
  /\ LET mid == ((hi + lo - 1) % (MaxUint64 + 1)) \div 2
     IN  \E o \in Outcomes :
           /\ Executes(mid, o)
           /\ CASE o = "consensus" -> pc' = "done" /\ response' = Refused("error") /\ UNCHANGED <<lo, hi>>
                [] o = "ok" -> hi' = mid /\ UNCHANGED <<pc, lo, response>>
                [] OTHER -> lo' = mid /\ UNCHANGED <<pc, hi, response>>
  /\ UNCHANGED gasCap

\* One round of the loop of BinSearch, in the arithmetic of uint64.
BinSearch ==
  /\ pc = "search" /\ lo + 1 < hi
  /\ LET mid == ((hi + lo) % (MaxUint64 + 1)) \div 2
     IN  \E o \in Outcomes :
           /\ Executes(mid, o)
           /\ CASE o = "consensus" -> pc' = "done" /\ response' = Refused("error") /\ UNCHANGED <<lo, hi>>
                [] o = "ok" -> hi' = mid /\ UNCHANGED <<pc, lo, response>>
                [] OTHER -> lo' = mid /\ UNCHANGED <<pc, hi, response>>
  /\ UNCHANGED gasCap

Estimate == [status |-> "gas", gas |-> hi]

\* Mutant: the limit is not executed before it is answered.
SkipsCap ==
  /\ pc = "search" /\ lo + 1 >= hi
  /\ pc' = "done" /\ response' = Estimate
  /\ UNCHANGED <<lo, hi, gasCap, seen>>

\* Mutant: only a revert is told apart from too little gas.
OnlyReverts ==
  /\ pc = "search" /\ lo + 1 >= hi
  /\ pc' = "done"
  /\ IF hi = gasCap
     THEN \E o \in Outcomes :
            /\ Executes(hi, o)
            /\ response' = CASE o = "ok" -> Estimate
                             [] o = "consensus" -> Refused("error")
                             [] o = "reverted" -> Refused("reverted")
                             [] OTHER -> Refused("allowance")
     ELSE response' = Estimate /\ UNCHANGED seen
  /\ UNCHANGED <<lo, hi, gasCap>>

\* The search is over. A limit that it lowered was executed; the highest
\* allowance was not, and is executed now. A revert is an answer of its own,
\* another error of the machine is returned as it is, and what is left (out of
\* gas or below the intrinsic gas) means that the allowance is too low.
Reject ==
  /\ pc = "search" /\ lo + 1 >= hi
  /\ pc' = "done"
  /\ IF hi = gasCap
     THEN \E o \in Outcomes :
            /\ Executes(hi, o)
            /\ response' = CASE o = "ok" -> Estimate
                             [] o = "consensus" -> Refused("error")
                             [] o = "reverted" -> Refused("reverted")
                             [] o = "vm" -> Refused("vm")
                             [] OTHER -> Refused("allowance")
     ELSE response' = Estimate /\ UNCHANGED seen
  /\ UNCHANGED <<lo, hi, gasCap>>

\* The answer goes to the caller; the keeper holds nothing of it.
Return ==
  /\ pc = "done"
  /\ pc' = "idle" /\ lo' = 0 /\ hi' = 0 /\ gasCap' = 0 /\ seen' = << >> /\ response' = None

Next == Request \/ BinSearch \/ Reject \/ Return

\* A query runs to its end once it has begun.
Spec == Init /\ [][Next]_vars /\ WF_vars(BinSearch \/ Reject \/ Return)

-----------------------------------------------------------------------------
\* No sum of the search wraps: hi is at most the allowance and lo at least two less.
NoWrap == gasCap <= (MaxUint64 + 1) \div 2

\* The gas EstimateGas answers was executed without an error and is within the
\* allowance; and one unit less was executed and failed, or is below the
\* intrinsic gas, unless the allowance is so high that BinSearch may wrap:
\* whatever the call does with its gas, and whichever of the three caps applied
\* (grpc_query.go:386).
EstimateTight ==
  response.status = "gas" =>
    LET g == response.gas
    IN  /\ g \in DOMAIN seen /\ seen[g] = "ok" /\ g <= gasCap
        /\ NoWrap => g = TxGas \/ (g - 1 \in DOMAIN seen /\ Failed(seen[g - 1]))

\* A call is answered with a failure only when its highest allowance failed, and
\* nothing the search executed went through, also if it wrapped: the answer of
\* the allowance is the reason given (grpc_query.go:393).
FailsAtAllowance ==
  response.status \in {"reverted", "vm", "allowance"} =>
    /\ \A g \in DOMAIN seen : Failed(seen[g])
    /\ gasCap \in DOMAIN seen
    /\ response.status = "allowance" <=> seen[gasCap] \in {"oog", "intrinsic"}

\* A request is answered: the interval of BinSearch cannot stop shrinking while
\* no sum wraps.  With an allowance above 2^63 it can (utils.go:226): the cap of
\* a JSON-RPC request is the node's, 25 million by default, but a gRPC query
\* names its own.
Answered == (pc = "search" /\ NoWrap) ~> (pc = "done")
=============================================================================
