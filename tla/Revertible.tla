---------------------------- MODULE Revertible ----------------------------
(***************************************************************************)
(* What vm.StateDB promises the EVM about snapshots, as a stack of copies: *)
(* Snapshot pushes a copy of the state under a fresh id, RevertToSnapshot  *)
(* puts a copy back and drops it together with the ones above it, and      *)
(* everything else may change the state but not the stack.  A call to      *)
(* RevertToSnapshot takes time: the state is observed when it returns.     *)
(***************************************************************************)
EXTENDS Naturals, Sequences

VARIABLES state,   \* what the EVM observes
          stack,   \* the copies, oldest first: [id, state]
          nextId,
          busy     \* between the call and the return of RevertToSnapshot

vars == <<state, stack, nextId, busy>>

Init == stack = <<>> /\ nextId = 0 /\ busy = FALSE

Modify == ~ busy /\ UNCHANGED <<stack, nextId, busy>>

Snapshot ==
  /\ ~ busy
  /\ stack' = Append(stack, [id |-> nextId, state |-> state])
  /\ nextId' = nextId + 1
  /\ UNCHANGED <<state, busy>>

Revert ==
  /\ ~ busy
  /\ \E i \in 1..Len(stack) :
       /\ state' = stack[i].state
       /\ stack' = SubSeq(stack, 1, i - 1)
  /\ busy' = TRUE
  /\ UNCHANGED nextId

Return ==
  /\ busy
  /\ busy' = FALSE
  /\ UNCHANGED <<state, stack, nextId>>

Next == Modify \/ Snapshot \/ Revert \/ Return

Spec == Init /\ [][Next]_vars
=============================================================================
