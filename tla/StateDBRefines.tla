-------------------------- MODULE StateDBRefines ---------------------------
(***************************************************************************)
(* StateDB seen as a stack of copies.  While a revert is in progress the   *)
(* abstract state is already the copy that the journal has yet to lead to, *)
(* so the step that ends the revert is a step of Revertible only if        *)
(* undoing the entries has arrived there.                                  *)
(***************************************************************************)
EXTENDS StateDB

Reverting == phase = "reverting"

\* What the EVM observes, or will when RevertToSnapshot returns.
CopiedState == IF Reverting THEN saved[target].view ELSE View

Copies == IF Reverting THEN target - 1 ELSE Len(validRevisions)

CopyStack == [i \in 1..Copies |-> [id |-> validRevisions[i].id, state |-> saved[i].view]]

Abstract == INSTANCE Revertible WITH
  state <- CopiedState, stack <- CopyStack, nextId <- nextRevisionID, busy <- Reverting

\* The journal implements the stack of copies: when RevertToSnapshot returns,
\* undoing entries one by one has led to the copy that Snapshot would have made.
ImplementsRevertible == Abstract!Spec
=============================================================================
