------------------------------ MODULE MCStream ------------------------------
(***************************************************************************)
(* A small instance of Stream for TLC.                                     *)
(***************************************************************************)
EXTENDS Stream

\* Readers share nothing but the stream, which they do not change: a
\* behaviour of the instance has readers of one kind only.
OneKind == (\A r \in Subscribers : pc[r] = "idle") \/ (\A r \in Pollers : offset[r] = -1)

MCSpec == Init /\ [][Next /\ OneKind']_vars /\ Fairness
=============================================================================
