--------------------------- MODULE MCBlockResults ---------------------------
(* Instances of BlockResults for TLC: messages differ only in their hash. *)
EXTENDS BlockResults

Symmetry == Permutations(Hashes)
=============================================================================
