------------------------------ MODULE MCStream ------------------------------
(* Instances of JobStream for model checking. *)
EXTENDS JobStream, TLC

Symmetry == Permutations(Writer)
=============================================================================
