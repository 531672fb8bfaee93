------------------------------- MODULE MCJobs -------------------------------
(***************************************************************************)
(* Instances of Jobs for model checking: which rows share a key, and the   *)
(* sets of interchangeable processes and rows.                             *)
(***************************************************************************)
EXTENDS Jobs, TLC

CONSTANT k1

\* Every row mutates the same cluster.
MCKeyOf == [j \in Job |-> k1]

Symmetry == Permutations(Worker) \union Permutations(Job)
=============================================================================
