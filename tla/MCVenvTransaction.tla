------------------------- MODULE MCVenvTransaction -------------------------
(* Values for TLC: processes and packages are interchangeable. *)
EXTENDS VenvTransaction, TLC

Symmetric == Permutations(Procs) \cup Permutations(Pkg)
=============================================================================
