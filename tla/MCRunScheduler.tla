--------------------------- MODULE MCRunScheduler ---------------------------
(* Small instances of RunScheduler for TLC. *)
EXTENDS RunScheduler, TLC

Symmetry == Permutations(Runs)
=============================================================================
