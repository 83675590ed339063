---------------------------- MODULE MCRunShadow -----------------------------
(* RunShadow on a small instance.  Processes of one kind are interchangeable. *)
EXTENDS RunShadow, TLC

Symmetry == Permutations(Runs) \cup Permutations(CliRuns)
=============================================================================
