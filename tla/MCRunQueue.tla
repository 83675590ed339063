----------------------------- MODULE MCRunQueue -----------------------------
(* RunQueue on a small instance.  Runs and servers are interchangeable.     *)
EXTENDS RunQueue, TLC

Symmetry == Permutations(Runs) \cup Permutations(Servers)
=============================================================================
