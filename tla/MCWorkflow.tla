----------------------------- MODULE MCWorkflow -----------------------------
(* Workflow with a few processes, which may be exchanged.                  *)
EXTENDS Workflow, TLC

Symmetry == Permutations(Procs)
=============================================================================
