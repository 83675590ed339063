--------------------------- MODULE MCLegacyImport ----------------------------
(* LegacyImport with a checkpoint beside two sessions of a chat.           *)
EXTENDS LegacyImport, TLC

CONSTANT checkpoint

Checkpoint == {checkpoint}

Statement == [k \in Checkpoint |-> "running"]

Symmetry == Permutations(Procs) \cup Permutations(Sessions)
=============================================================================
