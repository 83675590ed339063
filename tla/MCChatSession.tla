--------------------------- MODULE MCChatSession ----------------------------
(* ChatSession with a few operations, which may be exchanged.              *)
EXTENDS ChatSession, TLC

Symmetry == Permutations(Ops)
=============================================================================
