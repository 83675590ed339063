--------------------------- MODULE MCCodexSidecar ---------------------------
(* CodexSidecar with a daemon, a successor and two calls.                  *)
EXTENDS CodexSidecar

CONSTANTS d1, d2, c1, c2
=============================================================================
