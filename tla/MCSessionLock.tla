--------------------------- MODULE MCSessionLock ----------------------------
(* SessionLock with two threads of one process and one of another.         *)
EXTENDS SessionLock, TLC

CONSTANTS t1, t2, t3, cli, api

MCProcessOf == t1 :> api @@ t2 :> api @@ t3 :> cli
=============================================================================
