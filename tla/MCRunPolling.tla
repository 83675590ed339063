---------------------------- MODULE MCRunPolling ----------------------------
(* RunPolling on a small instance, with a small poll limit. *)
EXTENDS RunPolling
=============================================================================
