---------------------------- MODULE MCAgySidecar ----------------------------
(* AgySidecar with two calls that may overlap or follow each other; a      *)
(* timeout of one tick is below the least the daemon accepts.              *)
EXTENDS AgySidecar

CONSTANTS c1, c2
=============================================================================
