--------------------------- MODULE SessionHistory ---------------------------
(***************************************************************************)
(* What a brainstorming session promises to those who write in it: its     *)
(* history only grows.  Each change gives the next revision, keeps every   *)
(* message and round recorded before, and never takes the summary back.    *)
(***************************************************************************)
EXTENDS Naturals, Sequences

CONSTANTS
    MessageSet, \* the messages
    Authors     \* who runs rounds

VARIABLES revision, messages, rounds, compacted

vars == <<revision, messages, rounds, compacted>>

Init ==
    /\ revision = 1
    /\ messages \in [1..1 -> MessageSet]
    /\ rounds = <<>>
    /\ compacted = 0

\* A change adds at most one message, and at most one round, the next one.
Change ==
    /\ revision' = revision + 1
    /\ \/ messages' = messages
       \/ \E m \in MessageSet : messages' = Append(messages, m)
    /\ \/ rounds' = rounds
       \/ \E a \in Authors : rounds' = Append(rounds, [by |-> a, number |-> Len(rounds) + 1])
    /\ compacted' \in compacted .. Len(messages)

Spec == Init /\ [][Change]_vars
=============================================================================
