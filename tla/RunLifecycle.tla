---------------------------- MODULE RunLifecycle ----------------------------
(***************************************************************************)
(* What the run queue promises to whoever polls GET /api/runs/<id>: a run  *)
(* is queued, is started once, settles once, and a settled run never       *)
(* changes again; a restart of the server fails every run in flight, all   *)
(* of them at once, and starts none of them again.                         *)
(***************************************************************************)
EXTENDS RunStore

VARIABLES
    status,     \* what a poll of the run answers
    started     \* the runs whose command has been started

vars == <<status, started>>

Outcomes == {"completed", "failed", "blocked_prerequisite", "waiting_for_approval"}

Init ==
    /\ status = [r \in Runs |-> "absent"]
    /\ started = {}

Submit(r) ==
    /\ status[r] = "absent"
    /\ status' = [status EXCEPT ![r] = "queued"]
    /\ UNCHANGED started

Begin(r) ==
    /\ status[r] = "queued"
    /\ status' = [status EXCEPT ![r] = "running"]
    /\ UNCHANGED started

\* A run may settle unstarted, when its command cannot be spawned.
Launch(r) ==
    /\ status[r] = "running"
    /\ r \notin started
    /\ started' = started \cup {r}
    /\ UNCHANGED status

Settle(r, outcome) ==
    /\ status[r] = "running"
    /\ outcome = "failed" \/ r \in started
    /\ status' = [status EXCEPT ![r] = outcome]
    /\ UNCHANGED started

Interrupt ==
    /\ status' = [r \in Runs |->
                    IF status[r] \in InFlight THEN "failed" ELSE status[r]]
    /\ UNCHANGED started

Next ==
    \/ \E r \in Runs :
          \/ Submit(r)
          \/ Begin(r)
          \/ Launch(r)
          \/ \E outcome \in Outcomes : Settle(r, outcome)
    \/ Interrupt

Spec == Init /\ [][Next]_vars
=============================================================================
