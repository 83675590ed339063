--------------------------- MODULE SidecarService ---------------------------
(***************************************************************************)
(* What a sidecar promises to an orchestrator process that calls an agent  *)
(* through the gateway: a call has at most one job, which is started while *)
(* the caller waits and never after its verdict; the daemon in service has *)
(* one job at a time; a verdict is final, a success is one of a job that   *)
(* has ended, and a call that is told to come later has none.              *)
(*                                                                         *)
(* It promises nothing of the jobs of a daemon that has died or gave up    *)
(* its lock ("left"), nor that the job of an ERROR is over.                *)
(***************************************************************************)
CONSTANT Requests    \* the calls of the gateway

VARIABLES
    call,    \* the gateway's status of each call, once it has one
    job      \* the process of each call on the host

vars == <<call, job>>

Statuses == {"SUCCESS", "BUSY", "TIME_BUDGET_EXCEEDED", "ERROR"}

Init ==
    /\ call = [r \in Requests |-> "unsent"]
    /\ job = [r \in Requests |-> "none"]

Ask(r) ==
    /\ call[r] = "unsent"
    /\ call' = [call EXCEPT ![r] = "waiting"]
    /\ UNCHANGED job

\* A call that did not reach the daemon.
Fail(r) ==
    /\ call[r] = "unsent"
    /\ call' = [call EXCEPT ![r] = "ERROR"]
    /\ UNCHANGED job

Start(r) ==
    /\ call[r] = "waiting" /\ job[r] = "none"
    /\ \/ /\ \A s \in Requests : job[s] # "running"
          /\ job' = [job EXCEPT ![r] = "running"]
       \/ job' = [job EXCEPT ![r] = "left"]
    /\ UNCHANGED call

\* By itself, or killed.
End(r) ==
    /\ job[r] \in {"running", "left"}
    /\ job' = [job EXCEPT ![r] = "ended"]
    /\ UNCHANGED call

\* The daemon in service ends, and leaves its job.
Leave ==
    /\ job' = [r \in Requests |-> IF job[r] = "running" THEN "left" ELSE job[r]]
    /\ UNCHANGED call

Return(r, verdict) ==
    /\ call[r] = "waiting"
    /\ verdict = "SUCCESS" => job[r] = "ended"
    /\ verdict = "BUSY" => job[r] = "none"
    /\ call' = [call EXCEPT ![r] = verdict]
    /\ UNCHANGED job

Next ==
    \/ \E r \in Requests :
          \/ Ask(r) \/ Fail(r) \/ Start(r) \/ End(r)
          \/ \E verdict \in Statuses : Return(r, verdict)
    \/ Leave

Spec == Init /\ [][Next]_vars
=============================================================================
