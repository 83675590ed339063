----------------------------- MODULE RunPolling -----------------------------
(***************************************************************************)
(* The polling loop of the n8n workflow (server/Taktstock Multi-Agent      *)
(* Orchestrator.json) that follows a queued run and notifies the chat of   *)
(* its end.  The queue appears as what it promises, RunLifecycle, which    *)
(* RunQueue implements.                                                    *)
(***************************************************************************)
EXTENDS Integers, RunStore

CONSTANT PollLimit  \* poll_limit of the node Init Poll Context: 180

ASSUME PollLimitAssumption == PollLimit \in Nat \ {0}

VARIABLES
    status,     \* what the queue answers of each run
    started,    \* the runs whose command has been started
    poll,       \* which node of the loop each run's item is at
    attempt,    \* poll_attempt of that item, Lost if it has none
    seen        \* the status in the response of Get Run Status

Life == INSTANCE RunLifecycle

lifeVars == <<status, started>>
pollVars == <<poll, attempt, seen>>
pollingVars == <<lifeVars, pollVars>>

\* What a poll may answer.
Answers == {"absent"} \cup InFlight \cup Life!Outcomes

Ends == {"completed", "failed", "timeout", "error"}
Nodes == {"none", "wait", "evaluate"} \cup Ends
Lost == -1

PollTypeOK ==
    /\ status \in [Runs -> Answers]
    /\ started \subseteq Runs
    /\ poll \in [Runs -> Nodes]
    /\ attempt \in [Runs -> Lost .. PollLimit]
    /\ seen \in [Runs -> Answers]

PollInit ==
    /\ Life!Init
    /\ poll = [r \in Runs |-> "none"]
    /\ attempt = [r \in Runs |-> 0]
    /\ seen = [r \in Runs |-> "absent"]

\* The answer QUEUED starts the loop with poll_attempt 0, unless it is lost.
SubmitAndPoll(r) ==
    /\ Life!Submit(r)
    /\ \E answered \in BOOLEAN :
          poll' = [poll EXCEPT ![r] = IF answered THEN "wait" ELSE "error"]
    /\ UNCHANGED <<attempt, seen>>

\* After 10 s, GET /api/runs/<id>.  The response replaces the item, and with it
\* the poll_attempt the item carried.
GetRunStatus(r) ==
    /\ poll[r] = "wait"
    /\ seen' = [seen EXCEPT ![r] = status[r]]
    /\ attempt' = [attempt EXCEPT ![r] = Lost]
    /\ poll' = [poll EXCEPT ![r] = "evaluate"]
    /\ UNCHANGED lifeVars

\* The server does not answer: the workflow's execution ends.
GetFails(r) ==
    /\ poll[r] = "wait"
    /\ poll' = [poll EXCEPT ![r] = "error"]
    /\ UNCHANGED <<lifeVars, attempt, seen>>

\* Mutants of Route: every end that is not a failure counts as success; a
\* blocked run is polled on.
RouteOthersAsCompleted(st, n) ==
    CASE st = "failed"         -> "failed"
      [] st \in Life!Outcomes -> "completed"
      [] OTHER                 -> IF n >= PollLimit THEN "timeout" ELSE "wait"

RouteWithoutBlocked(st, n) ==
    CASE st \in {"completed", "failed"} -> st
      [] OTHER -> IF n >= PollLimit THEN "timeout" ELSE "wait"

\* The node Evaluate Run State; an item without poll_attempt takes the one of
\* Init Poll Context, which is 0.
Route(st, n) ==
    CASE st = "completed"                          -> "completed"
      [] st \in {"failed", "blocked_prerequisite"} -> "failed"
      [] OTHER -> IF n >= PollLimit THEN "timeout" ELSE "wait"

Evaluate(r) ==
    /\ poll[r] = "evaluate"
    /\ LET n == IF attempt[r] = Lost THEN 0 ELSE attempt[r]
       IN  /\ poll' = [poll EXCEPT ![r] = Route(seen[r], n)]
           /\ attempt' = [attempt EXCEPT ![r] = IF Route(seen[r], n) = "wait" THEN n + 1 ELSE n]
    /\ UNCHANGED <<lifeVars, seen>>

LifeStep(r) ==
    /\ \/ Life!Begin(r)
       \/ Life!Launch(r)
       \/ \E outcome \in Life!Outcomes : Life!Settle(r, outcome)
    /\ UNCHANGED pollVars

PollStep(r) == GetRunStatus(r) \/ GetFails(r) \/ Evaluate(r)

PollNext ==
    \/ \E r \in Runs : SubmitAndPoll(r) \/ LifeStep(r) \/ PollStep(r)
    \/ Life!Interrupt /\ UNCHANGED pollVars

\* The timer of the Wait node fires and the Code node runs.
PollSpec ==
    /\ PollInit
    /\ [][PollNext]_pollingVars
    /\ \A r \in Runs : WF_pollingVars(PollStep(r))

-----------------------------------------------------------------------------
\* The message the chat receives last agrees with how the run really ended,
\* also when the status changed between two polls or a restart failed the run.
NotificationIsTrue ==
    \A r \in Runs :
        /\ poll[r] = "completed" => status[r] = "completed"
        /\ poll[r] = "failed" => status[r] \in {"failed", "blocked_prerequisite"}

\* A followed run that has completed, failed or is blocked is noticed.
EndIsNoticed ==
    \A r \in Runs :
        poll[r] = "wait" /\ status[r] \in {"completed", "failed", "blocked_prerequisite"}
            ~> poll[r] \in Ends
=============================================================================
