----------------------------- MODULE RunShadow ------------------------------
(***************************************************************************)
(* The orchestrator processes as writers of the table of runs: the queue's *)
(* children and the runs started from a shell.  Each has an identifier of  *)
(* its own (MultiAgentRunner.run_id, a second uuid4) and keeps a "shadow"  *)
(* row under it through RunStateAdapter (run_state_adapter.py), at the     *)
(* points where run_full_workflow calls the adapter.  The recovery of a    *)
(* booting server works on these rows too.                                 *)
(***************************************************************************)
EXTENDS RunQueue

CONSTANT CliRuns    \* orchestrator processes started from a shell

ASSUME RunShadowAssumption == CliRuns \cap Runs = {}

VARIABLES
    shadow,     \* the row each orchestrator process keeps of itself
    step,       \* how far run_full_workflow is in each process
    verdict     \* the status of the summary it returned, "EXCEPTION" if it
                \* raised, "VERB" if it answered a request without a workflow

shadowVars == <<shadow, step, verdict>>
allVars == <<vars, shadowVars>>

Procs == Runs \cup CliRuns

StepNames == {"none", "preflight", "working", "reported", "gone"}

\* How run_full_workflow may end once it has called start_run.
Endings == {"COMPLETED", "WAITING_FOR_APPROVAL", "BLOCKED_PREREQUISITE", "BLOCKED_BUDGET",
            "TIME_BUDGET_EXCEEDED", "FAILED", "EXCEPTION"}
Verdicts == Endings \cup {"none", "BLOCKED_GIT_SYNC", "VERB"}

ShadowTypeOK ==
    /\ TypeOK
    /\ shadow \in [Procs -> Rows]
    /\ step \in [Procs -> StepNames]
    /\ verdict \in [Procs -> Verdicts]

ShadowInit ==
    /\ Init
    /\ shadow = [p \in Procs |-> NoRow]
    /\ step = [p \in Procs |-> "none"]
    /\ verdict = [p \in Procs |-> "none"]

\* The process executes; a child does also after SIGTERM, until it dies.
Running(p) ==
    /\ step[p] \in {"preflight", "working", "reported"}
    /\ p \in Runs => child[p] \in {"alive", "sigterm"}

\* The adapter logs a failing transaction and goes on.
WriteShadow(p, row) ==
    \/ shadow' = [shadow EXCEPT ![p] = row]
    \/ DbFaults /\ UNCHANGED shadow

-----------------------------------------------------------------------------
(* One orchestrator process: run_full_workflow. *)

\* The checks before start_run: a blocked run is reported to the adapter under
\* an identifier that has no row yet.
EarlyBlock(p) ==
    /\ Running(p)
    /\ step[p] = "preflight"
    /\ WriteShadow(p, UpdateRow(shadow[p], "blocked_prerequisite", "blocked"))
    /\ step' = [step EXCEPT ![p] = "reported"]
    /\ \E v \in {"BLOCKED_GIT_SYNC", "BLOCKED_PREREQUISITE"} :
          verdict' = [verdict EXCEPT ![p] = v]
    /\ UNCHANGED vars

\* main answers a request that needs no workflow: clear, chat, brainstorm,
\* reject.
AnswerVerb(p) ==
    /\ Running(p)
    /\ step[p] = "preflight"
    /\ step' = [step EXCEPT ![p] = "reported"]
    /\ verdict' = [verdict EXCEPT ![p] = "VERB"]
    /\ UNCHANGED <<vars, shadow>>

StartRun(p) ==
    /\ Running(p)
    /\ step[p] = "preflight"
    /\ WriteShadow(p, NewRow("running"))
    /\ step' = [step EXCEPT ![p] = "working"]
    /\ UNCHANGED <<vars, verdict>>

UpdateProgress(p) ==
    /\ Running(p)
    /\ step[p] = "working"
    /\ WriteShadow(p, UpdateRow(shadow[p], "running", "none"))
    /\ UNCHANGED <<vars, step, verdict>>

\* What each ending of run_full_workflow writes: complete_run,
\* waiting_approval_run, block_prerequisite_run, block_budget_run, fail_run.
\* A subtask's output may speak of a timeout and of a prerequisite: the summary
\* then says TIME_BUDGET_EXCEEDED and the row blocked_prerequisite.
ShadowStatuses(v) ==
    CASE v = "COMPLETED"                                 -> {"completed"}
      [] v = "WAITING_FOR_APPROVAL"                      -> {"waiting_for_approval"}
      [] v = "BLOCKED_BUDGET"                            -> {"blocked_budget"}
      [] v \in {"BLOCKED_PREREQUISITE", "BLOCKED_GIT_SYNC"} -> {"blocked_prerequisite"}
      [] v = "TIME_BUDGET_EXCEEDED"                      -> {"failed", "blocked_prerequisite"}
      [] v \in {"FAILED", "EXCEPTION"}                   -> {"failed"}
      [] OTHER                                           -> {}

ShadowError(v, status) ==
    CASE status \in {"blocked_prerequisite", "blocked_budget"} -> "blocked"
      [] status # "failed"                                     -> "none"
      [] v = "TIME_BUDGET_EXCEEDED"                            -> "timeout"
      [] v = "EXCEPTION"                                       -> "exception"
      [] OTHER                                                 -> "failure"

\* Mutant of Report: a workflow stopped by its budget calls complete_run.
ReportBudgetAsCompleted(p, v) ==
    /\ Running(p)
    /\ step[p] = "working"
    /\ \E status \in IF v = "BLOCKED_BUDGET" THEN {"completed"} ELSE ShadowStatuses(v) :
          WriteShadow(p, UpdateRow(shadow[p], status, ShadowError(v, status)))
    /\ step' = [step EXCEPT ![p] = "reported"]
    /\ verdict' = [verdict EXCEPT ![p] = v]
    /\ UNCHANGED vars

Report(p, v) ==
    /\ Running(p)
    /\ step[p] = "working"
    /\ \E status \in ShadowStatuses(v) :
          WriteShadow(p, UpdateRow(shadow[p], status, ShadowError(v, status)))
    /\ step' = [step EXCEPT ![p] = "reported"]
    /\ verdict' = [verdict EXCEPT ![p] = v]
    /\ UNCHANGED vars

\* Mutant of ExitOf: main logs the exception and does not raise it again.
ExitOfSwallowing(p) ==
    IF step[p] = "reported"
    THEN {"nonzero", "OTHER"} \cup ({verdict[p]} \cap Summaries) ELSE {"nonzero"}

\* main prints what was returned, whatever its status, and exits with 0; an
\* exception, a signal or a crash gives another exit code.  The worker may fail
\* to read a summary: one longer than the buffer of stdout gets the lines that
\* main logs after it into its middle.
ExitOf(p) ==
    IF step[p] = "reported" /\ verdict[p] # "EXCEPTION"
    THEN {"nonzero", "OTHER"} \cup ({verdict[p]} \cap Summaries) ELSE {"nonzero"}

OrchestratorExits(r) ==
    /\ ChildExits(r)
    /\ exit'[r] \in ExitOf(r)
    /\ step' = [step EXCEPT ![r] = "gone"]
    /\ UNCHANGED <<shadow, verdict>>

CliStarts(c) ==
    /\ step[c] = "none"
    /\ step' = [step EXCEPT ![c] = "preflight"]
    /\ UNCHANGED <<vars, shadow, verdict>>

CliExits(c) ==
    /\ Running(c)
    /\ step' = [step EXCEPT ![c] = "gone"]
    /\ UNCHANGED <<vars, shadow, verdict>>

-----------------------------------------------------------------------------
(* The steps of the servers that touch the orchestrator processes. *)

ShadowBoot(s) ==
    /\ Boot(s)
    /\ shadow' = [p \in Procs |-> RecoverRow(shadow[p])]
    /\ UNCHANGED <<step, verdict>>

ShadowSpawn(s) ==
    /\ Spawn(s)
    /\ step' = [step EXCEPT ![item[s]] = "preflight"]
    /\ UNCHANGED <<shadow, verdict>>

OtherMainStep(s) ==
    \/ BootUnrecovered(s) \/ Bind(s) \/ BindFails(s)
    \/ \E r \in Runs : CreateRun(s, r)
    \/ PutItem(s) \/ Crash(s)
    \/ Interrupt(s) \/ StopPut(s) \/ StopTerminate(s) \/ StopJoined(s)

OtherWorkerStep(s) ==
    \/ CheckStop(s) \/ GetEmpty(s) \/ GetItem(s)
    \/ MarkRunning(s) \/ MarkRunningFails(s) \/ SpawnFails(s)
    \/ Reap(s) \/ Timeout(s) \/ RecordTimeout(s)
    \/ RecordExit(s) \/ RecordExitFails(s) \/ RecordException(s)

ShadowNext ==
    \/ \E s \in Servers :
          \/ ShadowBoot(s)
          \/ ShadowSpawn(s)
          \/ (OtherMainStep(s) \/ OtherWorkerStep(s)) /\ UNCHANGED shadowVars
    \/ \E r \in Runs :
          \/ OrchestratorExits(r)
          \/ ChildDies(r) /\ UNCHANGED shadowVars
    \/ \E c \in CliRuns : CliStarts(c) \/ CliExits(c)
    \/ \E p \in Procs :
          \/ EarlyBlock(p) \/ AnswerVerb(p) \/ StartRun(p) \/ UpdateProgress(p)
          \/ \E v \in Endings : Report(p, v)

ShadowSpec == ShadowInit /\ [][ShadowNext]_allVars

-----------------------------------------------------------------------------
\* A shadow row claims an outcome only if its process reached that outcome, or
\* a restart declared it interrupted: whatever was swallowed, revived by a late
\* progress update, or recovered in between.
ShadowClaimsAreTrue ==
    \A p \in Procs :
        shadow[p].status \in Settled =>
            \/ shadow[p].status \in ShadowStatuses(verdict[p])
            \/ shadow[p].status = "failed" /\ shadow[p].error = "restart"

\* What the queue says of a run rests on what its process decided: a row that
\* announces a halt does so of a workflow that halted in this way, and a row is
\* completed only if the process came to an end of its own, never after an
\* exception, a signal, a timeout or a crash.  (Completed is not success: the
\* workflow may have returned FAILED or any halt.)
QueueFollowsVerdict ==
    \A r \in Runs :
        LET st == runs[r].status
        IN  /\ st = "blocked_prerequisite" => verdict[r] = "BLOCKED_PREREQUISITE"
            /\ st = "waiting_for_approval" => verdict[r] = "WAITING_FOR_APPROVAL"
            /\ st = "completed" => verdict[r] \notin {"none", "EXCEPTION"}
=============================================================================
