--------------------------- MODULE TaskExecution ----------------------------
(***************************************************************************)
(* What an orchestrator process uses its agents for: planning, the subtask *)
(* loop with execute_task (the executor and its replacement, the quick     *)
(* check with its fixes, the review with its fixes), and validation        *)
(* (server/orchestrator_core.py).  Each step is taken when the call before *)
(* it has come back.  What an agent answers is abstracted to what the code *)
(* branches on.                                                            *)
(***************************************************************************)
EXTENDS AgentCalls

CONSTANTS
    Director,       \* the preset's director, "sol" or "director"
    AllowEscalation,\* the preset's allow_escalation
    Reviewers,      \* does the preset have the reviewer ds-pro?
    Executors,      \* the agents a plan may name
    MaxFix,         \* max_fix_attempts
    MaxTasks        \* subtasks of a plan

ASSUME ExecutionAssumption ==
    /\ Director \in {"sol", "director"}
    /\ AllowEscalation \in BOOLEAN /\ Reviewers \in BOOLEAN
    /\ Executors \subseteq Agents \ {"sol", "director"}
    /\ MaxFix \in Nat \ {0} /\ MaxTasks \in Nat

VARIABLES
    pc,        \* what the process does next, or with the result of the call
    escalated, \* its question to the director has gone on to sol
    tasks,     \* subtasks left of the plan
    agent,     \* who executes the present one
    fixer,     \* the fixer select_agy_fallback chooses for it
    attempt,   \* attempts of the quick check
    rev_attempt, \* attempts of the review
    output,    \* what execute_task would return
    seen       \* has the director or the reviewer been shown that output?

taskVars == <<agent, fixer>>
loopVars == <<attempt, rev_attempt, output, seen>>
execVars == <<pc, escalated, tasks, taskVars, loopVars>>
vars == <<accountVars, callVars, execVars>>

AskingDirector == {"brainstorming", "decomposing", "checking", "validating"}
Phases == AskingDirector \cup
          {"start", "loop", "executing", "replacing", "replaced", "check",
           "fixing", "review", "reviewing", "reworking", "returned", "end"}

TypeOK ==
    /\ CallsTypeOK
    /\ pc \in Phases
    /\ escalated \in BOOLEAN
    /\ tasks \in 0..MaxTasks
    /\ agent \in Executors \cup {None}
    /\ fixer \in {"glm-flash", "ds-flash", None}
    /\ attempt \in 0..MaxFix
    /\ rev_attempt \in 0..MaxFix
    /\ output \in Results \cup {None}
    /\ seen \in BOOLEAN

Init ==
    /\ CallsInit
    /\ pc = "start"
    /\ escalated = FALSE
    /\ tasks = 0
    /\ agent = None
    /\ fixer = None
    /\ attempt = 0
    /\ rev_attempt = 0
    /\ output = None
    /\ seen = FALSE

\* The process is at p and no call is out.
At(p) == pc = p /\ callee = None

Goto(p) == pc' = p /\ escalated' = FALSE

-----------------------------------------------------------------------------
(* Planning. *)

Brainstorm ==
    /\ At("start")
    /\ Ask(Director)
    /\ Goto("brainstorming")
    /\ UNCHANGED <<tasks, taskVars, loopVars>>

\* call_director asks sol, once, when the director wants it to.
Escalate ==
    /\ pc \in AskingDirector /\ callee = None
    /\ result = "OK"
    /\ AllowEscalation /\ Director # "sol" /\ ~escalated
    /\ Ask("sol")
    /\ escalated' = TRUE
    /\ UNCHANGED <<pc, tasks, taskVars, loopVars>>

Decompose ==
    /\ At("brainstorming") /\ result \notin Raised
    /\ Ask(Director)
    /\ Goto("decomposing")
    /\ UNCHANGED <<tasks, taskVars, loopVars>>

\* The plan is cut to the calls that are left, but for one.
PlanSize(n) ==
    LET left == IF total + 2 > MaxTotal THEN 1 ELSE MaxTotal - total - 1
    IN  IF n > left THEN left ELSE n

PlanIsMade ==
    /\ At("decomposing") /\ result \notin Raised
    /\ \E n \in 0..MaxTasks : tasks' = PlanSize(n)
    /\ Goto("loop")
    /\ UNCHANGED <<accountVars, callVars, taskVars, loopVars>>

\* A call that is refused or raises outside of execute_task's try blocks ends
\* the workflow.
Stops ==
    /\ pc \in {"brainstorming", "decomposing", "executing", "replacing", "replaced"}
    /\ callee = None
    /\ result \in IF pc = "executing" /\ agent = "agy" THEN Raised \ {"RUNTIME"} ELSE Raised
    /\ Goto("end")
    /\ UNCHANGED <<accountVars, callVars, tasks, taskVars, loopVars>>

-----------------------------------------------------------------------------
(* execute_task. *)

\* The executors that retry_with_primary_executor calls again.
Retrying == {"luna", "glm-flash", "ds-flash"}

\* Luna needs an account; the other prerequisites are sockets and workflows,
\* which may be missing at any time.
Prerequisites(a) == a = "luna" => GetAccountForRole("luna") # None

ExecuteTask ==
    /\ At("loop") /\ tasks > 0
    /\ tasks' = tasks - 1
    /\ agent' \in Executors
    /\ fixer' \in IF agent' \in Retrying THEN {None} ELSE {"glm-flash", "ds-flash"}
    /\ UNCHANGED <<attempt, rev_attempt, seen>>
    /\ \/ /\ Prerequisites(agent')
          /\ Ask(agent')
          /\ Goto("executing")
          /\ output' = None
       \/ /\ Return(None)
          /\ Goto("returned")
          /\ output' = "BLOCKED"

\* call_agy_fallback, when AGY raised and when the output says it failed; the
\* second of these may be the failure of the first's fixer.
Fallback ==
    /\ callee = None
    /\ \/ pc = "executing" /\ agent = "agy" /\ result = "RUNTIME" /\ Goto("replacing")
       \/ pc = "executing" /\ agent = "agy" /\ result = "FAILED" /\ Goto("replaced")
       \/ pc = "replacing" /\ result = "FAILED" /\ Goto("replaced")
    /\ Ask(fixer)
    /\ UNCHANGED <<tasks, taskVars, loopVars>>

\* An agent the code does not know is a profile of Codex, and AGY its fallback.
FallbackToAgy ==
    /\ At("executing") /\ agent = "other" /\ result \notin Raised
    /\ Ask("agy")
    /\ Goto("replaced")
    /\ UNCHANGED <<tasks, taskVars, loopVars>>

\* The executor's output stands; a blocked one is returned at once.
Executed ==
    /\ callee = None /\ result \notin Raised
    /\ \/ pc = "executing" /\ ~(agent \in {"agy", "other"} /\ result = "FAILED")
       \/ pc = "replacing" /\ result # "FAILED"
       \/ pc = "replaced"
    /\ output' = result
    /\ Goto(IF result = "BLOCKED" THEN "returned" ELSE "check")
    /\ UNCHANGED <<accountVars, callVars, tasks, taskVars, attempt, rev_attempt, seen>>

\* Whoever is asked now sees the output.
ShowsTo == seen' = (seen \/ result' # "BUDGET")

QuickCheck ==
    /\ At("check")
    /\ Ask(Director)
    /\ attempt' = attempt + 1
    /\ ShowsTo
    /\ Goto("checking")
    /\ UNCHANGED <<tasks, taskVars, rev_attempt, output>>

\* AGY and unknown agents are replaced.
Retrier == IF agent \in Retrying THEN agent ELSE fixer

\* What is not JSON passes, and so does the limit of an account.
CheckPasses ==
    /\ At("checking") /\ result \in {"OK", "LIMITED"}
    /\ Goto("review")
    /\ UNCHANGED <<accountVars, callVars, tasks, taskVars, loopVars>>

CheckFails ==
    /\ At("checking") /\ result \in {"OK", "FAILED", "NO_ANSWER"}
    /\ \/ attempt < MaxFix /\ Ask(Retrier) /\ Goto("fixing")
       \/ attempt = MaxFix /\ Goto("review") /\ UNCHANGED <<accountVars, callVars>>
    /\ UNCHANGED <<tasks, taskVars, loopVars>>

\* The check or the fix is refused: the loop ends.
CheckIsRefused ==
    /\ callee = None /\ pc \in {"checking", "fixing"} /\ result = "BUDGET"
    /\ Goto("review")
    /\ UNCHANGED <<accountVars, callVars, tasks, taskVars, loopVars>>

\* Mutant of Fixed: the fix is taken for good.
FixedForGood ==
    /\ At("fixing") /\ result \notin Raised
    /\ output' = result
    /\ seen' = FALSE
    /\ Goto("review")
    /\ UNCHANGED <<accountVars, callVars, tasks, taskVars, attempt, rev_attempt>>

Fixed ==
    /\ At("fixing") /\ result \notin Raised
    /\ output' = result
    /\ seen' = FALSE
    /\ Goto("check")
    /\ UNCHANGED <<accountVars, callVars, tasks, taskVars, attempt, rev_attempt>>

\* The plan says which subtasks are to be reviewed; a blocked output never is.
Review ==
    /\ At("review")
    /\ \/ /\ Reviewers /\ output # "BLOCKED" /\ Allowed("ds-pro")
          /\ Ask("ds-pro")
          /\ rev_attempt' = 1
          /\ ShowsTo
          /\ Goto("reviewing")
       \/ /\ Goto("returned")
          /\ UNCHANGED <<accountVars, callVars, rev_attempt, seen>>
    /\ UNCHANGED <<tasks, taskVars, attempt, output>>

\* Only the verdict "fix" is a rejection: a failed or refused review approves.
ReviewPasses ==
    /\ At("reviewing")
    /\ Goto("returned")
    /\ UNCHANGED <<accountVars, callVars, tasks, taskVars, loopVars>>

ReviewFails ==
    /\ At("reviewing") /\ result = "OK"
    /\ \/ rev_attempt < MaxFix /\ Ask(Retrier) /\ Goto("reworking")
       \/ rev_attempt = MaxFix /\ Goto("returned") /\ UNCHANGED <<accountVars, callVars>>
    /\ UNCHANGED <<tasks, taskVars, loopVars>>

\* The fix goes back to the reviewer, unless the budget refused it.
Reworked ==
    /\ At("reworking")
    /\ \/ /\ result = "BUDGET"
          /\ Goto("returned")
          /\ UNCHANGED <<accountVars, callVars, loopVars>>
       \/ /\ result \notin Raised
          /\ output' = result
          /\ Ask("ds-pro")
          /\ rev_attempt' = rev_attempt + 1
          /\ seen' = (result' # "BUDGET")
          /\ Goto("reviewing")
          /\ UNCHANGED attempt
    /\ UNCHANGED <<tasks, taskVars>>

-----------------------------------------------------------------------------
(* The loop over the subtasks and the validation. *)

\* An output that is a failure, a block or a timeout ends the workflow.
TaskReturns ==
    /\ At("returned")
    /\ \/ output \notin {"FAILED", "BLOCKED"} /\ Goto("loop")
       \/ output \in {"FAILED", "BLOCKED", "NO_ANSWER"} /\ Goto("end")
    /\ agent' = None /\ fixer' = None
    /\ attempt' = 0 /\ rev_attempt' = 0
    /\ output' = None /\ seen' = FALSE
    /\ UNCHANGED <<accountVars, callVars, tasks>>

Validate ==
    /\ At("loop") /\ tasks = 0
    /\ Ask(Director)
    /\ Goto("validating")
    /\ UNCHANGED <<tasks, taskVars, loopVars>>

\* Whatever validation says, or says not, the workflow goes on to its diff.
Validated ==
    /\ At("validating")
    /\ Goto("end")
    /\ UNCHANGED <<accountVars, callVars, tasks, taskVars, loopVars>>

Step ==
    \/ Brainstorm \/ Escalate \/ Decompose \/ PlanIsMade \/ Stops
    \/ ExecuteTask \/ Fallback \/ FallbackToAgy \/ Executed
    \/ QuickCheck \/ CheckPasses \/ CheckFails \/ CheckIsRefused \/ Fixed
    \/ Review \/ ReviewPasses \/ ReviewFails \/ Reworked
    \/ TaskReturns \/ Validate \/ Validated

Progress == Step \/ (CallReturns /\ UNCHANGED execVars)

Next == Progress \/ (CooldownEnds /\ UNCHANGED <<callVars, execVars>>)

Spec == Init /\ [][Next]_vars

\* Every call returns, sidecars and commands having timeouts of their own.
FairSpec == Spec /\ WF_vars(Progress)

-----------------------------------------------------------------------------
\* execute_task returns an output that nobody looked at, the executor's or a
\* fixer's, only if it is blocked or the budget has no room left for the
\* director or for the reviewer.
FixesAreLookedAt ==
    pc = "returned" /\ output # "BLOCKED" /\ ~seen
        => ~Allowed(Director) \/ ~Allowed("ds-pro")

\* Whatever fails and is replaced, checked, fixed and reviewed: it ends.
WorkflowEnds == <>(pc = "end")
=============================================================================
