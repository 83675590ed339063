------------------------------ MODULE Workflow ------------------------------
(***************************************************************************)
(* Orchestrator processes (server/orchestrator_core.py: main,              *)
(* run_full_workflow) at work on one repository.  A process plans its      *)
(* subtasks, has agents execute them one by one in a git worktree of its   *)
(* own (server/worktree_manager.py), reviews the changes, commits and      *)
(* pushes them or keeps them for an approval, and cleans up.  A read-only  *)
(* process works in the repository itself.                                 *)
(*                                                                         *)
(* The work of a process is one edit, named by the process: it is          *)
(* uncommitted in a tree, committed on a branch, or pushed to the remote.  *)
(***************************************************************************)
EXTENDS Integers, FiniteSets

CONSTANTS
    Procs,      \* the processes
    Branches,   \* the branches they may be told to work on
    None,       \* no branch, no directory
    MaxTasks,   \* bound on the subtasks of a plan
    SameSecond  \* may two processes on one branch start in the same second?

ASSUME WorkflowAssumption ==
    /\ None \notin Procs \cup Branches
    /\ MaxTasks \in Nat
    /\ SameSecond \in BOOLEAN

VARIABLES
    pc,         \* where each process is
    opts,       \* its command line
    branch,     \* its branch
    dir,        \* its worktree, named by the process that was first to use the name
    restored,   \* the subtasks its checkpoint says were completed
    plan,       \* the number of its subtasks
    next,       \* the subtask it is at
    outcome,    \* the outcome of each subtask
    result,     \* the status it reports
    before,     \* the status of the repository that a read-only process noted
    present,    \* the worktrees that exist
    on,         \* the branch checked out in each worktree
    edits,      \* the uncommitted edits of each worktree
    repo,       \* the uncommitted edits of the repository itself
    tip,        \* the edits committed on each branch
    pushed,     \* those on the branch of the remote
    checkpoint  \* the checkpoint of each branch, and of no branch: the completed subtasks

process == <<opts, branch, dir, restored, before>>
chain == <<plan, next, outcome>>
git == <<present, on, edits, repo, tip, pushed>>
vars == <<pc, process, chain, result, git, checkpoint>>

Places ==
    {"idle", "started", "created", "synced", "planning", "brainstormed", "executing",
     "reviewing", "committing", "pushing", "cleanup", "ended", "dead"}

Options == [push : BOOLEAN, approval : BOOLEAN, readOnly : BOOLEAN, resume : BOOLEAN]

TaskIds == 1..MaxTasks

Outcomes == {"none", "ok", "failed", "blocked", "timeout", "budget", "skipped"}

Results ==
    {"none", "COMPLETED", "WAITING_FOR_APPROVAL", "BLOCKED_GIT_SYNC", "BLOCKED_PREREQUISITE",
     "BLOCKED_BUDGET", "TIME_BUDGET_EXCEEDED", "FAILED", "raised"}

\* The status the workflow reports for the outcome of a subtask that ends it.
ResultOf ==
    [failed |-> "FAILED", blocked |-> "BLOCKED_PREREQUISITE",
     timeout |-> "TIME_BUDGET_EXCEEDED", budget |-> "BLOCKED_BUDGET"]

WorkflowTypeOK ==
    /\ pc \in [Procs -> Places]
    /\ opts \in [Procs -> Options]
    /\ branch \in [Procs -> Branches \cup {None}]
    /\ dir \in [Procs -> Procs \cup {None}]
    /\ restored \in [Procs -> SUBSET TaskIds]
    /\ plan \in [Procs -> 0..MaxTasks]
    /\ next \in [Procs -> 1..(MaxTasks + 1)]
    /\ outcome \in [Procs -> [TaskIds -> Outcomes]]
    /\ result \in [Procs -> Results]
    /\ before \in [Procs -> BOOLEAN]
    /\ present \subseteq Procs
    /\ on \in [Procs -> Branches \cup {None}]
    /\ edits \in [Procs -> SUBSET Procs]
    /\ repo \subseteq Procs
    /\ tip \in [Branches -> SUBSET Procs]
    /\ pushed \in [Branches -> SUBSET Procs]
    /\ checkpoint \in [Branches \cup {None} -> SUBSET TaskIds]

Init ==
    /\ pc = [p \in Procs |-> "idle"]
    /\ opts = [p \in Procs |-> [push |-> FALSE, approval |-> FALSE,
                                readOnly |-> FALSE, resume |-> FALSE]]
    /\ branch = [p \in Procs |-> None]
    /\ dir = [p \in Procs |-> None]
    /\ restored = [p \in Procs |-> {}]
    /\ plan = [p \in Procs |-> 0]
    /\ next = [p \in Procs |-> 1]
    /\ outcome = [p \in Procs |-> [i \in TaskIds |-> "none"]]
    /\ result = [p \in Procs |-> "none"]
    /\ before = [p \in Procs |-> FALSE]
    /\ present = {}
    /\ on = [p \in Procs |-> None]
    /\ edits = [p \in Procs |-> {}]
    /\ repo = {}
    /\ tip = [b \in Branches |-> {}]
    /\ pushed = [b \in Branches |-> {}]
    /\ checkpoint = [b \in Branches \cup {None} |-> {}]

-----------------------------------------------------------------------------
Goes(p, place) == pc' = [pc EXCEPT ![p] = place]

At(p, place) == pc[p] = place

\* The process reports a status and goes to its finally clause.
Reports(p, status) ==
    /\ result' = [result EXCEPT ![p] = status]
    /\ Goes(p, "cleanup")

RepoDirty == repo # {}

\* main reads its arguments and checks the repository (check_git_preflight_sync,
\* check_read_only_invariance): changes in the repository, or trouble with the
\* remote, end the process.  Only a read-only process may do without a branch.
Start(p) ==
    /\ At(p, "idle")
    /\ \E o \in Options, b \in Branches \cup {None} :
          /\ o.readOnly => ~o.push
          /\ b = None => o.readOnly
          /\ opts' = [opts EXCEPT ![p] = o]
          /\ branch' = [branch EXCEPT ![p] = b]
    /\ \/ ~RepoDirty /\ Goes(p, "started") /\ UNCHANGED result
       \/ result' = [result EXCEPT ![p] = "BLOCKED_GIT_SYNC"] /\ Goes(p, "ended")
    /\ UNCHANGED <<dir, restored, before, chain, git, checkpoint>>

\* The constructor of the runner, with --resume, loads the checkpoint.
Restore(p) ==
    restored' = [restored EXCEPT ![p] = IF opts[p].resume THEN checkpoint[branch[p]] ELSE {}]

\* The worktrees whose name a process for this branch may choose again, since it
\* holds the second and the branch: those whose process has just begun.
SameNames(b) ==
    {q \in Procs : SameSecond /\ dir[q] = q /\ branch[q] = b
                    /\ pc[q] \in {"created", "synced", "planning"}}

\* create_worktree: a directory of the chosen name is removed by force.  git
\* refuses a branch that is checked out in another worktree, and resets any other
\* to the base branch.
CreateWorktree(p) ==
    LET b == branch[p]
    IN  /\ At(p, "started") /\ ~opts[p].readOnly
        /\ \E w \in {p} \cup SameNames(b) :
              /\ dir' = [dir EXCEPT ![p] = w]
              /\ IF \E v \in present \ {w} : on[v] = b
                 THEN /\ present' = present \ {w}
                      /\ result' = [result EXCEPT ![p] = "raised"]
                      /\ Goes(p, "ended")
                      /\ UNCHANGED <<on, tip>>
                 ELSE /\ present' = present \cup {w}
                      /\ on' = [on EXCEPT ![w] = b]
                      /\ tip' = [tip EXCEPT ![b] = {}]
                      /\ Goes(p, "created")
                      /\ UNCHANGED result
              /\ edits' = [edits EXCEPT ![w] = {}]
        /\ Restore(p)
        /\ UNCHANGED <<opts, branch, before, chain, repo, pushed, checkpoint>>

\* A read-only process works in the repository itself.
UseRepository(p) ==
    /\ At(p, "started") /\ opts[p].readOnly
    /\ Restore(p)
    /\ Goes(p, "created")
    /\ UNCHANGED <<opts, branch, dir, before, chain, result, git, checkpoint>>

\* run_full_workflow checks its workspace again: what the remote has of the
\* branch is pulled if that is a fast-forward, and not if the count of the
\* commits ahead and behind fails.
SyncWorkspace(p) ==
    /\ At(p, "created")
    /\ \/ /\ opts[p].readOnly /\ ~RepoDirty
          /\ Goes(p, "synced")
          /\ UNCHANGED <<result, tip>>
       \/ /\ ~opts[p].readOnly
          /\ \/ tip' = [tip EXCEPT ![branch[p]] = @ \cup pushed[branch[p]]]
             \/ UNCHANGED tip
          /\ Goes(p, "synced")
          /\ UNCHANGED result
       \/ Reports(p, "BLOCKED_GIT_SYNC") /\ UNCHANGED tip
    /\ UNCHANGED <<process, chain, present, on, edits, repo, pushed, checkpoint>>

\* The status of the repository is noted for the comparison at the end of a
\* read-only process; a mechanical task without a valid action is blocked.
NoteStatus(p) ==
    /\ At(p, "synced")
    /\ before' = [before EXCEPT ![p] = RepoDirty]
    /\ \/ Goes(p, "planning") /\ UNCHANGED result
       \/ Reports(p, "BLOCKED_PREREQUISITE")
    /\ UNCHANGED <<opts, branch, dir, restored, chain, git, checkpoint>>

\* save_checkpoint: the subtasks completed so far, with each phase of planning.
SaveCheckpoint(p) ==
    checkpoint' = [checkpoint EXCEPT ![branch[p]] = restored[p]]

\* brainstorm asks the director.
Brainstorm(p) ==
    /\ At(p, "planning")
    /\ SaveCheckpoint(p)
    /\ Goes(p, "brainstormed")
    /\ UNCHANGED <<process, chain, result, git>>

\* The subtasks from i on that are not skipped by --resume.
Remaining(p, i, n) == {j \in i..n : ~(opts[p].resume /\ j \in restored[p])}

\* The subtask the loop comes to from subtask i of a plan of n.
NextOf(p, i, n) ==
    LET todo == Remaining(p, i, n)
    IN  IF todo = {} THEN n + 1 ELSE CHOOSE j \in todo : \A k \in todo : j <= k

\* Subtask i of n ends the workflow with this outcome; the later ones are skipped.
Outcome(p, i, n, o) ==
    outcome' = [outcome EXCEPT ![p] =
        [j \in TaskIds |-> IF j = i THEN o ELSE IF j \in (i + 1)..n THEN "skipped" ELSE @[j]]]

\* decompose, after brainstorm or for a mechanical task at once, and the
\* preflight of all subtasks.  An answer without subtasks gives an empty plan.
Decompose(p) ==
    /\ pc[p] \in {"planning", "brainstormed"}
    /\ SaveCheckpoint(p)
    /\ \E n \in 0..MaxTasks :
          /\ plan' = [plan EXCEPT ![p] = n]
          /\ next' = [next EXCEPT ![p] = NextOf(p, 1, n)]
          /\ \/ Goes(p, IF NextOf(p, 1, n) > n THEN "reviewing" ELSE "executing")
                /\ UNCHANGED <<outcome, result>>
             \/ \E i \in 1..n :
                   /\ Outcome(p, i, n, "blocked")
                   /\ Reports(p, "BLOCKED_PREREQUISITE")
    /\ UNCHANGED <<process, git>>

-----------------------------------------------------------------------------
\* The tree the agents of a process work in.
Edits(p) ==
    IF opts[p].readOnly
    THEN repo' = repo \cup {p} /\ UNCHANGED edits
    ELSE /\ dir[p] \in present
         /\ edits' = [edits EXCEPT ![dir[p]] = @ \cup {p}]
         /\ UNCHANGED repo

\* An agent changes files.  The daemons on the host may still be at work for a
\* process that was killed.
AgentEdits(p) ==
    /\ pc[p] \in {"executing", "dead"} /\ next[p] <= plan[p]
    /\ Edits(p)
    /\ UNCHANGED <<pc, process, chain, result, present, on, tip, pushed, checkpoint>>

\* execute_task returns an output that does not stop the chain.
TaskDone(p) ==
    LET i == next[p]
        following == NextOf(p, i + 1, plan[p])
    IN  /\ At(p, "executing")
        /\ outcome' = [outcome EXCEPT ![p][i] = "ok"]
        /\ next' = [next EXCEPT ![p] = following]
        /\ Goes(p, IF following > plan[p] THEN "reviewing" ELSE "executing")
        /\ UNCHANGED <<process, plan, result, git, checkpoint>>

\* Mutant of TaskStops: a failed subtask does not end the chain.
TaskFailsAndChainGoesOn(p) ==
    LET i == next[p]
        following == NextOf(p, i + 1, plan[p])
    IN  /\ At(p, "executing")
        /\ outcome' = [outcome EXCEPT ![p][i] = "failed"]
        /\ next' = [next EXCEPT ![p] = following]
        /\ Goes(p, IF following > plan[p] THEN "reviewing" ELSE "executing")
        /\ UNCHANGED <<process, plan, result, git, checkpoint>>

\* execute_task returns a failure, a block or a timeout, or raises
\* BudgetExceededError or TimeBudgetExceededError.
TaskStops(p) ==
    /\ At(p, "executing")
    /\ \E o \in DOMAIN ResultOf :
          /\ Outcome(p, next[p], plan[p], o)
          /\ Reports(p, ResultOf[o])
    /\ UNCHANGED <<process, plan, next, git, checkpoint>>

\* Any other exception reaches main.
Raises(p) ==
    /\ pc[p] \in {"synced", "planning", "brainstormed", "executing", "reviewing"}
    /\ Reports(p, "raised")
    /\ UNCHANGED <<process, chain, git, checkpoint>>

-----------------------------------------------------------------------------
\* Mutant of ReviewReadOnly: the status is not compared.
ReviewReadOnlyTrusting(p) ==
    /\ At(p, "reviewing") /\ opts[p].readOnly
    /\ Reports(p, "COMPLETED")
    /\ UNCHANGED <<process, chain, git, checkpoint>>

\* The end of a read-only workflow: the status of the repository must be the
\* one noted at its beginning.  The status of a changed repository may be
\* another one later.
ReviewReadOnly(p) ==
    /\ At(p, "reviewing") /\ opts[p].readOnly
    /\ \/ RepoDirty = before[p] /\ Reports(p, "COMPLETED")
       \/ RepoDirty /\ Reports(p, "FAILED")
    /\ UNCHANGED <<process, chain, git, checkpoint>>

\* Mutant of Review: no look at what changed.
ReviewUnseen(p) ==
    /\ At(p, "reviewing") /\ ~opts[p].readOnly
    /\ \/ /\ opts[p].approval \/ ~opts[p].push
          /\ Reports(p, "WAITING_FOR_APPROVAL")
       \/ /\ ~opts[p].approval /\ opts[p].push
          /\ Goes(p, "committing")
          /\ UNCHANGED result
    /\ UNCHANGED <<process, chain, git, checkpoint>>

\* Mutant of Review: --push wins over the approval that was asked for.
ReviewPushFirst(p) ==
    /\ At(p, "reviewing") /\ ~opts[p].readOnly
    /\ LET changes == edits[dir[p]] # {}
       IN  \/ /\ changes /\ ~opts[p].push
              /\ Reports(p, "WAITING_FOR_APPROVAL")
           \/ /\ changes /\ opts[p].push
              /\ Goes(p, "committing")
              /\ UNCHANGED result
           \/ /\ ~changes
              /\ Reports(p, "COMPLETED")
    /\ UNCHANGED <<process, chain, git, checkpoint>>

\* Changes wait for an approval unless a push was asked for and no approval.
Review(p) ==
    /\ At(p, "reviewing") /\ ~opts[p].readOnly
    /\ LET changes == edits[dir[p]] # {}
       IN  \/ /\ changes /\ (opts[p].approval \/ ~opts[p].push)
              /\ Reports(p, "WAITING_FOR_APPROVAL")
           \/ /\ changes /\ ~opts[p].approval /\ opts[p].push
              /\ Goes(p, "committing")
              /\ UNCHANGED result
           \/ /\ ~changes
              /\ Reports(p, "COMPLETED")
    /\ UNCHANGED <<process, chain, git, checkpoint>>

\* git add and git commit of the reviewed files; a failure is not noticed.
Commit(p) ==
    /\ At(p, "committing")
    /\ \/ /\ tip' = [tip EXCEPT ![branch[p]] = @ \cup edits[dir[p]]]
          /\ edits' = [edits EXCEPT ![dir[p]] = {}]
       \/ UNCHANGED <<tip, edits>>
    /\ Goes(p, "pushing")
    /\ UNCHANGED <<process, chain, result, present, on, repo, pushed, checkpoint>>

\* git push, which the remote takes only as a fast-forward; a failure is not
\* noticed either.
Push(p) ==
    LET b == branch[p]
    IN  /\ At(p, "pushing")
        /\ \/ pushed[b] \subseteq tip[b] /\ pushed' = [pushed EXCEPT ![b] = tip[b]]
           \/ UNCHANGED pushed
        /\ Reports(p, "COMPLETED")
        /\ UNCHANGED <<process, chain, present, on, edits, repo, tip, checkpoint>>

\* Mutant of Cleanup: only the result is asked, not git.
CleanupByResult(p) ==
    /\ At(p, "cleanup")
    /\ \/ UNCHANGED present
       \/ /\ ~opts[p].readOnly
          /\ result[p] # "WAITING_FOR_APPROVAL"
          /\ present' = present \ {dir[p]}
    /\ Goes(p, "ended")
    /\ UNCHANGED <<process, chain, result, on, edits, repo, tip, pushed, checkpoint>>

\* The finally clause of main: a worktree is kept on request, for an approval,
\* and with changes or when git cannot tell.
Cleanup(p) ==
    /\ At(p, "cleanup")
    /\ \/ UNCHANGED present
       \/ /\ ~opts[p].readOnly
          /\ result[p] # "WAITING_FOR_APPROVAL"
          /\ edits[dir[p]] = {}
          /\ present' = present \ {dir[p]}
    /\ Goes(p, "ended")
    /\ UNCHANGED <<process, chain, result, on, edits, repo, tip, pushed, checkpoint>>

\* The process is killed, with its worktree as it is.
Crash(p) ==
    /\ pc[p] \notin {"idle", "ended", "dead"}
    /\ Goes(p, "dead")
    /\ UNCHANGED <<process, chain, result, git, checkpoint>>

Next ==
    \E p \in Procs :
        \/ Start(p) \/ CreateWorktree(p) \/ UseRepository(p) \/ SyncWorkspace(p) \/ NoteStatus(p)
        \/ Brainstorm(p) \/ Decompose(p)
        \/ AgentEdits(p) \/ TaskDone(p) \/ TaskStops(p) \/ Raises(p)
        \/ ReviewReadOnly(p) \/ Review(p) \/ Commit(p) \/ Push(p) \/ Cleanup(p) \/ Crash(p)

Spec == Init /\ [][Next]_vars

-----------------------------------------------------------------------------
\* The edit of a process, as long as it is uncommitted, stays in its worktree,
\* whatever becomes of the process and whatever the others do: cleanup and
\* worktrees of the same name are the dangers.  (Names are not shared.)
UncommittedWorkIsKept ==
    [][\A p, q \in Procs :
          p \in edits[q] => \/ q \in present' /\ p \in edits'[q]
                            \/ p \in tip'[on[q]]]_vars

\* What waits for an approval is there to be approved.  (Names are not shared.)
WaitingWorkIsThere ==
    \A p \in Procs :
        result[p] = "WAITING_FOR_APPROVAL"
            => dir[p] \in present /\ p \in edits[dir[p]] /\ on[dir[p]] = branch[p]

\* The remote has only work of processes that were told to push without an
\* approval, also on branches that several processes worked on.
OnlyApprovedIsPushed ==
    \A b \in Branches : \A p \in pushed[b] :
        branch[p] = b /\ opts[p].push /\ ~opts[p].approval

\* A workflow reports success only if every subtask of its plan went well.
SuccessIsWhole ==
    \A p \in Procs :
        result[p] \in {"COMPLETED", "WAITING_FOR_APPROVAL"}
            => \A i \in 1..plan[p] : outcome[p][i] = "ok" \/ i \in restored[p]

\* A read-only process that found the repository clean and reports success has
\* left it alone.
ReadOnlyIsHonest ==
    \A p \in Procs :
        opts[p].readOnly /\ result[p] = "COMPLETED" /\ ~before[p] => p \notin repo

=============================================================================
