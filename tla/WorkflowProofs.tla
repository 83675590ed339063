---------------------------- MODULE WorkflowProofs ----------------------------
(***************************************************************************)
(* Proofs about Workflow, for any processes, branches and plans.  What     *)
(* keeps the work of processes apart is that a worktree belongs to the     *)
(* process whose name it has; so most theorems assume that no two          *)
(* processes for a branch begin in one second.                             *)
(***************************************************************************)
EXTENDS Workflow, WellFoundedInduction, TLAPS

-----------------------------------------------------------------------------
(* The loop over the subtasks.                                             *)

\* A nonempty set of natural numbers has a smallest element.
LEMMA SmallestNumber ==
    ASSUME NEW T \in SUBSET Nat, T # {}
    PROVE  \E j \in T : \A k \in T : j <= k
<1>1. IsWellFoundedOn(OpToRel(<, Nat), Nat)
  BY NatLessThanWellFounded
<1>2. PICK j \in T : \A k \in T : <<k, j>> \notin OpToRel(<, Nat)
  BY <1>1, WFMin
<1>3. ASSUME NEW k \in T PROVE j <= k
  BY <1>2, <1>3, <<k, j>> \notin OpToRel(<, Nat), SMT DEF OpToRel
<1> QED
  BY <1>3

\* NextOf is a subtask from i on that must be executed, or the end of the plan,
\* and what it passes over was completed before.
LEMMA NextOfSkipsRestored ==
    ASSUME NEW p \in Procs, NEW n \in 0..MaxTasks, NEW i \in 1..(n + 1)
    PROVE  /\ NextOf(p, i, n) \in i..(n + 1)
           /\ \A j \in i..n : j < NextOf(p, i, n) => j \in restored[p]
<1> DEFINE T == Remaining(p, i, n)
<1> USE WorkflowAssumption
<1>1. T \in SUBSET Nat /\ T \subseteq i..n
  BY DEF Remaining
<1>2. CASE T = {}
  BY <1>2 DEF NextOf, Remaining
<1>3. CASE T # {}
  <2>1. NextOf(p, i, n) \in T /\ \A k \in T : NextOf(p, i, n) <= k
    <3>1. NextOf(p, i, n) = CHOOSE j \in T : \A k \in T : j <= k
      BY <1>3 DEF NextOf
    <3>2. \E j \in T : \A k \in T : j <= k
      BY <1>1, <1>3, SmallestNumber
    <3> HIDE DEF T
    <3> QED
      BY <3>1, <3>2
  <2>2. ASSUME NEW j \in i..n, j < NextOf(p, i, n) PROVE j \notin T
    BY <1>1, <2>1, <2>2
  <2> QED
    BY <1>1, <2>1, <2>2 DEF Remaining
<1> QED
  BY <1>2, <1>3

-----------------------------------------------------------------------------
(* Types.                                                                  *)

LEMMA ResultOfType == \A o \in DOMAIN ResultOf : o \in Outcomes /\ ResultOf[o] \in Results
  BY DEF ResultOf, Outcomes, Results

LEMMA OutcomeType ==
    ASSUME WorkflowTypeOK, NEW p \in Procs, NEW i \in TaskIds, NEW n \in 0..MaxTasks,
           NEW o \in Outcomes, Outcome(p, i, n, o)
    PROVE  outcome' \in [Procs -> [TaskIds -> Outcomes]]
<1> USE WorkflowAssumption
<1>1. outcome[p] \in [TaskIds -> Outcomes]
  BY DEF WorkflowTypeOK
<1>2. [j \in TaskIds |-> IF j = i THEN o ELSE IF j \in (i + 1)..n THEN "skipped"
                         ELSE outcome[p][j]] \in [TaskIds -> Outcomes]
  BY <1>1 DEF Outcomes
<1> QED
  BY <1>2 DEF WorkflowTypeOK, Outcome

\* Where a process is at keeps to the places there are.
LEMMA GoesType ==
    ASSUME WorkflowTypeOK, NEW p \in Procs, NEW place \in Places, Goes(p, place)
    PROVE  pc' \in [Procs -> Places]
  BY DEF WorkflowTypeOK, Goes

LEMMA ReportsType ==
    ASSUME WorkflowTypeOK, NEW p \in Procs, NEW r \in Results, Reports(p, r)
    PROVE  pc' \in [Procs -> Places] /\ result' \in [Procs -> Results]
  BY DEF WorkflowTypeOK, Reports, Goes, Places

\* While the loop over the subtasks runs, it is at one of them.
InPlan == \A p \in Procs : pc[p] = "executing" => next[p] <= plan[p]

\* A process that may change files has a branch, and at work a worktree; only
\* such a process commits and pushes.
Working ==
    {"created", "synced", "planning", "brainstormed", "executing", "reviewing",
     "committing", "pushing", "cleanup"}

Equipped ==
    \A p \in Procs :
        /\ pc[p] # "idle" => opts[p].readOnly \/ branch[p] \in Branches
        /\ pc[p] \in Working => opts[p].readOnly \/ dir[p] # None
        /\ pc[p] \in {"committing", "pushing"} => ~opts[p].readOnly

LEMMA RestoreType ==
    ASSUME WorkflowTypeOK, NEW p \in Procs, Restore(p)
    PROVE  restored' \in [Procs -> SUBSET TaskIds]
<1>1. checkpoint[branch[p]] \in SUBSET TaskIds
  BY DEF WorkflowTypeOK
<1> QED
  BY <1>1 DEF WorkflowTypeOK, Restore

LEMMA TypeInit == Init => WorkflowTypeOK
  BY WorkflowAssumption DEF Init, WorkflowTypeOK, Places, Options, TaskIds, Outcomes, Results

LEMMA TypeStep == WorkflowTypeOK /\ InPlan /\ Equipped /\ [Next]_vars => WorkflowTypeOK'
<1> SUFFICES ASSUME WorkflowTypeOK, InPlan, Equipped, [Next]_vars PROVE WorkflowTypeOK'
  OBVIOUS
<1> USE WorkflowAssumption DEF WorkflowTypeOK
<1>1. ASSUME NEW p \in Procs, Start(p) PROVE WorkflowTypeOK'
  <2>1. opts' \in [Procs -> Options] /\ branch' \in [Procs -> Branches \cup {None}]
    BY <1>1 DEF Start
  <2>2. pc' \in [Procs -> Places] /\ result' \in [Procs -> Results]
    <3>1. "started" \in Places /\ "ended" \in Places /\ "BLOCKED_GIT_SYNC" \in Results
      BY DEF Places, Results
    <3>2. \/ Goes(p, "started") /\ UNCHANGED result
          \/ result' = [result EXCEPT ![p] = "BLOCKED_GIT_SYNC"] /\ Goes(p, "ended")
      BY <1>1 DEF Start
    <3>3. pc' \in [Procs -> Places]
      BY <3>1, <3>2, GoesType
    <3>4. result' \in [Procs -> Results]
      BY <3>1, <3>2
    <3> QED
      BY <3>3, <3>4
  <2> QED
    BY <1>1, <2>1, <2>2 DEF Start, chain, git
<1>2. ASSUME NEW p \in Procs, CreateWorktree(p) PROVE WorkflowTypeOK'
  <2>1. PICK w \in Procs :
           /\ dir' = [dir EXCEPT ![p] = w]
           /\ \/ /\ present' = present \ {w}
                 /\ result' = [result EXCEPT ![p] = "raised"]
                 /\ Goes(p, "ended")
                 /\ UNCHANGED <<on, tip>>
              \/ /\ present' = present \cup {w}
                 /\ on' = [on EXCEPT ![w] = branch[p]]
                 /\ tip' = [tip EXCEPT ![branch[p]] = {}]
                 /\ Goes(p, "created")
                 /\ UNCHANGED result
           /\ edits' = [edits EXCEPT ![w] = {}]
    BY <1>2 DEF CreateWorktree, SameNames
  <2>2. pc' \in [Procs -> Places] /\ result' \in [Procs -> Results]
    <3>1. "ended" \in Places /\ "created" \in Places /\ "raised" \in Results
      BY DEF Places, Results
    <3> QED
      BY <2>1, <3>1, GoesType
  <2>3. /\ dir' \in [Procs -> Procs \cup {None}]
        /\ present' \subseteq Procs
        /\ on' \in [Procs -> Branches \cup {None}]
        /\ edits' \in [Procs -> SUBSET Procs]
        /\ tip' \in [Branches -> SUBSET Procs]
    BY <2>1
  <2>4. restored' \in [Procs -> SUBSET TaskIds]
    BY <1>2, RestoreType DEF CreateWorktree
  <2> QED
    BY <1>2, <2>2, <2>3, <2>4 DEF CreateWorktree, chain
<1>3. ASSUME NEW p \in Procs, UseRepository(p) PROVE WorkflowTypeOK'
  <2>1. pc' \in [Procs -> Places]
    BY <1>3, GoesType, "created" \in Places DEF UseRepository, Places
  <2>2. restored' \in [Procs -> SUBSET TaskIds]
    BY <1>3, RestoreType DEF UseRepository
  <2> QED
    BY <1>3, <2>1, <2>2 DEF UseRepository, chain, git
<1>4. ASSUME NEW p \in Procs, SyncWorkspace(p) PROVE WorkflowTypeOK'
  <2>1. pc' \in [Procs -> Places] /\ result' \in [Procs -> Results]
    <3>1. "synced" \in Places /\ "BLOCKED_GIT_SYNC" \in Results
      BY DEF Places, Results
    <3> QED
      BY <1>4, <3>1, GoesType, ReportsType DEF SyncWorkspace
  <2>2. tip' \in [Branches -> SUBSET Procs]
    BY <1>4 DEF SyncWorkspace
  <2> QED
    BY <1>4, <2>1, <2>2 DEF SyncWorkspace, process, chain
<1>5. ASSUME NEW p \in Procs, NoteStatus(p) PROVE WorkflowTypeOK'
  <2>1. pc' \in [Procs -> Places] /\ result' \in [Procs -> Results]
    <3>1. "planning" \in Places /\ "BLOCKED_PREREQUISITE" \in Results
      BY DEF Places, Results
    <3> QED
      BY <1>5, <3>1, GoesType, ReportsType DEF NoteStatus
  <2>2. before' \in [Procs -> BOOLEAN]
    BY <1>5 DEF NoteStatus, RepoDirty
  <2> QED
    BY <1>5, <2>1, <2>2 DEF NoteStatus, chain, git
<1>6. ASSUME NEW p \in Procs, Brainstorm(p) PROVE WorkflowTypeOK'
  BY <1>6 DEF Brainstorm, SaveCheckpoint, At, Goes, Places, process, chain, git
<1>7. ASSUME NEW p \in Procs, Decompose(p) PROVE WorkflowTypeOK'
  <2>1. PICK n \in 0..MaxTasks : plan' = [plan EXCEPT ![p] = n]
                               /\ next' = [next EXCEPT ![p] = NextOf(p, 1, n)]
                               /\ \/ Goes(p, IF NextOf(p, 1, n) > n THEN "reviewing" ELSE "executing")
                                     /\ UNCHANGED <<outcome, result>>
                                  \/ \E i \in 1..n : /\ Outcome(p, i, n, "blocked")
                                                     /\ Reports(p, "BLOCKED_PREREQUISITE")
    BY <1>7 DEF Decompose
  <2>2. NextOf(p, 1, n) \in 1..(MaxTasks + 1)
    BY NextOfSkipsRestored, 1 \in 1..(n + 1)
  <2>3. pc' \in [Procs -> Places] /\ result' \in [Procs -> Results]
    <3>1. "executing" \in Places /\ "reviewing" \in Places /\ "BLOCKED_PREREQUISITE" \in Results
      BY DEF Places, Results
    <3> QED
      BY <2>1, <3>1, GoesType, ReportsType
  <2>4. outcome' \in [Procs -> [TaskIds -> Outcomes]]
    <3>1. CASE UNCHANGED outcome
      BY <3>1
    <3>2. ASSUME NEW i \in 1..n, Outcome(p, i, n, "blocked")
          PROVE  outcome' \in [Procs -> [TaskIds -> Outcomes]]
      <4>1. i \in TaskIds /\ "blocked" \in Outcomes
        BY DEF TaskIds, Outcomes
      <4> QED
        BY <3>2, <4>1, OutcomeType
    <3> QED
      BY <2>1, <3>1, <3>2
  <2>5. checkpoint' \in [Branches \cup {None} -> SUBSET TaskIds]
    BY <1>7 DEF Decompose, SaveCheckpoint
  <2> QED
    BY <1>7, <2>1, <2>2, <2>3, <2>4, <2>5 DEF Decompose, process, git
<1>8. ASSUME NEW p \in Procs, AgentEdits(p) PROVE WorkflowTypeOK'
  <2>1. repo' \subseteq Procs /\ edits' \in [Procs -> SUBSET Procs]
    BY <1>8 DEF AgentEdits, Edits
  <2> QED
    BY <1>8, <2>1 DEF AgentEdits, process, chain
<1>9. ASSUME NEW p \in Procs, TaskDone(p) PROVE WorkflowTypeOK'
  <2>1. next[p] \in 1..(MaxTasks + 1) /\ plan[p] \in 0..MaxTasks /\ next[p] <= plan[p]
    BY <1>9 DEF TaskDone, At, InPlan
  <2>2. next[p] + 1 \in 1..(plan[p] + 1)
    BY <2>1
  <2>3. NextOf(p, next[p] + 1, plan[p]) \in 1..(MaxTasks + 1)
    BY <2>1, <2>2, NextOfSkipsRestored
  <2>4. pc' \in [Procs -> Places]
    BY <1>9 DEF TaskDone, Goes, Places
  <2>5. outcome' \in [Procs -> [TaskIds -> Outcomes]]
    BY <1>9, "ok" \in Outcomes DEF TaskDone, Outcomes
  <2>6. next' \in [Procs -> 1..(MaxTasks + 1)]
    BY <1>9, <2>3 DEF TaskDone
  <2> QED
    BY <1>9, <2>4, <2>5, <2>6 DEF TaskDone, process, git
<1>10. ASSUME NEW p \in Procs, TaskStops(p) PROVE WorkflowTypeOK'
  <2>1. PICK o \in DOMAIN ResultOf : /\ Outcome(p, next[p], plan[p], o)
                                     /\ Reports(p, ResultOf[o])
    BY <1>10 DEF TaskStops
  <2>2. next[p] \in TaskIds
    BY <1>10 DEF TaskStops, At, InPlan, TaskIds
  <2>3. outcome' \in [Procs -> [TaskIds -> Outcomes]]
    BY <2>1, <2>2, OutcomeType, ResultOfType
  <2>4. pc' \in [Procs -> Places] /\ result' \in [Procs -> Results]
    BY <2>1, ReportsType, ResultOfType
  <2> QED
    BY <1>10, <2>3, <2>4 DEF TaskStops, process, git
<1>11. ASSUME NEW p \in Procs, Raises(p) PROVE WorkflowTypeOK'
  BY <1>11, ReportsType, "raised" \in Results DEF Raises, process, chain, git, Results
<1>12. ASSUME NEW p \in Procs, ReviewReadOnly(p) PROVE WorkflowTypeOK'
  BY <1>12, ReportsType DEF ReviewReadOnly, process, chain, git, Results
<1>13. ASSUME NEW p \in Procs, Review(p) PROVE WorkflowTypeOK'
  BY <1>13, ReportsType, GoesType DEF Review, process, chain, git, Results, Places
<1>14. ASSUME NEW p \in Procs, Commit(p) PROVE WorkflowTypeOK'
  <2>1. pc' \in [Procs -> Places]
    BY <1>14, GoesType, "pushing" \in Places DEF Commit, Places
  <2>2. tip' \in [Branches -> SUBSET Procs] /\ edits' \in [Procs -> SUBSET Procs]
    <3>1. dir[p] \in Procs
      BY <1>14 DEF Commit, At, Equipped, Working
    <3>2. edits[dir[p]] \in SUBSET Procs
      BY <3>1
    <3>3. CASE UNCHANGED <<tip, edits>>
      BY <3>3
    <3>4. CASE /\ tip' = [tip EXCEPT ![branch[p]] = @ \cup edits[dir[p]]]
               /\ edits' = [edits EXCEPT ![dir[p]] = {}]
      BY <3>2, <3>4
    <3> QED
      BY <1>14, <3>3, <3>4 DEF Commit
  <2> QED
    BY <1>14, <2>1, <2>2 DEF Commit, process, chain
<1>15. ASSUME NEW p \in Procs, Push(p) PROVE WorkflowTypeOK'
  BY <1>15, ReportsType DEF Push, process, chain, Results
<1>16. ASSUME NEW p \in Procs, Cleanup(p) PROVE WorkflowTypeOK'
  BY <1>16, GoesType DEF Cleanup, process, chain, Places
<1>17. ASSUME NEW p \in Procs, Crash(p) PROVE WorkflowTypeOK'
  BY <1>17, GoesType DEF Crash, process, chain, git, Places
<1>18. CASE UNCHANGED vars
  BY <1>18 DEF vars, process, chain, git
<1> QED
  BY <1>1, <1>2, <1>3, <1>4, <1>5, <1>6, <1>7, <1>8, <1>9, <1>10, <1>11, <1>12, <1>13,
     <1>14, <1>15, <1>16, <1>17, <1>18 DEF Next

-----------------------------------------------------------------------------
(* Where the processes are.                                                *)

\* Once a process has a result it has only to clean up.
Reported == \A p \in Procs : result[p] # "none" => pc[p] \in {"cleanup", "ended", "dead"}

Control == InPlan /\ Equipped /\ Reported

LEMMA ControlInit == Init => Control
  BY DEF Init, Control, InPlan, Equipped, Reported, Working

LEMMA ControlStep == WorkflowTypeOK /\ Control /\ [Next]_vars => Control'
<1> SUFFICES ASSUME WorkflowTypeOK, Control, [Next]_vars PROVE Control'
  OBVIOUS
<1> USE WorkflowAssumption DEF Control, InPlan, Equipped, Reported, Working, At, Goes, Reports
<1>0. /\ pc \in [Procs -> Places] /\ result \in [Procs -> Results]
      /\ opts \in [Procs -> Options] /\ branch \in [Procs -> Branches \cup {None}]
      /\ dir \in [Procs -> Procs \cup {None}]
      /\ next \in [Procs -> 1..(MaxTasks + 1)] /\ plan \in [Procs -> 0..MaxTasks]
  BY DEF WorkflowTypeOK
<1>1. ASSUME NEW p \in Procs, Start(p) PROVE Control'
  BY <1>0, <1>1 DEF Start, chain
<1>2. ASSUME NEW p \in Procs, CreateWorktree(p) PROVE Control'
  <2>1. dir' \in [Procs -> Procs \cup {None}] /\ dir'[p] \in Procs /\ \A q \in Procs \ {p} : dir'[q] = dir[q]
    BY <1>0, <1>2 DEF CreateWorktree, SameNames
  <2>2. \/ pc' = [pc EXCEPT ![p] = "ended"] /\ result' = [result EXCEPT ![p] = "raised"]
        \/ pc' = [pc EXCEPT ![p] = "created"] /\ UNCHANGED result
    BY <1>2 DEF CreateWorktree
  <2>3. pc[p] = "started" /\ UNCHANGED <<opts, branch, next, plan>>
    BY <1>2 DEF CreateWorktree, chain
  <2> QED
    BY <1>0, <2>1, <2>2, <2>3
<1>3. ASSUME NEW p \in Procs, UseRepository(p) PROVE Control'
  BY <1>0, <1>3 DEF UseRepository, process, chain
<1>4. ASSUME NEW p \in Procs, SyncWorkspace(p) PROVE Control'
  BY <1>0, <1>4 DEF SyncWorkspace, process, chain
<1>5. ASSUME NEW p \in Procs, NoteStatus(p) PROVE Control'
  BY <1>0, <1>5 DEF NoteStatus, chain
<1>6. ASSUME NEW p \in Procs, Brainstorm(p) PROVE Control'
  BY <1>0, <1>6 DEF Brainstorm, process, chain
<1>7. ASSUME NEW p \in Procs, Decompose(p) PROVE Control'
  <2>1. PICK n \in 0..MaxTasks :
           /\ plan' = [plan EXCEPT ![p] = n]
           /\ next' = [next EXCEPT ![p] = NextOf(p, 1, n)]
           /\ \/ /\ pc' = [pc EXCEPT ![p] = IF NextOf(p, 1, n) > n THEN "reviewing" ELSE "executing"]
                 /\ UNCHANGED result
              \/ /\ pc' = [pc EXCEPT ![p] = "cleanup"]
                 /\ result' = [result EXCEPT ![p] = "BLOCKED_PREREQUISITE"]
    BY <1>7 DEF Decompose
  <2>2. NextOf(p, 1, n) \in 1..(n + 1)
    BY NextOfSkipsRestored, 1 \in 1..(n + 1)
  <2>3. pc[p] \in {"planning", "brainstormed"} /\ UNCHANGED <<opts, branch, dir>>
    BY <1>7 DEF Decompose, process
  <2> QED
    BY <1>0, <2>1, <2>2, <2>3
<1>8. ASSUME NEW p \in Procs, AgentEdits(p) PROVE Control'
  BY <1>0, <1>8 DEF AgentEdits, process, chain
<1>9. ASSUME NEW p \in Procs, TaskDone(p) PROVE Control'
  <2> DEFINE following == NextOf(p, next[p] + 1, plan[p])
  <2>1. following \in 1..(plan[p] + 1)
    BY <1>0, <1>9, next[p] + 1 \in 1..(plan[p] + 1), NextOfSkipsRestored DEF TaskDone
  <2>2. /\ pc' = [pc EXCEPT ![p] = IF following > plan[p] THEN "reviewing" ELSE "executing"]
        /\ next' = [next EXCEPT ![p] = following]
        /\ UNCHANGED <<opts, branch, dir, plan, result>> /\ pc[p] = "executing"
    BY <1>9 DEF TaskDone, process
  <2> HIDE DEF following
  <2> QED
    BY <1>0, <2>1, <2>2
<1>10. ASSUME NEW p \in Procs, TaskStops(p) PROVE Control'
  <2>1. PICK r : Reports(p, r)
    BY <1>10 DEF TaskStops
  <2> QED
    BY <1>0, <1>10, <2>1 DEF TaskStops, process
<1>11. ASSUME NEW p \in Procs, Raises(p) PROVE Control'
  BY <1>0, <1>11 DEF Raises, process, chain
<1>12. ASSUME NEW p \in Procs, ReviewReadOnly(p) PROVE Control'
  BY <1>0, <1>12 DEF ReviewReadOnly, process, chain
<1>13. ASSUME NEW p \in Procs, Review(p) PROVE Control'
  BY <1>0, <1>13 DEF Review, process, chain
<1>14. ASSUME NEW p \in Procs, Commit(p) PROVE Control'
  BY <1>0, <1>14 DEF Commit, process, chain
<1>15. ASSUME NEW p \in Procs, Push(p) PROVE Control'
  BY <1>0, <1>15 DEF Push, process, chain
<1>16. ASSUME NEW p \in Procs, Cleanup(p) PROVE Control'
  BY <1>0, <1>16 DEF Cleanup, process, chain
<1>17. ASSUME NEW p \in Procs, Crash(p) PROVE Control'
  BY <1>0, <1>17 DEF Crash, process, chain
<1>18. CASE UNCHANGED vars
  BY <1>18 DEF vars, process, chain
<1> QED
  BY <1>1, <1>2, <1>3, <1>4, <1>5, <1>6, <1>7, <1>8, <1>9, <1>10, <1>11, <1>12, <1>13,
     <1>14, <1>15, <1>16, <1>17, <1>18 DEF Next

\* The types are kept, with what the control of the processes adds to them.
LEMMA Controlled == Spec => [](WorkflowTypeOK /\ Control)
<1>1. Init => WorkflowTypeOK /\ Control
  BY TypeInit, ControlInit
<1>2. WorkflowTypeOK /\ Control /\ [Next]_vars => (WorkflowTypeOK /\ Control)'
  BY TypeStep, ControlStep DEF Control
<1> QED
  BY <1>1, <1>2, PTL DEF Spec

\* Every variable of the processes and of git keeps its type, for any processes,
\* branches and plans, whatever is killed.
THEOREM WorkflowTypes == Spec => []WorkflowTypeOK
  BY Controlled, PTL
-----------------------------------------------------------------------------
(* Success means the whole plan.                                           *)

Success == {"COMPLETED", "WAITING_FOR_APPROVAL"}

\* The loop of a process has come to the end of its plan, or it never will.
PastLoop(p) == pc[p] \in {"reviewing", "committing", "pushing"} \/ result[p] \in Success

\* What is behind the loop is done or was completed before.
Behind ==
    \A p \in Procs :
        /\ pc[p] = "executing" \/ PastLoop(p)
              => \A i \in 1..plan[p] : i < next[p] => outcome[p][i] = "ok" \/ i \in restored[p]
        /\ PastLoop(p) => next[p] > plan[p]

LEMMA BehindSuffices == WorkflowTypeOK /\ Behind => SuccessIsWhole
  BY WorkflowAssumption DEF WorkflowTypeOK, Behind, PastLoop, Success, SuccessIsWhole

LEMMA BehindInit == Init => Behind
  BY DEF Init, Behind, PastLoop, Success

LEMMA BehindStep == WorkflowTypeOK /\ Control /\ Behind /\ [Next]_vars => Behind'
<1> SUFFICES ASSUME WorkflowTypeOK, Control, Behind, [Next]_vars PROVE Behind'
  OBVIOUS
<1> USE WorkflowAssumption DEF Control, Reported, Behind, PastLoop, Success, At, Goes, Reports
<1>0. /\ pc \in [Procs -> Places] /\ result \in [Procs -> Results]
      /\ restored \in [Procs -> SUBSET TaskIds]
      /\ next \in [Procs -> 1..(MaxTasks + 1)] /\ plan \in [Procs -> 0..MaxTasks]
      /\ outcome \in [Procs -> [TaskIds -> Outcomes]]
  BY DEF WorkflowTypeOK
<1>1. ASSUME NEW p \in Procs, Start(p) PROVE Behind'
  BY <1>0, <1>1 DEF Start, chain
<1>2. ASSUME NEW p \in Procs, CreateWorktree(p) PROVE Behind'
  <2>1. \/ pc' = [pc EXCEPT ![p] = "ended"] /\ result' = [result EXCEPT ![p] = "raised"]
        \/ pc' = [pc EXCEPT ![p] = "created"] /\ UNCHANGED result
    BY <1>2 DEF CreateWorktree
  <2>2. pc[p] = "started" /\ \A q \in Procs \ {p} : restored'[q] = restored[q]
    BY <1>0, <1>2 DEF CreateWorktree, Restore
  <2> QED
    BY <1>0, <1>2, <2>1, <2>2 DEF CreateWorktree, chain
<1>3. ASSUME NEW p \in Procs, UseRepository(p) PROVE Behind'
  <2>1. pc[p] = "started" /\ \A q \in Procs \ {p} : restored'[q] = restored[q]
    BY <1>0, <1>3 DEF UseRepository, Restore
  <2> QED
    BY <1>0, <1>3, <2>1 DEF UseRepository, chain
<1>4. ASSUME NEW p \in Procs, SyncWorkspace(p) PROVE Behind'
  BY <1>0, <1>4 DEF SyncWorkspace, process, chain
<1>5. ASSUME NEW p \in Procs, NoteStatus(p) PROVE Behind'
  BY <1>0, <1>5 DEF NoteStatus, chain
<1>6. ASSUME NEW p \in Procs, Brainstorm(p) PROVE Behind'
  BY <1>0, <1>6 DEF Brainstorm, process, chain
<1>7. ASSUME NEW p \in Procs, Decompose(p) PROVE Behind'
  <2>1. PICK n \in 0..MaxTasks :
           /\ plan' = [plan EXCEPT ![p] = n]
           /\ next' = [next EXCEPT ![p] = NextOf(p, 1, n)]
           /\ \/ /\ pc' = [pc EXCEPT ![p] = IF NextOf(p, 1, n) > n THEN "reviewing" ELSE "executing"]
                 /\ UNCHANGED <<outcome, result>>
              \/ /\ pc' = [pc EXCEPT ![p] = "cleanup"]
                 /\ result' = [result EXCEPT ![p] = "BLOCKED_PREREQUISITE"]
                 /\ \A q \in Procs \ {p} : outcome'[q] = outcome[q]
    BY <1>0, <1>7 DEF Decompose, Outcome
  <2>2. /\ NextOf(p, 1, n) \in 1..(n + 1)
        /\ \A j \in 1..n : j < NextOf(p, 1, n) => j \in restored[p]
    BY NextOfSkipsRestored, 1 \in 1..(n + 1)
  <2>3. UNCHANGED restored
    BY <1>7 DEF Decompose, process
  <2>4. ASSUME NEW q \in Procs, q # p
        PROVE  /\ pc'[q] = pc[q] /\ result'[q] = result[q] /\ plan'[q] = plan[q]
               /\ next'[q] = next[q] /\ outcome'[q] = outcome[q]
    BY <1>0, <2>1, <2>4
  <2>5. /\ plan'[p] = n /\ next'[p] = NextOf(p, 1, n)
        /\ pc'[p] \in {"reviewing", "executing", "cleanup"}
        /\ pc'[p] = "cleanup" => result'[p] \notin Success
        /\ pc'[p] = "reviewing" => NextOf(p, 1, n) > n
        /\ pc'[p] = "executing" => result'[p] \notin Success
    BY <1>0, <1>7, <2>1 DEF Decompose
  <2>6. \A i \in 1..plan'[p] : i < next'[p] => i \in restored'[p]
    BY <2>2, <2>3, <2>5
  <2>7. PastLoop(p)' => next'[p] > plan'[p]
    BY <2>5
  <2> QED
    BY <2>3, <2>4, <2>5, <2>6, <2>7
<1>8. ASSUME NEW p \in Procs, AgentEdits(p) PROVE Behind'
  BY <1>0, <1>8 DEF AgentEdits, process, chain
<1>9. ASSUME NEW p \in Procs, TaskDone(p) PROVE Behind'
  <2> DEFINE following == NextOf(p, next[p] + 1, plan[p])
  <2>1. next[p] \in 1..plan[p]
    BY <1>0, <1>9 DEF TaskDone, InPlan
  <2>2. /\ following \in (next[p] + 1)..(plan[p] + 1)
        /\ \A j \in (next[p] + 1)..plan[p] : j < following => j \in restored[p]
    BY <1>0, <2>1, next[p] + 1 \in 1..(plan[p] + 1), NextOfSkipsRestored
  <2>3. /\ pc' = [pc EXCEPT ![p] = IF following > plan[p] THEN "reviewing" ELSE "executing"]
        /\ next' = [next EXCEPT ![p] = following]
        /\ outcome' = [outcome EXCEPT ![p][next[p]] = "ok"]
        /\ UNCHANGED <<restored, plan, result>> /\ pc[p] = "executing"
    BY <1>9 DEF TaskDone, process
  <2>4. next[p] \in TaskIds
    BY <1>0, <2>1 DEF TaskIds
  <2>5. /\ outcome'[p][next[p]] = "ok"
        /\ \A i \in TaskIds \ {next[p]} : outcome'[p][i] = outcome[p][i]
    BY <1>0, <2>3, <2>4
  <2> HIDE DEF following
  <2>6. ASSUME NEW i \in 1..plan[p], i < following
        PROVE  outcome'[p][i] = "ok" \/ i \in restored[p]
    <3>1. i \in TaskIds
      BY <1>0 DEF TaskIds
    <3>2. CASE i < next[p]
      <4>1. i # next[p] /\ i \in 1..plan[p]
        BY <1>0, <2>1, <3>2
      <4>2. outcome[p][i] = "ok" \/ i \in restored[p]
        BY <2>3, <3>2
      <4> QED
        BY <2>5, <3>1, <4>1, <4>2
    <3>3. CASE i = next[p]
      BY <2>5, <3>3
    <3>4. CASE i > next[p]
      <4>1. i \in (next[p] + 1)..plan[p]
        BY <1>0, <2>1, <3>4
      <4> QED
        BY <2>2, <2>6, <4>1
    <3>5. i \in Int /\ next[p] \in Int
      BY <2>1
    <3> QED
      BY <3>2, <3>3, <3>4, <3>5
  <2>7. ASSUME NEW q \in Procs, q # p
        PROVE  /\ pc'[q] = pc[q] /\ result'[q] = result[q] /\ plan'[q] = plan[q]
               /\ next'[q] = next[q] /\ outcome'[q] = outcome[q]
    BY <1>0, <2>3, <2>7
  <2>8. /\ plan'[p] = plan[p] /\ next'[p] = following
        /\ pc'[p] = IF following > plan[p] THEN "reviewing" ELSE "executing"
        /\ result'[p] = result[p] /\ result[p] \notin Success
    BY <1>0, <2>3
  <2>9. PastLoop(p)' => next'[p] > plan'[p]
    BY <2>8
  <2> QED
    BY <2>3, <2>6, <2>7, <2>8, <2>9
<1>10. ASSUME NEW p \in Procs, TaskStops(p) PROVE Behind'
  <2>1. PICK o \in DOMAIN ResultOf : /\ Outcome(p, next[p], plan[p], o)
                                     /\ Reports(p, ResultOf[o])
    BY <1>10 DEF TaskStops
  <2>2. ResultOf[o] \notin Success
    BY <2>1 DEF ResultOf
  <2>3. \A q \in Procs \ {p} : outcome'[q] = outcome[q]
    BY <1>0, <2>1 DEF Outcome
  <2> QED
    BY <1>0, <1>10, <2>1, <2>2, <2>3 DEF TaskStops, process
<1>11. ASSUME NEW p \in Procs, Raises(p) PROVE Behind'
  BY <1>0, <1>11 DEF Raises, process, chain
<1>12. ASSUME NEW p \in Procs, ReviewReadOnly(p) PROVE Behind'
  BY <1>0, <1>12 DEF ReviewReadOnly, process, chain
<1>13. ASSUME NEW p \in Procs, Review(p) PROVE Behind'
  BY <1>0, <1>13 DEF Review, process, chain
<1>14. ASSUME NEW p \in Procs, Commit(p) PROVE Behind'
  BY <1>0, <1>14 DEF Commit, process, chain
<1>15. ASSUME NEW p \in Procs, Push(p) PROVE Behind'
  BY <1>0, <1>15 DEF Push, process, chain
<1>16. ASSUME NEW p \in Procs, Cleanup(p) PROVE Behind'
  BY <1>0, <1>16 DEF Cleanup, process, chain
<1>17. ASSUME NEW p \in Procs, Crash(p) PROVE Behind'
  BY <1>0, <1>17 DEF Crash, process, chain
<1>18. CASE UNCHANGED vars
  BY <1>18 DEF vars, process, chain
<1> QED
  BY <1>1, <1>2, <1>3, <1>4, <1>5, <1>6, <1>7, <1>8, <1>9, <1>10, <1>11, <1>12, <1>13,
     <1>14, <1>15, <1>16, <1>17, <1>18 DEF Next

\* A process that reports success, or work that waits for an approval, has every
\* subtask of its plan done; in whatever order processes work, fail and are killed.
THEOREM SuccessMeansWhole == Spec => []SuccessIsWhole
<1>1. WorkflowTypeOK /\ Control /\ Behind /\ [Next]_vars => Behind'
  BY BehindStep
<1> QED
  BY <1>1, Controlled, BehindInit, BehindSuffices, PTL DEF Spec

-----------------------------------------------------------------------------
(* A read-only process.                                                    *)

LEMMA HonestStep ==
    WorkflowTypeOK /\ Control /\ Behind /\ ReadOnlyIsHonest /\ [Next]_vars => ReadOnlyIsHonest'
<1> SUFFICES ASSUME WorkflowTypeOK, Control, Behind, ReadOnlyIsHonest, [Next]_vars
             PROVE  ReadOnlyIsHonest'
  OBVIOUS
<1> USE DEF ReadOnlyIsHonest, Control, Reported, At, Goes, Reports
<1>0. /\ pc \in [Procs -> Places] /\ result \in [Procs -> Results] /\ opts \in [Procs -> Options]
      /\ before \in [Procs -> BOOLEAN]
  BY DEF WorkflowTypeOK
<1>1. ASSUME NEW p \in Procs, Start(p) PROVE ReadOnlyIsHonest'
  BY <1>0, <1>1 DEF Start, git
<1>2. ASSUME NEW p \in Procs, CreateWorktree(p) PROVE ReadOnlyIsHonest'
  BY <1>0, <1>2 DEF CreateWorktree
<1>3. ASSUME NEW p \in Procs, UseRepository(p) PROVE ReadOnlyIsHonest'
  BY <1>0, <1>3 DEF UseRepository, process, git
<1>4. ASSUME NEW p \in Procs, SyncWorkspace(p) PROVE ReadOnlyIsHonest'
  BY <1>0, <1>4 DEF SyncWorkspace, process
<1>5. ASSUME NEW p \in Procs, NoteStatus(p) PROVE ReadOnlyIsHonest'
  BY <1>0, <1>5 DEF NoteStatus, git
<1>6. ASSUME NEW p \in Procs, Brainstorm(p) PROVE ReadOnlyIsHonest'
  BY <1>0, <1>6 DEF Brainstorm, process, git
<1>7. ASSUME NEW p \in Procs, Decompose(p) PROVE ReadOnlyIsHonest'
  <2>1. UNCHANGED result \/ result' = [result EXCEPT ![p] = "BLOCKED_PREREQUISITE"]
    BY <1>7 DEF Decompose
  <2> QED
    BY <1>0, <1>7, <2>1 DEF Decompose, process, git
<1>8. ASSUME NEW p \in Procs, AgentEdits(p) PROVE ReadOnlyIsHonest'
  <2>1. UNCHANGED <<opts, result, before>> /\ repo' \subseteq repo \cup {p}
    BY <1>8 DEF AgentEdits, Edits, process
  <2>2. result[p] # "COMPLETED"
    <3>1. next[p] \in Nat /\ plan[p] \in Nat /\ next[p] <= plan[p]
      BY <1>8, WorkflowAssumption DEF AgentEdits, WorkflowTypeOK
    <3> QED
      BY <3>1 DEF Behind, PastLoop, Success
  <2> QED
    BY <2>1, <2>2
<1>9. ASSUME NEW p \in Procs, TaskDone(p) PROVE ReadOnlyIsHonest'
  BY <1>0, <1>9 DEF TaskDone, process, git
<1>10. ASSUME NEW p \in Procs, TaskStops(p) PROVE ReadOnlyIsHonest'
  <2>1. PICK o \in DOMAIN ResultOf : Reports(p, ResultOf[o])
    BY <1>10 DEF TaskStops
  <2>2. ResultOf[o] # "COMPLETED"
    BY <2>1 DEF ResultOf
  <2> QED
    BY <1>0, <1>10, <2>1, <2>2 DEF TaskStops, process, git
<1>11. ASSUME NEW p \in Procs, Raises(p) PROVE ReadOnlyIsHonest'
  BY <1>0, <1>11 DEF Raises, process, git
<1>12. ASSUME NEW p \in Procs, ReviewReadOnly(p) PROVE ReadOnlyIsHonest'
  <2>1. UNCHANGED <<opts, before, repo>>
    BY <1>12 DEF ReviewReadOnly, process, git
  <2>2. CASE RepoDirty /\ Reports(p, "FAILED")
    BY <1>0, <2>1, <2>2
  <2>3. CASE RepoDirty = before[p] /\ Reports(p, "COMPLETED")
    <3>1. ~before[p] => repo = {}
      BY <2>3, Zenon DEF RepoDirty
    <3> QED
      BY <1>0, <2>1, <2>3, <3>1
  <2> QED
    BY <1>12, <2>2, <2>3 DEF ReviewReadOnly
<1>13. ASSUME NEW p \in Procs, Review(p) PROVE ReadOnlyIsHonest'
  BY <1>0, <1>13 DEF Review, process, git
<1>14. ASSUME NEW p \in Procs, Commit(p) PROVE ReadOnlyIsHonest'
  BY <1>0, <1>14 DEF Commit, process
<1>15. ASSUME NEW p \in Procs, Push(p) PROVE ReadOnlyIsHonest'
  <2>1. ~opts[p].readOnly
    BY <1>15 DEF Push, Equipped
  <2> QED
    BY <1>0, <1>15, <2>1 DEF Push, process
<1>16. ASSUME NEW p \in Procs, Cleanup(p) PROVE ReadOnlyIsHonest'
  BY <1>0, <1>16 DEF Cleanup, process
<1>17. ASSUME NEW p \in Procs, Crash(p) PROVE ReadOnlyIsHonest'
  BY <1>0, <1>17 DEF Crash, process, git
<1>18. CASE UNCHANGED vars
  BY <1>18 DEF vars, process, git
<1> QED
  BY <1>1, <1>2, <1>3, <1>4, <1>5, <1>6, <1>7, <1>8, <1>9, <1>10, <1>11, <1>12, <1>13,
     <1>14, <1>15, <1>16, <1>17, <1>18 DEF Next

\* A read-only process that noted a clean repository and reports success has not
\* changed the repository, and never will.
THEOREM ReadOnlyLeavesAlone == Spec => []ReadOnlyIsHonest
<1>1. Init => ReadOnlyIsHonest
  BY DEF Init, ReadOnlyIsHonest
<1> QED
  BY <1>1, HonestStep, BehindStep, Controlled, BehindInit, PTL DEF Spec

-----------------------------------------------------------------------------
(* A worktree belongs to the process it is named after.                    *)

\* Before it has created a worktree a process has none, afterwards its own.
OwnDir ==
    \A p \in Procs : dir[p] \in {p, None} /\ (pc[p] \in {"idle", "started"} => dir[p] = None)

\* A worktree has the branch of its process checked out.
OwnBranch ==
    \A q \in present : dir[q] = q /\ on[q] = branch[q] /\ branch[q] \in Branches

\* Uncommitted edits are those of the process, in a worktree that exists.
OwnEdits ==
    \A q \in Procs : edits[q] \subseteq {q} /\ (edits[q] # {} => q \in present)

Worktrees == OwnDir /\ OwnBranch /\ OwnEdits

LEMMA WorktreesInit == Init => Worktrees
  BY DEF Init, Worktrees, OwnDir, OwnBranch, OwnEdits

LEMMA WorktreesStep ==
    ASSUME ~SameSecond
    PROVE  WorkflowTypeOK /\ Control /\ Worktrees /\ [Next]_vars => Worktrees'
<1> SUFFICES ASSUME WorkflowTypeOK, Control, Worktrees, [Next]_vars PROVE Worktrees'
  OBVIOUS
<1> USE WorkflowAssumption DEF Worktrees, OwnDir, OwnBranch, OwnEdits, At, Goes, Reports
<1>0. /\ pc \in [Procs -> Places] /\ branch \in [Procs -> Branches \cup {None}]
      /\ dir \in [Procs -> Procs \cup {None}] /\ present \subseteq Procs
      /\ on \in [Procs -> Branches \cup {None}] /\ edits \in [Procs -> SUBSET Procs]
  BY DEF WorkflowTypeOK
<1>1. ASSUME NEW p \in Procs, Start(p) PROVE Worktrees'
  <2>1. p \notin present
    BY <1>0, <1>1 DEF Start
  <2> QED
    BY <1>0, <1>1, <2>1 DEF Start, git
<1>2. ASSUME NEW p \in Procs, CreateWorktree(p) PROVE Worktrees'
  <2>1. /\ dir' = [dir EXCEPT ![p] = p]
        /\ edits' = [edits EXCEPT ![p] = {}]
        /\ \/ /\ present' = present \ {p} /\ UNCHANGED on
              /\ pc' = [pc EXCEPT ![p] = "ended"]
           \/ /\ present' = present \cup {p} /\ on' = [on EXCEPT ![p] = branch[p]]
              /\ pc' = [pc EXCEPT ![p] = "created"]
    BY <1>2 DEF CreateWorktree, SameNames
  <2>2. UNCHANGED branch /\ branch[p] \in Branches /\ pc[p] = "started"
    BY <1>2 DEF CreateWorktree, Control, Equipped
  <2>3. OwnDir'
    BY <1>0, <2>1, <2>2
  <2>4. OwnBranch'
    BY <1>0, <2>1, <2>2
  <2>5. OwnEdits'
    BY <1>0, <2>1, <2>2
  <2> QED
    BY <2>3, <2>4, <2>5
<1>3. ASSUME NEW p \in Procs, UseRepository(p) PROVE Worktrees'
  <2>1. UNCHANGED <<branch, dir, present, on, edits>> /\ pc' = [pc EXCEPT ![p] = "created"]
    BY <1>3 DEF UseRepository, process, git
  <2> QED
    BY <1>0, <2>1
<1>4. ASSUME NEW p \in Procs, SyncWorkspace(p) PROVE Worktrees'
  BY <1>0, <1>4 DEF SyncWorkspace, process
<1>5. ASSUME NEW p \in Procs, NoteStatus(p) PROVE Worktrees'
  BY <1>0, <1>5 DEF NoteStatus, git
<1>6. ASSUME NEW p \in Procs, Brainstorm(p) PROVE Worktrees'
  BY <1>0, <1>6 DEF Brainstorm, process, git
<1>7. ASSUME NEW p \in Procs, Decompose(p) PROVE Worktrees'
  <2>1. PICK place \in {"reviewing", "executing", "cleanup"} : pc' = [pc EXCEPT ![p] = place]
    BY <1>7 DEF Decompose
  <2> QED
    BY <1>0, <1>7, <2>1 DEF Decompose, process, git
<1>8. ASSUME NEW p \in Procs, AgentEdits(p) PROVE Worktrees'
  <2>1. UNCHANGED <<pc, branch, dir, present, on>>
    BY <1>8 DEF AgentEdits, process
  <2>2. OwnEdits'
    BY <1>0, <1>8 DEF AgentEdits, Edits
  <2> QED
    BY <2>1, <2>2
<1>9. ASSUME NEW p \in Procs, TaskDone(p) PROVE Worktrees'
  <2>1. PICK place \in {"reviewing", "executing"} : pc' = [pc EXCEPT ![p] = place]
    BY <1>9 DEF TaskDone
  <2> QED
    BY <1>0, <1>9, <2>1 DEF TaskDone, process, git
<1>10. ASSUME NEW p \in Procs, TaskStops(p) PROVE Worktrees'
  <2>1. pc' = [pc EXCEPT ![p] = "cleanup"]
    BY <1>10 DEF TaskStops
  <2> QED
    BY <1>0, <1>10, <2>1 DEF TaskStops, process, git
<1>11. ASSUME NEW p \in Procs, Raises(p) PROVE Worktrees'
  BY <1>0, <1>11 DEF Raises, process, git
<1>12. ASSUME NEW p \in Procs, ReviewReadOnly(p) PROVE Worktrees'
  BY <1>0, <1>12 DEF ReviewReadOnly, process, git
<1>13. ASSUME NEW p \in Procs, Review(p) PROVE Worktrees'
  BY <1>0, <1>13 DEF Review, process, git
<1>14. ASSUME NEW p \in Procs, Commit(p) PROVE Worktrees'
  <2>1. UNCHANGED <<branch, dir, present, on>> /\ pc' = [pc EXCEPT ![p] = "pushing"]
    BY <1>14 DEF Commit, process
  <2>2. OwnEdits'
    BY <1>0, <1>14 DEF Commit
  <2> QED
    BY <1>0, <2>1, <2>2
<1>15. ASSUME NEW p \in Procs, Push(p) PROVE Worktrees'
  BY <1>0, <1>15 DEF Push, process
<1>16. ASSUME NEW p \in Procs, Cleanup(p) PROVE Worktrees'
  <2>1. /\ UNCHANGED <<branch, dir, on, edits>> /\ pc' = [pc EXCEPT ![p] = "ended"]
        /\ present' = present \/ (edits[dir[p]] = {} /\ present' = present \ {dir[p]})
    BY <1>16 DEF Cleanup, process
  <2> QED
    BY <1>0, <2>1
<1>17. ASSUME NEW p \in Procs, Crash(p) PROVE Worktrees'
  BY <1>0, <1>17 DEF Crash, process, git
<1>18. CASE UNCHANGED vars
  BY <1>18 DEF vars, process, git
<1> QED
  BY <1>1, <1>2, <1>3, <1>4, <1>5, <1>6, <1>7, <1>8, <1>9, <1>10, <1>11, <1>12, <1>13,
     <1>14, <1>15, <1>16, <1>17, <1>18 DEF Next

LEMMA WorktreesKept ==
    ASSUME ~SameSecond
    PROVE  Spec => [](WorkflowTypeOK /\ Control /\ Worktrees)
<1>1. WorkflowTypeOK /\ Control /\ Worktrees /\ [Next]_vars => Worktrees'
  BY WorktreesStep
<1> QED
  BY <1>1, WorktreesInit, Controlled, PTL DEF Spec

\* If no two processes for a branch begin in one second, an uncommitted edit stays
\* where it is until it is committed: no cleanup, no other process and no crash
\* takes it away.
THEOREM UncommittedWorkStays ==
    ASSUME ~SameSecond
    PROVE  Spec => UncommittedWorkIsKept
<1> DEFINE Keeps ==
      \A p, q \in Procs :
          p \in edits[q] => \/ q \in present' /\ p \in edits'[q]
                            \/ p \in tip'[on[q]]
<1>1. WorkflowTypeOK /\ Control /\ Worktrees /\ [Next]_vars => [Keeps]_vars
  <2> SUFFICES ASSUME WorkflowTypeOK, Control, Worktrees, Next,
                      NEW a \in Procs, NEW q \in Procs, a \in edits[q]
               PROVE  (q \in present' /\ a \in edits'[q]) \/ a \in tip'[on[q]]
    OBVIOUS
  <2> USE DEF Worktrees, OwnDir, OwnBranch, OwnEdits
  <2>0. /\ edits \in [Procs -> SUBSET Procs] /\ tip \in [Branches -> SUBSET Procs]
        /\ q \in present /\ dir[q] = q /\ on[q] = branch[q] /\ on[q] \in Branches
    BY DEF WorkflowTypeOK
  <2>1. ASSUME NEW p \in Procs, CreateWorktree(p)
        PROVE  q \in present' /\ a \in edits'[q]
    <3>1. dir[p] = None /\ p # q
      BY <2>0, <2>1, WorkflowAssumption DEF CreateWorktree, At
    <3> QED
      BY <2>0, <2>1, <3>1 DEF CreateWorktree, SameNames
  <2>2. ASSUME NEW p \in Procs, AgentEdits(p)
        PROVE  q \in present' /\ a \in edits'[q]
    BY <2>0, <2>2 DEF AgentEdits, Edits
  <2>3. ASSUME NEW p \in Procs, Commit(p)
        PROVE  (q \in present' /\ a \in edits'[q]) \/ a \in tip'[on[q]]
    <3>1. UNCHANGED present
      BY <2>3 DEF Commit
    <3>2. CASE dir[p] = q
      <4>1. p = q /\ branch[p] = on[q]
        BY <2>0, <3>2, WorkflowAssumption
      <4> QED
        BY <2>0, <2>3, <3>1, <4>1 DEF Commit
    <3>3. CASE dir[p] # q
      BY <2>0, <2>3, <3>1, <3>3 DEF Commit
    <3> QED
      BY <3>2, <3>3
  <2>4. ASSUME NEW p \in Procs, Cleanup(p)
        PROVE  q \in present' /\ a \in edits'[q]
    BY <2>0, <2>4 DEF Cleanup
  <2>5. ASSUME NEW p \in Procs,
               \/ Start(p) \/ UseRepository(p) \/ SyncWorkspace(p) \/ NoteStatus(p)
               \/ Brainstorm(p) \/ Decompose(p) \/ TaskDone(p) \/ TaskStops(p) \/ Raises(p)
               \/ ReviewReadOnly(p) \/ Review(p) \/ Push(p) \/ Crash(p)
        PROVE  q \in present' /\ a \in edits'[q]
    BY <2>0, <2>5 DEF Start, UseRepository, SyncWorkspace, NoteStatus, Brainstorm, Decompose,
         TaskDone, TaskStops, Raises, ReviewReadOnly, Review, Push, Crash, git
  <2> QED
    BY <2>1, <2>2, <2>3, <2>4, <2>5 DEF Next
<1>2. Spec => [][Keeps]_vars
  BY <1>1, WorktreesKept, PTL DEF Spec
<1> QED
  BY <1>2 DEF UncommittedWorkIsKept

-----------------------------------------------------------------------------
(* Approvals.                                                              *)

LEMMA WaitingStep ==
    ASSUME ~SameSecond
    PROVE  WorkflowTypeOK /\ Control /\ Worktrees /\ WaitingWorkIsThere /\ [Next]_vars
              => WaitingWorkIsThere'
<1> SUFFICES ASSUME WorkflowTypeOK, Control, Worktrees, WaitingWorkIsThere, [Next]_vars,
                    NEW a \in Procs, result'[a] = "WAITING_FOR_APPROVAL"
             PROVE  dir'[a] \in present' /\ a \in edits'[dir'[a]] /\ on'[dir'[a]] = branch'[a]
  BY DEF WaitingWorkIsThere
<1> USE WorkflowAssumption DEF Control, Reported, Worktrees, OwnDir, OwnEdits, At, Goes, Reports
<1> DEFINE There == dir'[a] \in present' /\ a \in edits'[dir'[a]] /\ on'[dir'[a]] = branch'[a]
<1>0. /\ pc \in [Procs -> Places] /\ result \in [Procs -> Results]
      /\ branch \in [Procs -> Branches \cup {None}]
      /\ dir \in [Procs -> Procs \cup {None}] /\ present \subseteq Procs
      /\ on \in [Procs -> Branches \cup {None}] /\ edits \in [Procs -> SUBSET Procs]
  BY DEF WorkflowTypeOK
\* A process that waited before has its work, and has only to clean up.
<1>1. ASSUME result[a] = "WAITING_FOR_APPROVAL"
      PROVE  /\ dir[a] = a /\ a \in present /\ a \in edits[a] /\ on[a] = branch[a]
             /\ pc[a] \in {"cleanup", "ended", "dead"}
  BY <1>0, <1>1 DEF WaitingWorkIsThere
<1>2. ASSUME NEW p \in Procs, Start(p) PROVE There
  <2>1. result[a] = "WAITING_FOR_APPROVAL"
    BY <1>0, <1>2 DEF Start
  <2> QED
    BY <1>0, <1>1, <1>2, <2>1 DEF Start, git
<1>3. ASSUME NEW p \in Procs, CreateWorktree(p) PROVE There
  <2>1. result[a] = "WAITING_FOR_APPROVAL"
    BY <1>0, <1>3 DEF CreateWorktree
  <2>2. p # a
    BY <1>1, <1>3, <2>1 DEF CreateWorktree
  <2>3. /\ dir' = [dir EXCEPT ![p] = p] /\ edits' = [edits EXCEPT ![p] = {}]
        /\ present \ {p} \subseteq present' /\ UNCHANGED branch
        /\ on' = on \/ on' = [on EXCEPT ![p] = branch[p]]
    BY <1>3 DEF CreateWorktree, SameNames
  <2> QED
    BY <1>0, <1>1, <2>1, <2>2, <2>3
<1>4. ASSUME NEW p \in Procs, AgentEdits(p) PROVE There
  BY <1>0, <1>1, <1>4 DEF AgentEdits, Edits, process
<1>5. ASSUME NEW p \in Procs, Review(p) PROVE There
  <2>1. CASE result[a] = "WAITING_FOR_APPROVAL"
    BY <1>0, <1>1, <1>5, <2>1 DEF Review, process, git
  <2>2. CASE result[a] # "WAITING_FOR_APPROVAL"
    <3>1. p = a /\ edits[dir[a]] # {} /\ UNCHANGED <<process, git>>
      BY <1>0, <1>5, <2>2 DEF Review
    <3>2. dir[a] = a
      BY <1>5, <3>1 DEF Review, Equipped, Working
    <3> QED
      BY <1>0, <3>1, <3>2 DEF OwnBranch, process, git
  <2> QED
    BY <2>1, <2>2
<1>6. ASSUME NEW p \in Procs, Commit(p) PROVE There
  <2>1. result[a] = "WAITING_FOR_APPROVAL"
    BY <1>6 DEF Commit
  <2>2. dir[p] # a
    BY <1>1, <1>6, <2>1 DEF Commit
  <2> QED
    BY <1>0, <1>1, <1>6, <2>1, <2>2 DEF Commit, process
<1>7. ASSUME NEW p \in Procs, Cleanup(p) PROVE There
  <2>1. result[a] = "WAITING_FOR_APPROVAL"
    BY <1>7 DEF Cleanup
  <2> QED
    BY <1>0, <1>1, <1>7, <2>1 DEF Cleanup, process
<1>8. ASSUME NEW p \in Procs, TaskStops(p) PROVE There
  <2>1. PICK o \in DOMAIN ResultOf : Reports(p, ResultOf[o])
    BY <1>8 DEF TaskStops
  <2>2. ResultOf[o] # "WAITING_FOR_APPROVAL"
    BY <2>1 DEF ResultOf
  <2> QED
    BY <1>0, <1>1, <1>8, <2>1, <2>2 DEF TaskStops, process, git
<1>9. ASSUME NEW p \in Procs,
             \/ UseRepository(p) \/ SyncWorkspace(p) \/ NoteStatus(p) \/ Brainstorm(p)
             \/ Decompose(p) \/ TaskDone(p) \/ Raises(p) \/ ReviewReadOnly(p) \/ Push(p) \/ Crash(p)
      PROVE  There
  <2>1. UNCHANGED <<branch, dir, present, on, edits>>
    BY <1>9 DEF UseRepository, SyncWorkspace, NoteStatus, Brainstorm, Decompose, TaskDone, Raises,
         ReviewReadOnly, Push, Crash, process, git
  <2>2. result[a] = "WAITING_FOR_APPROVAL"
    BY <1>0, <1>9 DEF UseRepository, SyncWorkspace, NoteStatus, Brainstorm, Decompose, TaskDone,
         Raises, ReviewReadOnly, Push, Crash
  <2> QED
    BY <1>1, <2>1, <2>2
<1>10. CASE UNCHANGED vars
  BY <1>1, <1>10 DEF vars, process, git
<1> QED
  BY <1>2, <1>3, <1>4, <1>5, <1>6, <1>7, <1>8, <1>9, <1>10 DEF Next

\* If no two processes for a branch begin in one second, the work that waits for
\* an approval is in its worktree, on its branch, for ever after.
THEOREM WaitingWorkStays ==
    ASSUME ~SameSecond
    PROVE  Spec => []WaitingWorkIsThere
<1>1. Init => WaitingWorkIsThere
  BY DEF Init, WaitingWorkIsThere
<1>2. WorkflowTypeOK /\ Control /\ Worktrees /\ WaitingWorkIsThere /\ [Next]_vars
         => WaitingWorkIsThere'
  BY WaitingStep
<1> QED
  BY <1>1, <1>2, WorktreesKept, PTL DEF Spec

\* What is committed or pushed is of processes that may push without asking.
MayPush(p) == opts[p].push /\ ~opts[p].approval

Approved ==
    /\ \A p \in Procs : pc[p] \in {"committing", "pushing"} => MayPush(p)
    /\ \A b \in Branches : \A p \in tip[b] \cup pushed[b] :
          branch[p] = b /\ MayPush(p) /\ pc[p] # "idle"

LEMMA ApprovedStep ==
    ASSUME ~SameSecond
    PROVE  WorkflowTypeOK /\ Control /\ Worktrees /\ Approved /\ [Next]_vars => Approved'
<1> SUFFICES ASSUME WorkflowTypeOK, Control, Worktrees, Approved, [Next]_vars PROVE Approved'
  OBVIOUS
<1> USE WorkflowAssumption DEF Approved, MayPush, At, Goes, Reports
<1>0. /\ pc \in [Procs -> Places] /\ opts \in [Procs -> Options]
      /\ branch \in [Procs -> Branches \cup {None}]
      /\ tip \in [Branches -> SUBSET Procs] /\ pushed \in [Branches -> SUBSET Procs]
  BY DEF WorkflowTypeOK
<1>1. ASSUME NEW p \in Procs, Start(p) PROVE Approved'
  <2>1. \A b \in Branches : p \notin tip[b] \cup pushed[b]
    BY <1>0, <1>1 DEF Start
  <2>2. /\ UNCHANGED <<tip, pushed>> /\ pc'[p] \in {"started", "ended"}
        /\ \A q \in Procs \ {p} : opts'[q] = opts[q] /\ branch'[q] = branch[q] /\ pc'[q] = pc[q]
    BY <1>0, <1>1 DEF Start, git
  <2> QED
    BY <1>0, <2>1, <2>2
<1>2. ASSUME NEW p \in Procs, CreateWorktree(p) PROVE Approved'
  <2>1. /\ UNCHANGED <<opts, branch, pushed>>
        /\ pc' = [pc EXCEPT ![p] = "ended"] \/ pc' = [pc EXCEPT ![p] = "created"]
        /\ tip' = tip \/ tip' = [tip EXCEPT ![branch[p]] = {}]
    BY <1>2 DEF CreateWorktree
  <2>2. \A b \in Branches : tip'[b] \subseteq tip[b]
    BY <1>0, <2>1
  <2> QED
    BY <1>0, <2>1, <2>2
<1>3. ASSUME NEW p \in Procs, UseRepository(p) PROVE Approved'
  BY <1>0, <1>3 DEF UseRepository, process, git
<1>4. ASSUME NEW p \in Procs, SyncWorkspace(p) PROVE Approved'
  <2>1. /\ UNCHANGED <<opts, branch, pushed>>
        /\ pc' = [pc EXCEPT ![p] = "synced"] \/ pc' = [pc EXCEPT ![p] = "cleanup"]
    BY <1>4 DEF SyncWorkspace, process
  <2>2. \A b \in Branches : tip'[b] \subseteq tip[b] \cup pushed[b]
    BY <1>0, <1>4 DEF SyncWorkspace
  <2> QED
    BY <1>0, <2>1, <2>2
<1>5. ASSUME NEW p \in Procs, Review(p) PROVE Approved'
  BY <1>0, <1>5 DEF Review, process, git
<1>6. ASSUME NEW p \in Procs, Commit(p) PROVE Approved'
  <2>1. UNCHANGED <<opts, branch, pushed>> /\ pc' = [pc EXCEPT ![p] = "pushing"]
    BY <1>6 DEF Commit, process
  <2>2. dir[p] = p /\ MayPush(p) /\ pc[p] # "idle"
    BY <1>6 DEF Commit, Control, Equipped, Working, Worktrees, OwnDir
  <2>3. edits[dir[p]] \subseteq {p}
    BY <2>2 DEF Worktrees, OwnEdits
  <2>4. \A b \in Branches : tip'[b] \subseteq tip[b] \cup (IF b = branch[p] THEN {p} ELSE {})
    BY <1>0, <1>6, <2>3 DEF Commit
  <2> QED
    BY <1>0, <2>1, <2>2, <2>4
<1>7. ASSUME NEW p \in Procs, Push(p) PROVE Approved'
  <2>1. UNCHANGED <<opts, branch, tip>> /\ pc' = [pc EXCEPT ![p] = "cleanup"]
    BY <1>7 DEF Push, process
  <2>2. \A b \in Branches : pushed'[b] \subseteq tip[b] \cup pushed[b]
    BY <1>0, <1>7 DEF Push
  <2> QED
    BY <1>0, <2>1, <2>2
<1>8. ASSUME NEW p \in Procs,
             \/ NoteStatus(p) \/ Brainstorm(p) \/ Decompose(p) \/ AgentEdits(p) \/ TaskDone(p)
             \/ TaskStops(p) \/ Raises(p) \/ ReviewReadOnly(p) \/ Cleanup(p) \/ Crash(p)
      PROVE  Approved'
  <2>1. UNCHANGED <<opts, branch, tip, pushed>>
    BY <1>8 DEF NoteStatus, Brainstorm, Decompose, AgentEdits, TaskDone, TaskStops, Raises,
         ReviewReadOnly, Cleanup, Crash, process, git
  <2>2. \A q \in Procs : \/ pc'[q] = pc[q]
                         \/ pc'[q] \notin {"idle", "committing", "pushing"}
    BY <1>0, <1>8 DEF NoteStatus, Brainstorm, Decompose, AgentEdits, TaskDone, TaskStops, Raises,
         ReviewReadOnly, Cleanup, Crash
  <2> QED
    BY <1>0, <2>1, <2>2
<1>9. CASE UNCHANGED vars
  BY <1>9 DEF vars, process, git
<1> QED
  BY <1>1, <1>2, <1>3, <1>4, <1>5, <1>6, <1>7, <1>8, <1>9 DEF Next

\* If no two processes for a branch begin in one second, the remote has only work
\* that its process was told to push without an approval.
THEOREM PushedIsApproved ==
    ASSUME ~SameSecond
    PROVE  Spec => []OnlyApprovedIsPushed
<1>1. Init => Approved
  BY DEF Init, Approved
<1>2. WorkflowTypeOK /\ Control /\ Worktrees /\ Approved /\ [Next]_vars => Approved'
  BY ApprovedStep
<1>3. Approved => OnlyApprovedIsPushed
  BY DEF Approved, MayPush, OnlyApprovedIsPushed
<1> QED
  BY <1>1, <1>2, <1>3, WorktreesKept, PTL DEF Spec
=============================================================================
