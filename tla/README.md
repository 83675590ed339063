# Formal model of the Taktstock server

TLA+ models of the parts of Taktstock (`src/server/`) whose correctness depends on
order, concurrency, failure and restarts, the TLC instances that check them, and
theorems about them that TLAPS checks. Paths below are relative to `src/server/`
unless they say otherwise.

Taktstock receives tasks from a chat (through n8n) or a dashboard, runs each as an
*orchestrator process* that plans subtasks, has coding agents execute them in a git
worktree and then commits, pushes or waits for an approval; before that, users may
*brainstorm* a task with several models in a session that ends in an approved plan.

    cd tla
    tlc -workers 2 -config MCRunQueue.cfg MCRunQueue      # any pair of the table below
    tlapm RunQueueProofs.tla                              # any *Proofs module

## 1. Inventory

### Components, their state and operations

| component | source | state | operations | model |
|---|---|---|---|---|
| Run queue | `infrastructure/run_queue.py`, `infrastructure/run_repository.py` | SQLite table `runs`; in memory a FIFO, a stop event, the current child | enqueue, worker loop, timeout, stop, recovery | `RunQueue`, `RunStore`, `RunLifecycle` |
| Dashboard server | `health_server.py` | the TCP port, one `QueueWorker` | boot, bind, POST handlers that enqueue, shutdown | in `RunQueue` |
| Shadow rows | `infrastructure/run_state_adapter.py`, `orchestrator_core.py` | a second row per orchestrator process | start, progress, block, complete, fail | `RunShadow` |
| n8n polling | `Taktstock Multi-Agent Orchestrator.json` | the item that goes round the loop | submit, wait, get status, evaluate | `RunPolling` |
| Orchestrator workflow | `orchestrator_core.py` | plan, outcomes, result, checkpoint file | checks, planning, subtasks, review, approval, commit, push, cleanup | `Workflow` |
| Worktrees and preflight | `worktree_manager.py`, `orchestrator_core.py` | git's worktrees, branches, uncommitted changes, remote | create, remove, dirty check, pull, comparison for read-only | `Workflow` |
| Session lock | `brainstorm_manager.py:260-352` | an RLock, a descriptor and a depth per process, the kernel's `flock` | enter, nest, fail, leave, death of the process | `SessionLock` |
| Brainstorm session | `brainstorm_manager.py` | one JSON file with a revision | post, compaction, answer, commands, round, approve, execute, reject, archive | `ChatSession`, `SessionHistory` |
| Active session of a chat | `brainstorm_manager.py` | mapping files chat -> session | set, get, clear | `SessionCopy` |
| SQLite copy of sessions | `infrastructure/brainstorm_state_adapter.py`, `infrastructure/session_repository.py` | a row for each saved session | save, activate, compare on load | `SessionCopy` |
| Import of legacy state | `infrastructure/legacy_state_importer.py` | recorded hashes, the pass under way | list, read, compare, write, record | `LegacyImport` |
| Token and call budget | `orchestrator_core.py:329-508`, `1184-1227` | a dict with reservations and totals | reserve, record, release, check | `AgentCalls` |
| Account rotation | `account_manager.py` | a JSON file, read once by each process | pick, mark limited, switch, mark good, cooldown | `AccountRotation` |
| Execution of a subtask | `orchestrator_core.py:2430-2820` | attempts, the output so far | execute, replace, quick check, fix, review, fix again, validate | `TaskExecution` |
| Sidecar for AGY | `infrastructure/host_agy_*.py` | a job lock, a child and two readers per job | accept, run, cap, timeout, busy | `AgySidecar` |
| Sidecar for Codex, readiness | `infrastructure/host_codex_*.py`, `infrastructure/wait_for_sidecar.py` | an instance lock, a socket, a job lock | start, serve, stop, die, probe | `CodexSidecar` |
| Agent gateway | `infrastructure/agent_gateway.py`, `infrastructure/telemetry_*.py` | none a decision is based on | dispatch, translate the outcome, insert telemetry | in the sidecar modules |
| Diff review, prompts, projects, skills, metrics, pages, MCP bridge, installer | various | none across calls | text, lookups, rendering | not modelled (section 8) |

### How they interact

- n8n and the dashboard POST a run; the server's main thread (one request at a time)
  commits a `queued` row and puts the run on an in-memory queue. The worker thread
  marks the row `running`, starts `orchestrator_core.py` as a child, waits with a
  timeout, and writes the outcome it reads from the exit code and the last JSON object
  on the child's output. n8n polls `GET /api/runs/<id>`.
- A server that boots declares every row in flight failed
  (`interrupted_by_server_restart`) before it binds its port. Only the table and
  the child processes outlive a server.
- The child itself keeps a second row, under an identifier of its own, through the
  adapter. So does an orchestrator started from a shell. The recovery sees these rows too.
- Orchestrator processes share one repository: branches, the directory of worktrees,
  the remote, the checkpoint files. Agents run on the host, through daemons, and may
  outlive the process they work for.
- The orchestrator calls its agents one at a time: Codex through the gateway and the
  daemon's socket or as a command under one of the accounts, AGY through its own daemon, GLM
  over HTTP. Each call is checked against the budget, holds a reservation while it is out,
  and is recorded or released when it is back.
- A saved session is copied into SQLite by whoever saved it, under the session's lock; the
  mapping of the chat and its mark in the table follow without a lock. The importer reads
  the same files and writes the same rows.
- Dashboard threads and command-line processes share session files. They lock them
  with `SessionFileLock`, but never while a model is asked; so each operation on a
  session is a chain of locked blocks with stale copies between them.

### What is hard

Crashes between the commit of a row and the queue's memory; two servers that overlap;
a timeout that races with the end of a child; stop() while a child is being started;
transactions that fail in the middle of handling an item; late writes by a process whose
row was declared failed; answers of models merged into a file that has changed; a
compaction whose snapshot is stale; nested locks with one shared descriptor; cleanup of
a worktree after failures that git does not report as exceptions; processes on one
branch; killed processes with living agents; a job that goes on when its caller has given
up; reader threads that kill a child somebody else waits for; daemons that share a socket
path; reservations that nest and are given back in some endings only; replacements, checks
and reviews that the budget cuts off halfway; a copy whose writing fails silently; an import
between the reading of a file and its transaction; two kinds of time stamps in one column. `PROJECT.json` lists each at its line.

### What makes each component correct

- **Run queue**: no command is started twice; children are sequential; an outcome is
  the one of the child; a row in flight is in somebody's hands; a settled run stays
  settled and is not executed late; every accepted run is settled in the end.
- **Shadow rows**: a row never claims a success that the orchestrator did not decide; the
  queue's row announces a halt only where the orchestrator decided it.
- **Polling**: what the chat is told last agrees with how the run ended; an end is noticed.
- **Lock**: one thread in a body; no leaked descriptor; nobody hangs after a failure.
- **Session**: messages are neither lost nor doubled; a revision stands for one
  content; a message leaves the context through a compaction, or for want of room in one,
  older ones first; an approved plan is what is executed.
- **Workflow**: work is not lost, not pushed without leave; success means the whole
  plan; a read-only process leaves the repository alone.
- **Sidecars**: one job at a time; a verdict is what happened on the host and leaves no
  job behind; the socket of a daemon in service is not taken away; every call returns.
- **Calls**: the limits hold whatever nests, fails or is replaced; a reservation ends with
  its call; nothing is returned that nobody looked at while there was budget to look.
- **Copy and import**: a row is the last version or a known loss; it never goes back; what
  is recorded as imported is in the table.

## 2. Modules

| module | what it is | relations |
|---|---|---|
| `RunStore` | the set `Runs`, rows of the table and the three statements that write it, as functions of a row | no variables |
| `RunLifecycle` | abstract specification: what someone who polls a run may rely on | `EXTENDS RunStore` |
| `RunQueue` | servers, worker threads and children over `RunStore` | `EXTENDS RunStore`, refines `RunLifecycle` |
| `RunShadow` | orchestrator processes as writers of the same table | `EXTENDS RunQueue`, implements it |
| `RunPolling` | n8n's loop over what the queue promises | `INSTANCE` of `RunLifecycle`, implements it |
| `SessionLock` | the lock, call by call | |
| `SessionHistory` | abstract specification: an append-only history | |
| `ChatSession` | the operations on a session, locked block by locked block | refines `SessionHistory`; its steps are atomic because of `SessionLock` |
| `Workflow` | orchestrator processes and git | |
| `AccountRotation` | the accounts as one process sees them | |
| `AgentCalls` | the calls of one process and the budget they are held to | `EXTENDS AccountRotation` |
| `TaskExecution` | planning, subtasks and validation as the caller | `EXTENDS AgentCalls`; details what `Workflow` leaves open in a subtask |
| `SidecarService` | abstract specification: what a call of an agent may rely on | |
| `AgySidecar` | a call of AGY from the gateway to the child and back | refines `SidecarService` |
| `CodexSidecar` | Codex daemons on one socket and their clients | refines `SidecarService` |
| `SessionCopy` | file, mapping and row of the sessions of a chat | |
| `LegacyImport` | the importer beside the writers of what it imports | `EXTENDS SessionCopy` |
| `*Proofs` | theorems about the module of that name; `RunQueueProofs` also has those about `RunShadow` and `RunPolling` | |
| `MC*` | symmetry sets and constants for TLC | |

Definitions named in a comment as *mutants* are not part of a specification: each is a
plausible error in one definition, and the property it is meant for fails when it
replaces that definition. They document how much a property is able to notice.

### `RunQueue`

One step per statement that other actors can observe.

| code | variables and actions |
|---|---|
| rows of `runs` | `runs` (status, class of the error text) |
| `serve()`: recovery, worker, bind | `Boot`, `Bind`, `BindFails`; `main`, `port` |
| `enqueue`: insert, then `put` | `CreateRun`, `PutItem`; `pending`, `queue` |
| `KeyboardInterrupt`, `stop()` | `Interrupt`, `StopPut`, `StopTerminate`, `StopJoined` |
| `_worker_loop` | `CheckStop`, `GetEmpty`, `GetItem`; `worker`, `item` |
| `_execute_run` | `MarkRunning(Fails)`, `Spawn(Fails)`, `Reap`, `Timeout`, `RecordTimeout`, `RecordExit(Fails)`, `RecordException` |
| the child | `ChildExits` (any exit, any summary), `ChildDies` (after a signal) |
| SIGKILL, power | `Crash` at any step: memory is lost, children lose their parent and live on |

`Overlap` lets a server boot while another is up; `DbFaults` lets each transaction fail.

### `RunShadow`

`step` is how far `run_full_workflow` is, `verdict` the status it decided (or `VERB`, for a
request that `main` answers without a workflow), `shadow` its row. `EarlyBlock`, `StartRun`,
`UpdateProgress`, `Report` are the calls of the adapter, which swallows errors;
`ShadowStatuses` are the rows an ending may leave, `Endings` those of `run_full_workflow`
after `start_run`. `ShadowBoot` recovers the queue's rows and the shadow rows together, as
the one `UPDATE` does.

The child's exit in `RunQueue` is `ExitOf` the verdict. `main` prints every summary and exits
with 0, a `FAILED` one as well as `COMPLETED`; only an exception, a signal or a check of `main`
itself gives another code. The worker looks for two statuses, and calls every other end with
code 0 completed: the exit `OTHER` stands for those, and for a summary it could not read.
So a completed row does not say that the workflow succeeded (section 6), and
`QueueFollowsVerdict` does not claim it. It claims what holds: a halt is announced only of a
workflow that halted in this way, and a process that raised, was killed or decided nothing
is not completed.

### `RunPolling`

The nodes between `Init Poll Context` and the notifications; `attempt` is `poll_attempt`,
lost when the HTTP response replaces the item. The queue appears as `Life`, an instance of
`RunLifecycle`: `SubmitAndPoll` is its `Submit` with the answer n8n gets, `LifeStep` and
`Interrupt` are what happens to runs between two polls.

### `SessionLock`

`at` is a place in `__enter__` or `__exit__`: `Want`, `AcquireRLock`, `Reenter`, `Open`,
`Flock`, `EnterFails`, `Raises`, `Leave`, `Release`, `Dies`. A death frees `flock` and the
descriptors of the process, as the kernel does.

### `ChatSession`

The file is one record: revision, messages (author and kind), rounds, status, the round
the plan was made from, the compaction index, and two ghosts: `covered`, which messages were
in the text of a compaction, and `omitted`, which were passed over. A compaction moves the index
past its whole batch (`Batch`), but the text it gives to the model has 12000 characters at most
and drops the older end of a batch that is longer (`Texts`); a message takes at most 1500 of
them and the name of its sender, so `Fits` of the newest always have room, 7 in the code.
An operation is one locked block per step, `snap` the copy it last read.
Post -> compaction (snapshot, model, commit if the revision is the same) -> command or
answer; round (snapshot, models, commit if the round is still the next); approve ->
take the task -> workflow -> mark; reject; archive.

### `Workflow`

| code | actions |
|---|---|
| `main`: arguments, checks | `Start` |
| `create_worktree`, or the repository for read-only | `CreateWorktree`, `UseRepository` |
| pull of the branch; status noted for read-only | `SyncWorkspace`, `NoteStatus` |
| `brainstorm`, `decompose`, preflight of subtasks, checkpoints | `Brainstorm`, `Decompose` |
| the loop over subtasks | `AgentEdits`, `TaskDone`, `TaskStops`, `Raises` |
| review, approval, commit, push | `ReviewReadOnly`, `Review`, `Commit`, `Push` |
| the `finally` clause | `Cleanup` |
| SIGKILL | `Crash`: agents may go on editing |

The work of a process is one edit named by it; it is uncommitted in a tree (`edits`,
`repo`), committed on a branch (`tip`) or on the remote (`pushed`). A worktree is named by
the first process to use its name.

Assumptions of the model, each with its reason: an agent has stopped when its answer (or
the client's timeout) arrives, which `AgySidecar` shows for AGY with the timeouts its daemon
accepts (`VerdictEndsTheJob`) and `CodexSidecar` for Codex unless the daemon dies, the 900 s
that client and daemon both wait are over, or the answer is too large (`JobsAreSerial`);
removing and adding a worktree in `create_worktree` is one step, as is `cleanup`'s look at
`git status` with the removal; directors (planning) do not edit, as they get read-only
access; `git pull` may fail or do nothing without an exception.

### `AccountRotation`, `AgentCalls`, `TaskExecution`

| code | variables and actions |
|---|---|
| `CodexAccountManager`: cooldowns, `current_index` | `cooling`, `current`; `GetAccountForRole`, `HandlePossibleError`, `MarkSuccess`, `CooldownEnds` |
| `check_budget_before_call`, `TokensDict` | `Fits`, `Record`, `Release`; `total`, `calls`, `tokens`, `reserved` |
| `call_director`, `call_codex_profile`, `call_executor_luna`, AGY, GLM | `Ask`, with a definition for each way in |
| their ends | `GatewayReturns`, `CommandAnswers`, `CommandIsLimited`, `AccountsAreExhausted`, `AgyReturns`, `GlmReturns` |
| `brainstorm`, `decompose`, escalation to Sol (once a question: `escalated`) | `Brainstorm`, `Decompose`, `Escalate`, `PlanIsMade`, `Stops` |
| `execute_task` | `ExecuteTask`, `Fallback`, `FallbackToAgy`, `Executed`, `QuickCheck`, `CheckPasses`, `CheckFails`, `CheckIsRefused`, `Fixed`, `Review`, `ReviewPasses`, `ReviewFails`, `Reworked` |
| the loop over subtasks, `validate` | `TaskReturns`, `Validate`, `Validated` |

A reservation is worth one unit of tokens; an answer costs one of `Costs`. `seen` is a ghost:
was the output of now shown to the director or the reviewer? `untried` is one too: the
accounts that were available when a call began and that it did not come to. What the other
processes do to the file of accounts shows in `Init` only, as no process reads it again.
How the process is configured (sidecar, strict budget, DeepSeek for n8n, key for GLM) is
`mode`, any member of `Modes`.

### `SidecarService`

What an orchestrator process relies on when it calls an agent, in two variables: `call`, what
the gateway says of a call, and `job`, what there is of it on the host: nothing, a process of
the daemon in service (`running`), one that a daemon left behind (`left`), or one that ended.
At most one job is `running`; a job is started at most once, while its caller waits; `SUCCESS`
is said of a job that ended, `BUSY` of a call without one; verdicts are final. It does not
promise that the job of an `ERROR` is over: each sidecar has a property of its own that says
when it is. In both refinements `job` is computed from the state of the child and of the thread
or daemon that has it (`ServiceJob`), and nearly every internal step is a stutter.

### `AgySidecar`

`call` and `asked` belong to the gateway and its client, `handler` to the daemon's thread of
a connection, `child`, `code`, `over` to the process on the host, `cap_exceeded` to its
readers. `Send`, `Receive`, `SocketTimeout` are the client; `Refuse`, `Busy`, `StartJob(Fails)`,
`WaitReturns`, `WaitExpires`, `Reply` the thread; `ExceedCap` a reader; `Exit`, `Die`,
`WriteTooMuch` the child. `DaemonRestarts` loses all threads. Time is in ticks that pass only
when no thread has anything to do: what a thread does after a job expired (two joins of at
most a second) is short against the 30 s of the client.

### `CodexSidecar`

A daemon is `new`, has the instance lock (`locked`), has removed an old socket (`clear`),
serves, and then closes its socket, unlinks the path, releases the lock and exits, or dies
anywhere. `path` is whose socket has the name, living or not. The client and the thread of a
connection are as in `AgySidecar`, without the readers; `gate` is `wait_for_sidecar`.

### `SessionCopy`, `LegacyImport`

A session is the sequence of the versions its file has held, each with a status and the
stamp written into it; the row names the version it copies (`rev`). A save is two steps under
the lock of the session, file and row (`Save`, `ShadowSave`), each of which may fail; then
follow, without the lock, the mapping and its mark (`SetMapping`, `ShadowSetActive`) or the
removal of the mapping (`ClearMapping`). `missed` is a ghost: the last save of the session
did not reach the table. Files are stamped in local time, `Offset` ahead of UTC; the rows that
an activation or a recovery stamps are in UTC.

A pass of the importer is `StartPass` (list the files, load the hashes), one `Read...` per
file, `Import...` or `ImportFails` for the transaction of what was read, `EndPass`. Others may
step between any two. `WriteRunFile` is an orchestrator that saves a checkpoint or a result,
`Recover` the server's recovery.

## 3. Runs

| run | config | instance | what it asks |
|---|---|---|---|
| queue | `MCRunQueue` | 2 runs, 1 server, fairness | is a row in flight always in hand, is the life of a run `RunLifecycle`, is every run settled? |
| queue_overlap | `MCRunQueueOverlap` | 2 runs, 2 servers, failing transactions | no second start, one child per server, honest outcomes? |
| shadow | `MCRunShadow` | 1 queued run, 1 from a shell, failing transactions | does a shadow row claim only what was decided, and the queue's row no halt that was not, nor the completion of a process that did not end by itself? |
| polling | `MCRunPolling` | 2 runs, limit 3, fairness | is the notification true, is an end noticed? |
| session_lock | `MCSessionLock` | 2 threads in one process, 1 in another, nesting 3, fairness | exclusion, no leak, no hang? |
| chat | `MCChatSession` | 3 operations of any kind, deaths | no message lost, right plan executed, none passed over by a compaction but the oldest for want of room, append-only history? |
| session_db | `MCLegacyImport` | 2 processes, 2 sessions, 1 checkpoint, 4 stamps | is a row the last version, never an older one, recorded only when imported? |
| workflow | `MCWorkflow` | 2 processes, 1 branch, plans of up to 2 subtasks | work kept, not pushed without leave, success whole? |
| calls | `MCTaskExecution` | accounts `bonus` and `luna`, 6 calls, 7 tokens, 1 subtask, 2 fixes, fairness | limits, reservations, what is returned unseen, the end? |
| failover | `MCFailover` | the same accounts, calls as commands | finding 1 |
| agy_sidecar | `MCAgySidecar` | 2 calls, timeouts one accepted and one not, fairness | is it the service of `SidecarService`, are verdicts honest, is nothing left running, does nothing hang? |
| codex_sidecar | `MCCodexSidecar` | 2 daemons, 2 calls, fairness | is the socket of a daemon in service safe, are jobs serial, is it the service of `SidecarService`, does everybody return? |

### Bounds, and why they are enough

- *Runs*: two are needed to order one behind the other and to see a queue that is
  recovered with one run in hand and one behind it. A row is created once, a server may
  boot any number of times: nothing else is bounded in `RunQueue`. The theorems hold for any
  number.
- *Servers*: two is the smallest overlap; each interacts with others only through the table
  and the port.
- *Threads*: two in a process contend for the RLock, the third for `flock`. `MaxNest` 3
  has an outer, a middle and an inner block, so each kind of exit occurs.
- *Operations on a session*: three, each called once, of any kind: enough for a
  chat and two operations that come between two of its blocks. `CompactAfter` 3 and
  `KeepRecent` 1 (10 and 3 in the code) let a compaction happen with few messages, and
  `Fits` 2 (7 in the code) lets one with three leave out the oldest; the
  theorems hold for any thresholds, and most of them with failing writes, which the run
  leaves out (`SaveFaults` is false there).
- *PollLimit* 3 instead of 180: a loop that kept its counter would reach it in three turns.
- *Workflow*: two processes that meet on one branch or in the repository; two subtasks
  so that one is skipped when the other fails. The theorems have no such bounds.
- *Sessions in SQLite*: four stamps are two saves with what lies between them, or a
  session that is created, mapped and activated, and a later save. Two sessions are what an
  archiving needs. One checkpoint with two versions has an older file to go back to. Its
  theorems have no bounds.
- *Calls*: a plan of one subtask has every path of `execute_task`; six calls end
  anywhere between the first director and the second fix, seven tokens run out before or
  after the calls do; `Costs` 1 and 2 have an answer as dear as estimated and one dearer.
  Two accounts suffice for a switch; each agent with a limit has 1 or 2 calls.
- *AGY*: two calls make a job and one that finds it. The daemon accepts 2 to 4 ticks
  (5 to 1800 s); one call asks for an accepted timeout, one for a refused one; the client
  waits one tick longer (30 s).
- *Codex*: a daemon and a successor, in whichever order they start and end.

Symmetry over runs, servers, operations, processes and sessions is used in runs without
liveness properties only. `CHECK_DEADLOCK FALSE` stands where the system really stops: each
operation, process or call of `ChatSession`, `Workflow`, `AgySidecar`, `CodexSidecar` and
`TaskExecution` happens once, and `LegacyImport` has the bound on stamps. The other models
never stop and are checked for deadlock.

## 4. Fairness

- `RunQueue!FairSpec`: the worker and main threads go on (weak fairness) wherever they
  are not blocked; `communicate()` is bounded by a timeout, which belongs to the worker; a
  process that got SIGKILL dies; the container is restarted (`restart: unless-stopped` in
  the compose file), so `Boot` is fair. Requests, interrupts, crashes and the end of a
  child by itself are not fair: `EventuallySettled` does not depend on them.
- `RunPolling!PollSpec`: n8n's timer fires and its nodes run. The run itself may hang.
- `SessionLock!FairSpec`: threads that can go on do, and bodies end. Neither `RLock`
  nor `flock` is fair to one waiter, so only `SomeoneGetsIn` is claimed: not that each does,
  and not if processes die for ever.
- `AgySidecar!FairSpec`, `CodexSidecar!FairSpec`: the threads of a daemon and the clients
  are scheduled, readers read, and time passes. A child need not end by itself, a daemon need
  not be started, stopped or come back: both `CallsReturn` rest on the timeouts.
- `TaskExecution!FairSpec`: the process goes on and every call comes back, as sidecars,
  HTTP requests and commands have timeouts. The end of a cooldown is not fair.
- Everything else is a safety property and needs none.

## 5. Proofs

TLAPS checks these for all values of the constants.

| theorem | says | assumes |
|---|---|---|
| `TypeCorrect`, `NoReexecution`, `Sequential`, `OutcomesAreEarned` | `[]TypeOK`, `[]NeverReexecuted`, `[]OneChild`, `[]OutcomeIsEarned` for any runs and servers | nothing: overlap, crashes, failing transactions included |
| `SettledRunsAreReleased` | `[]SettledIsReleased` | `~Overlap` |
| `NoRunIsStranded` | `[]NoStrandedRun` | `~Overlap`, `~DbFaults` |
| `QueueImplementsLifecycle` | `Spec => ImplementsLifecycle`, the refinement of `RunLifecycle` | `~Overlap`; transactions may fail |
| `ShadowImplementsQueue` | `ShadowSpec => Spec`: what is proved of `RunQueue` holds beside orchestrators that write the table | nothing |
| `ShadowTypes`, `ShadowsClaimTrue`, `VerdictsAreFollowed` | types, `[]ShadowClaimsAreTrue`, `[]QueueFollowsVerdict` for any processes, queued or from a shell: no row announces a halt that was not decided, or completes a process that did not end by itself | nothing |
| `PollingTypes`, `NotificationsAreTrue` | types, `[]NotificationIsTrue` | a positive `PollLimit` |
| `PollingKeepsTheLife` | `PollSpec => Life!Spec`: the loop disturbs no run | nothing |
| `ChatIsToldTheVerdict` | `RunShadow` and `RunPolling` together: the chat hears of a blocked run only if its workflow was blocked by a prerequisite, of a completed one only if its process came to an end of its own | `[]TableIsPolled`, that the polled life is the one the queue implements |
| `LockTypes`, `Exclusion`, `NoDescriptorLeaks` | types, `[]MutualExclusion`, `[]DescriptorsAreOwned` for any threads and processes | nothing |
| `SessionTypes`, `RevisionsIdentify`, `SummaryIsComplete`, `SessionImplementsHistory` | types, `[]RevisionIdentifiesContent`, `[]SummaryCovers`, and the refinement of `SessionHistory` | nothing: failing writes and deaths included |
| `NothingIsLost`, `ApprovedPlanIsExecuted` | `[]KeptOnce`, `[]ExecutesWhatWasApproved` | `~SaveFaults` |
| `WorkflowTypes`, `SuccessMeansWhole`, `ReadOnlyLeavesAlone` | types, `[]SuccessIsWhole`, `[]ReadOnlyIsHonest` | nothing |
| `UncommittedWorkStays`, `WaitingWorkStays`, `PushedIsApproved` | `UncommittedWorkIsKept`, `[]WaitingWorkIsThere`, `[]OnlyApprovedIsPushed` | `~SameSecond` |
| `LegacyTypes`, `RowStatusHolds`, `RecordedHolds` | types, `[]RowStatusIsEarned`, `[]RecordedIsImported` | nothing: lost copies, deaths, any time zone |
| `RowIsCurrentHolds`, `RowNeverGoesBackHolds` | `[]RowIsCurrent`, `RowNeverGoesBack` | `Offset <= 0` |
| `ExecutionTypes`, `BudgetHolds`, `ReservationsAreAccountedFor`, `OutputsAreLookedAt` | types, `[]BudgetIsKept`, `[]ReservedIsAccountedFor`, `[]FixesAreLookedAt` | nothing: any accounts, limits, costs and plans |
| `StepsRunOut` | every step of the process and every return of a call lowers `rank`, everything else leaves it | nothing |
| `AgyTypes`, `JobsExclude`, `VerdictsAreEarned`, `VerdictsEndJobs`, `AgyImplementsService` | types, `[]OneJobAtATime`, `[]VerdictIsEarned`, `[]VerdictEndsTheJob`, and the refinement of `SidecarService` | a positive `Margin` (30 s); the fourth speaks of accepted timeouts |
| `CodexTypes`, `SocketsStay`, `JobsFollowEachOther`, `CodexImplementsService` | types, `[]SocketStays`, `[]JobsAreSerial`, and the refinement of `SidecarService` | nothing: any daemons, which may die anywhere |

The assumptions are needed: without `~Overlap` a second server fails the runs of the
first, which goes on executing them; without `~DbFaults` an item whose `running` update
failed leaves a queued row to the next boot; callers of `save_brainstorm` ignore its
result; processes of one second share a worktree; local time ahead of UTC makes a stamped row
look older than an older file (section 6).

### The inductive invariants

None of these properties is inductive.

- **RunQueue**: `Inv == TypeOK /\ Placed /\ HeldOnce /\ Fresh /\ Started /\ NeverReexecuted
  /\ WaitedFor`. A worker that handles something handles a run (`Placed`); a run is held in
  at most one place: by one handler, at one position of one queue, or by one worker
  (`HeldOnce`); a run without a row is unknown and has no child (`Fresh`); a worker waits for
  a child that was started and records one that ended (`Started`); a living child is the one
  its server's worker waits for (`WaitedFor`). `NeverReexecuted` needs `HeldOnce`, or the
  second copy of a run would start it again, and `HeldOnce` needs `Fresh`, or `CreateRun`
  would make a second copy. `Earned` (what a row claims, with a child that has ended and so
  cannot end otherwise) is added for `OutcomeIsEarned`, and `Single` (without overlap at
  most one server is up) for the theorems that assume it. The refinement needs two things
  besides: `SettledIsReleased`, or a late write would settle a run twice, and `Marked`, that
  a run a worker is about to start, or waits for, is `running` in the table, or a start would
  be one of a run that is not. `Marked` survives failing transactions, as the worker goes on
  only when its update committed; it would not survive a second server.
- **RunShadow**: every step is one of `RunQueue` or leaves its variables alone, so the theorems
  on the queue carry over. `ShadowInv == ShadowTyped /\ Attended /\ Unreported /\
  ShadowClaimsAreTrue`. `Attended` connects the rows of the queue with the verdicts: a process
  is under way only in a child that was started; a child that ended with one of the two
  summaries printed its process's verdict, and one that ended with code 0 had one and did not
  raise. `Unreported`: before `start_run` there is no row, before
  `run_full_workflow` decides there is no verdict; hence a late progress update, which may revive
  a row that a recovery failed, makes no claim.
- **RunPolling**: `SeenStands`: an answer that says a run has ended is still true when the node
  evaluates it, because the life of runs never changes an end. `NotificationIsTrue` follows;
  alone it is not inductive, as `Evaluate` acts on an old answer.
- **SessionLock**: `LockInv` says who owns what at each place: `Owned` (only the owner of
  the RLock is past it), `Nested` and `Counted` (count, depth and nesting agree),
  `Unowned`, `Held` (the process in a body has `flock`), `Opened`. Exclusion between
  processes is `Held`: two owners of one `flock` are one.
- **ChatSession**: `Fresh` (no copy is newer than the file), `Indexed`, `Growing`,
  `Summarising` (a summary being made is of a batch its snapshot has), `Countable` (what a
  compaction took or passed over is a finite set of positions), `SummaryCovers`; the
  lemma `TextOfBatch` says of every text that what it leaves out is older than all it has,
  and that it has at least `Fits` messages then.
  `Planned` and `Kept` carry the two properties about an operation across its blocks.
- **Workflow**: `Control == InPlan /\ Equipped /\ Reported` for results,
  `Behind` (the subtasks before the current one are done), `Worktrees == OwnDir /\
  OwnBranch /\ OwnEdits` (a worktree is used by one process, for its branch), `Approved`.
- **LegacyImport**: in two parts. `BasicInv == Typed /\ HeldByOne /\ ListedIsThere /\
  HeldIsThere /\ RowStatusIsEarned /\ RecordedIsImported` holds in any time zone: a save
  holds its session alone and has its last version in hand, and what the importer listed or
  read is there. `DatedInv` adds, for local time not ahead of UTC, that stamps tell
  versions apart: `VersionsAreDated` and `RunFilesAreDated` (a later version has a later
  stamp, none from the future), `RowsAreDated` and `RunRowsAreDated` (a row is stamped no
  earlier than the version it copies, so that an older file compares as older), and
  `RowIsCurrent`. With `Offset > 0` `RowsAreDated` is what fails: an activation puts a UTC
  stamp below the local one of the version.
- **TaskExecution**: `Books == CallsTypeOK /\ Within /\ Spent /\ HasRoom /\ Nested /\
  ReservedIsAccountedFor` is about the calls: one that is out has room under every limit
  for what it will be recorded with (`HasRoom`), which is why nesting, which refuses inside,
  and recording after the fact break no limit; two reservations are Luna's (`Nested`).
  `Conduct` is about the workflow: a subtask has who fixes it (`FixerChosen`), an attempt
  that is begun was left (`Counted`), no call is out where the process decides (`AtRest`), and
  an output nobody was shown was refused by the budget (`Looked`).
- **AgySidecar**: `AgyInv` has `Untouched` (before a job there is no child, no time, no result),
  `Stopped`, `Punctual` (a thread waits no longer than its timeout), `ResultIsEarned`, and
  `VerdictStands`, the properties with what makes them last: a verdict is given when the
  connection is over, or when the client's patience is, and that is after the job's timeout. `Awaited` (a thread that has not begun its job has a
  client that waits) is what the refinement needs at `StartJob`.
- **CodexSidecar**: `CodexInv == TypeOK /\ LockIsHeld /\ SocketStays /\ Attached /\ Untouched
  /\ JobIsLocked /\ VerdictStands`. Of the daemons at most one is between taking and releasing
  the instance lock (`LockIsHeld`), so nobody binds or unlinks beside it; `SocketStays` needs
  it. `JobIsLocked` is an equivalence: the job lock of a daemon is that of a request exactly
  while a thread of this daemon works on it or answers it. From right to left it makes two
  jobs of one daemon the same; from left to right, a thread that is through has no lock, as
  `JobsAreSerial` claims of calls with a verdict. `Awaited` is as for AGY.
- **TaskExecution, the rank**: `StepsRunOut` has no invariant but the types: the rank is a
  tuple, (stage of the workflow, subtasks left, part of the subtask, turns left, question
  being asked, attempts left), ordered lexicographically, and each action lowers one component
  and leaves those before it. With it `WorkflowEnds` for arbitrary constants is the fairness of
  the steps and the fact that this order has no infinite descent; both are beyond the provers.

Each preservation proof has one step per action, and under it one per part of the
invariant the action can disturb.

### Only model-checked

Every safety invariant, action property and refinement that a run checks is a theorem. What
TLAPS cannot prove stays with TLC: liveness under fairness (`EventuallySettled`,
`SomeoneGetsIn`, `EndIsNoticed`, `CallsReturn` of both sidecars, `WorkflowEnds`), anything with
`ENABLED`, and inductions over data (what a recursive definition computes for every input). No
module declares a `RECURSIVE` operator. The type invariants are theorems and no run repeats
them; nor does one repeat `OneJobAtATime` (`JobsExclude`), which `ImplementsService` implies for
jobs of the daemon in service.

## 6. Findings

1. **A limited account is not the one put out of service** (`failover`).
   `handle_possible_error` marks the current account, whichever `call_codex_profile` called
   (`account_manager.py:221`), and the loop has as many attempts as there are accounts. When
   Luna meets its limit while the current account is the bonus one, bonus goes into
   cooldown without having been called, and the call gives up. `README.md:62` and
   `account_manager.py:7` promise the switch to the bonus account.

### Met while modelling, without a run of their own

Runs and workflows:

- `stop()` may leave a child: it looks at `_current_proc` once
  (`infrastructure/run_queue.py:138`). A worker that has marked its run as running and has
  not taken `_proc_lock` yet starts the child afterwards; the join times out and the server
  exits with the child alive. Line 133: "Stops the worker cleanly, terminating any pending
  processes."
- `--resume` skips nothing: checkpoints are saved when brainstorm and decompose end, when no
  subtask has run, and none after a subtask (`orchestrator_core.py:1659`). The help text (`3488`)
  promises that completed subtasks are skipped.
- Two processes of one second share a worktree: the name is `wt_<seconds>_<branch>` and the
  default branch has the same resolution; the second removes the directory of the first by
  force (`worktree_manager.py:111`). `README.md:52`: "Every task runs in its own isolated
  `git worktree`". `SameSecond` is a constant of `Workflow` for this case.
- A second server on the database fails the running rows of the first before it finds
  the port taken (`health_server.py:1741`), also the rows of runs started from a shell;
  the first server's outcome later overwrites the failure. `run_queue.py:109` speaks of runs
  that were interrupted.
- `completed_at` is not set for `blocked_prerequisite` and `blocked_budget`
  (`run_repository.py:145-148`).
- `block_prerequisite_run` is called before `start_run` created a row
  (`orchestrator_core.py:2849`, `2906`, `2951` before `2973`): the block is not recorded there.
- A session is marked as executed whatever the workflow returned
  (`orchestrator_core.py:3915`).
- A rejection between approval and the start of the execution is not looked at
  (`orchestrator_core.py:3797`); an approval by the dashboard starts nothing
  (`health_server.py:1614`).
- `git_committed` and "pushed" are reported although `run_cmd` never raises: a failed
  commit or push goes unnoticed (`orchestrator_core.py:3393-3415`). Hence `Commit` and `Push`
  may fail in the model and the result stays COMPLETED; what holds is that the work stays.
- A plan without subtasks is COMPLETED.
- A killed process's worktree keeps its branch checked out, so a process with `--resume` on
  this branch cannot create its own.
- `poll_attempt` is lost in each turn of n8n's loop, so the limit of 180 is never reached:
  a run that waits for an approval is polled until n8n stops
  (`Taktstock Multi-Agent Orchestrator.json:220`, `:406`).

- A queued run is `completed` and the chat is told so, although the workflow failed or was
  stopped, when the orchestrator returns a summary with a status other than the two that
  `infrastructure/run_queue.py:263` and `:265` look for: `FAILED` (`orchestrator_core.py:3206`, `3236`, `3303`),
  `BLOCKED_GIT_SYNC` (`2833`), `BLOCKED_BUDGET` (`3160`), `TIME_BUDGET_EXCEEDED` (`3106`). All are
  printed at `3916` and end with code 0; the shadow row of the same process says `failed`,
  `blocked_prerequisite` or `blocked_budget`. The repository's
  `tests/test_readonly_and_budget_compaction.py:178` asserts a summary that is `FAILED`. The same halts met by
  `main` before the workflow (`3846`, `3863`) exit with 1 and become `failed`.
- A summary may escape the worker: `infrastructure/run_queue.py:222-232` has stdout and stderr on one pipe, and
  `main` logs its cleanup after the summary (`orchestrator_core.py:3928-3936`). One that is
  longer than the buffer of stdout, which is flushed at the exit, gets these lines into its
  middle, `extract_terminal_json` finds nothing, and a halt is `completed`.
- An output that speaks of an exceeded time and of a missing prerequisite gives a
  summary `TIME_BUDGET_EXCEEDED` and a row `blocked_prerequisite` (`orchestrator_core.py:3206-3265`).
- A compaction moves the index past messages that its text has no room for: beyond 12000
  characters the oldest of the batch are neither in the summary nor in the context afterwards,
  under a marker for the model (`brainstorm_manager.py:1157-1181`, `1147`, `1248`), as
  `tests/test_context_budget_and_token_efficiency.py:404-466` expects. `SummaryCovers` says how far this goes.
  A batch of at most 7 (10 less the 3 kept) is never cut.

Calls:

- `call_executor_luna` (`orchestrator_core.py:2166`) keeps its own reservation unless the call
  inside raises: each call of Luna takes tokens from the rest of the run
  (`ReservedIsAccountedFor` says exactly how much).
- The limit of GLM is looked up as `glm-flash`, its calls are recorded as `glm_flash`: the limit
  per agent never applies.
- AGY that raises is replaced by a fixer, and a fixer that fails is replaced by the same
  one again: two calls, against the docstring at `orchestrator_core.py:2105`, "never with a
  double call" (in Italian there).
- A director's answer that is not JSON, or the text of an account's limit, passes the quick
  check; a review that fails or is refused counts as an approval; the verdict `retry` of the
  validation changes nothing (`3278`), and a validation the budget refuses counts as `done`.
- One exhausted account puts the others into cooldown one after the other, as the output of
  every attempt has the word of the limit in it.
- The file of accounts is written whole by every process from the copy it read at its
  start (`account_manager.py:133`); a cooldown another process recorded is lost.

Sidecars:

- A timeout outside 5..1800 s becomes 900 s while the client waits for what it asked for plus
  30 s: it gives up while the job goes on (`host_agy_socket_daemon.py:170`). `VerdictEndsTheJob`
  is therefore about accepted timeouts.
- An error whose text has the word timeout is reported as an exceeded time budget
  (`infrastructure/host_agy_client.py:180`): what the process wrote to stderr, or the path of a worktree that
  was refused or does not exist, when nothing was started at all. `VerdictIsEarned` says so.
- The AGY daemon has no instance lock, unlike the Codex one: the stop of an old daemon removes
  the socket of its successor (`host_agy_socket_daemon.py:514`).
- The Codex client stops reading after 512 KB, while the daemon allows 512 KB for each stream
  and wraps them in JSON: a large success is an error. Client and daemon both wait 900 s.
- A Codex daemon that stops releases its instance lock while a thread may still run a job;
  so its successor may start another. `JobsAreSerial` is about daemons that hold it.

Sessions in SQLite:

- Where local time is ahead of UTC (`Offset` 4 in the model), a row stamped by an activation or
  a recovery looks older than an older file, and the importer puts that one into the table
  (`infrastructure/legacy_state_importer.py:72`). Line 18 of it promises "Total protection of
  newer SQLite data".
- An activation after a lost copy stamps the row as new, so that the importer skips the newer
  file for good.
- A checkpoint is imported as `running` although nobody runs it, until the next boot fails it;
  a later checkpoint revives the row.
- `create_brainstorm` ignores that its save failed and maps the chat to a session without file.
- `reject` and `mark_executed` remove the mapping after the lock is released, whatever it
  names by then (`brainstorm_manager.py:2485`).
- An activation that comes late marks the row of a closed session as active
  (`RowStatusIsEarned` allows it).

## 7. Plan

Done, in this order: run queue and its lifecycle; shadow rows; polling; session lock;
session and its history; workflow with git; the sidecars; accounts, calls and the execution
of subtasks; sessions in SQLite and the import of legacy state; proofs of the modules
named in section 5, with the refinements.

Next, in order of importance:

1. `TaskExecution` as a refinement of what `Workflow` leaves open between `AgentEdits` and
   `TaskDone` or `TaskStops`.
2. A run of its own for the poll limit that is never reached, if a document promises it.
3. Several chats in `SessionCopy`; web sessions beside them.

## 8. Not modelled

- *Authentication, pages, JSON views, command parsing* of the dashboard: no state.
- *Prompts, project catalogue, skills, design capture, metrics, URL validation*: stateless.
- *Diff review*: renders what git prints.
- *Telemetry*: rows nothing branches on.
- *The n8n daemon*: answers read-only queries, each by itself, without lock or child.
- *MCP bridge*: a loop without state between requests.
- *n8n's nodes before the loop* (triggers, transcription): third-party glue.
- *Installer*: an operator's menu; of the container only the restart policy matters here.
- *Provisioning of tokens*: a file replaced atomically; a missing or old token is a call that
  fails or is refused.
- *Options `--no-worktree`, `--dry-run`, mock mode*: the first two leave out steps of `Workflow`,
  the last replaces the agents.
- *Log texts, the content of prompts and answers*: no property is about them.
- *Large parts of `orchestrator_core.py`, `brainstorm_manager.py`, `health_server.py`* are prompts,
  HTML and the parsing and formatting of texts, which is why the map leaves them out.
