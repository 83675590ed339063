------------------------------ MODULE RunQueue ------------------------------
(***************************************************************************)
(* The asynchronous run queue (server/infrastructure/run_queue.py) inside  *)
(* the dashboard server (server/health_server.py).  A server is an OS      *)
(* process: its main thread serves one HTTP request at a time and enqueues *)
(* runs, its worker thread takes them off an in-memory queue and executes  *)
(* each one as a child process.  Only the table of runs and the child      *)
(* processes outlive a server.  Several servers may share the database:    *)
(* one may be started while another still has the port, or while another   *)
(* one is shutting down.                                                   *)
(***************************************************************************)
EXTENDS Integers, Sequences, RunStore

CONSTANTS
    Servers,    \* instances of the dashboard server, each may boot many times
    None,       \* no run, no server: Python's None
    Overlap,    \* may a server boot while another one is up?
    DbFaults    \* may a transaction on the table of runs fail?

ASSUME RunQueueAssumption ==
    /\ None \notin Runs
    /\ None \notin Servers
    /\ Overlap \in BOOLEAN
    /\ DbFaults \in BOOLEAN

VARIABLES
    runs,        \* the rows of the runs created by enqueue
    port,        \* the server bound to the TCP port
    main,        \* where the main thread of each server is
    pending,     \* the run whose row the handler has inserted, not yet put
    queue,       \* QueueWorker._queue: runs, and None for the stop pill
    stopEvent,   \* QueueWorker._stop_event
    worker,      \* where the worker thread of each server is
    item,        \* the run the worker thread is handling
    currentProc, \* QueueWorker._current_proc, named by its run
    child,       \* the child process of each run
    exit,        \* how the child process ended
    parent       \* the server that is the parent of the child process

serverVars == <<port, main, pending, queue, stopEvent>>
workerVars == <<worker, item, currentProc>>
childVars  == <<child, exit, parent>>
vars == <<runs, serverVars, workerVars, childVars>>

MainSteps == {"down", "bind", "serving", "put", "stop_put", "stop_terminate", "stop_join"}
WorkerSteps == {"dead", "loop", "get", "begin", "popen", "wait", "killed", "record", "except"}

\* The worker is between taking an item off the queue and being done with it.
Handling == {"begin", "popen", "wait", "killed", "record", "except"}

\* A child is "sigterm" after terminate(), "sigkill" after kill(), until it dies.
Alive == {"alive", "sigterm", "sigkill"}
ChildStates == {"none", "dead"} \cup Alive

\* What the worker finds at the end of the output of a child that exits with 0:
\* a summary with one of the two statuses it looks for, or anything else, be it
\* a summary with another status (COMPLETED, but also FAILED, BLOCKED_GIT_SYNC,
\* BLOCKED_BUDGET or TIME_BUDGET_EXCEEDED), the answer to another request than
\* a workflow, or no JSON object.
Summaries == {"BLOCKED_PREREQUISITE", "WAITING_FOR_APPROVAL", "OTHER"}
Exits == {"none", "nonzero"} \cup Summaries

TypeOK ==
    /\ runs \in [Runs -> Rows]
    /\ port \in Servers \cup {None}
    /\ main \in [Servers -> MainSteps]
    /\ pending \in [Servers -> Runs \cup {None}]
    /\ queue \in [Servers -> Seq(Runs \cup {None})]
    /\ stopEvent \in [Servers -> BOOLEAN]
    /\ worker \in [Servers -> WorkerSteps]
    /\ item \in [Servers -> Runs \cup {None}]
    /\ currentProc \in [Servers -> Runs \cup {None}]
    /\ child \in [Runs -> ChildStates]
    /\ exit \in [Runs -> Exits]
    /\ parent \in [Runs -> Servers \cup {None}]

Init ==
    /\ runs = [r \in Runs |-> NoRow]
    /\ port = None
    /\ main = [s \in Servers |-> "down"]
    /\ pending = [s \in Servers |-> None]
    /\ queue = [s \in Servers |-> <<>>]
    /\ stopEvent = [s \in Servers |-> FALSE]
    /\ worker = [s \in Servers |-> "dead"]
    /\ item = [s \in Servers |-> None]
    /\ currentProc = [s \in Servers |-> None]
    /\ child = [r \in Runs |-> "none"]
    /\ exit = [r \in Runs |-> "none"]
    /\ parent = [r \in Runs |-> None]

-----------------------------------------------------------------------------
(* The main thread: boot, POST /api/run, shutdown. *)

\* get_global_queue_worker, called before the port is bound: recovery of the
\* whole table in one transaction, then a new worker thread.
StartWorker(s) ==
    /\ main[s] = "down"
    /\ Overlap \/ \A t \in Servers : main[t] = "down"
    /\ main' = [main EXCEPT ![s] = "bind"]
    /\ worker' = [worker EXCEPT ![s] = "loop"]
    /\ UNCHANGED <<port, pending, queue, stopEvent, item, currentProc, childVars>>

\* Mutant of Boot: the recovery is left out.
BootWithoutRecovery(s) ==
    /\ StartWorker(s)
    /\ UNCHANGED runs

Boot(s) ==
    /\ StartWorker(s)
    /\ runs' = [r \in Runs |-> RecoverRow(runs[r])]

\* A recovery that fails is logged and forgotten.
BootUnrecovered(s) ==
    /\ DbFaults
    /\ StartWorker(s)
    /\ UNCHANGED runs

Bind(s) ==
    /\ main[s] = "bind"
    /\ port = None
    /\ port' = s
    /\ main' = [main EXCEPT ![s] = "serving"]
    /\ UNCHANGED <<runs, pending, queue, stopEvent, workerVars, childVars>>

\* enqueue, first half: the row is committed before the item is in the queue.
\* (A failed insert answers 500 and changes nothing.)
CreateRun(s, r) ==
    /\ main[s] = "serving"
    /\ runs[r].status = "absent"
    /\ runs' = [runs EXCEPT ![r] = NewRow("queued")]
    /\ main' = [main EXCEPT ![s] = "put"]
    /\ pending' = [pending EXCEPT ![s] = r]
    /\ UNCHANGED <<port, queue, stopEvent, workerVars, childVars>>

PutItem(s) ==
    /\ main[s] = "put"
    /\ queue' = [queue EXCEPT ![s] = Append(@, pending[s])]
    /\ pending' = [pending EXCEPT ![s] = None]
    /\ main' = [main EXCEPT ![s] = "serving"]
    /\ UNCHANGED <<runs, port, stopEvent, workerVars, childVars>>

\* KeyboardInterrupt, wherever the main thread is while it serves: the port
\* is closed and stop() sets the event.
Interrupt(s) ==
    /\ main[s] \in {"serving", "put"}
    /\ port' = None
    /\ stopEvent' = [stopEvent EXCEPT ![s] = TRUE]
    /\ pending' = [pending EXCEPT ![s] = None]
    /\ main' = [main EXCEPT ![s] = "stop_put"]
    /\ UNCHANGED <<runs, queue, workerVars, childVars>>

StopPut(s) ==
    /\ main[s] = "stop_put"
    /\ queue' = [queue EXCEPT ![s] = Append(@, None)]
    /\ main' = [main EXCEPT ![s] = "stop_terminate"]
    /\ UNCHANGED <<runs, port, pending, stopEvent, workerVars, childVars>>

StopTerminate(s) ==
    /\ main[s] = "stop_terminate"
    /\ child' = [r \in Runs |->
                   IF r = currentProc[s] /\ child[r] = "alive" THEN "sigterm" ELSE child[r]]
    /\ main' = [main EXCEPT ![s] = "stop_join"]
    /\ UNCHANGED <<runs, port, pending, queue, stopEvent, workerVars, exit, parent>>

\* The process of server s ends, and its worker thread, a daemon, with it.
\* Its children are killed with it (a container) or live on (a plain host).
Gone(s) ==
    /\ port' = IF port = s THEN None ELSE port
    /\ main' = [main EXCEPT ![s] = "down"]
    /\ pending' = [pending EXCEPT ![s] = None]
    /\ queue' = [queue EXCEPT ![s] = <<>>]
    /\ stopEvent' = [stopEvent EXCEPT ![s] = FALSE]
    /\ worker' = [worker EXCEPT ![s] = "dead"]
    /\ item' = [item EXCEPT ![s] = None]
    /\ currentProc' = [currentProc EXCEPT ![s] = None]
    /\ \E kill \in BOOLEAN :
          LET killed == {r \in Runs : kill /\ parent[r] = s /\ child[r] \in Alive}
          IN  /\ child' = [r \in Runs |-> IF r \in killed THEN "dead" ELSE child[r]]
              /\ exit' = [r \in Runs |-> IF r \in killed THEN "nonzero" ELSE exit[r]]
    /\ parent' = [r \in Runs |-> IF parent[r] = s THEN None ELSE parent[r]]
    /\ UNCHANGED runs

\* The port is taken: HTTPServer raises and the new server ends.
BindFails(s) ==
    /\ main[s] = "bind"
    /\ port # None
    /\ Gone(s)

\* join(timeout=5) returned: the worker has ended or the time is up.
StopJoined(s) ==
    /\ main[s] = "stop_join"
    /\ Gone(s)

Crash(s) ==
    /\ main[s] # "down"
    /\ Gone(s)

-----------------------------------------------------------------------------
(* The worker thread: _worker_loop and _execute_run. *)

WorkerGoes(s, step) == worker' = [worker EXCEPT ![s] = step]

\* The item is done with, whatever became of its row.
DoneWith(s) ==
    /\ WorkerGoes(s, "loop")
    /\ item' = [item EXCEPT ![s] = None]

CheckStop(s) ==
    /\ worker[s] = "loop"
    /\ WorkerGoes(s, IF stopEvent[s] THEN "dead" ELSE "get")
    /\ UNCHANGED <<runs, serverVars, item, currentProc, childVars>>

GetEmpty(s) ==
    /\ worker[s] = "get"
    /\ queue[s] = <<>>
    /\ WorkerGoes(s, "loop")
    /\ UNCHANGED <<runs, serverVars, item, currentProc, childVars>>

GetItem(s) ==
    /\ worker[s] = "get"
    /\ queue[s] # <<>>
    /\ queue' = [queue EXCEPT ![s] = Tail(@)]
    /\ item' = [item EXCEPT ![s] = Head(queue[s])]
    /\ WorkerGoes(s, IF Head(queue[s]) = None THEN "dead" ELSE "begin")
    /\ UNCHANGED <<runs, port, main, pending, stopEvent, currentProc, childVars>>

MarkRunning(s) ==
    /\ worker[s] = "begin"
    /\ runs' = [runs EXCEPT ![item[s]] = UpdateRow(@, "running", "none")]
    /\ WorkerGoes(s, "popen")
    /\ UNCHANGED <<serverVars, item, currentProc, childVars>>

\* The update raises out of _execute_run: the item is consumed, its row stays.
MarkRunningFails(s) ==
    /\ DbFaults
    /\ worker[s] = "begin"
    /\ DoneWith(s)
    /\ UNCHANGED <<runs, serverVars, currentProc, childVars>>

\* Popen and the assignment of _current_proc are under _proc_lock.
Spawn(s) ==
    /\ worker[s] = "popen"
    /\ child' = [child EXCEPT ![item[s]] = "alive"]
    /\ parent' = [parent EXCEPT ![item[s]] = s]
    /\ currentProc' = [currentProc EXCEPT ![s] = item[s]]
    /\ WorkerGoes(s, "wait")
    /\ UNCHANGED <<runs, serverVars, item, exit>>

\* Mutant of SpawnFails: the exception leaves the worker without a record.
SpawnFailsUnrecorded(s) ==
    /\ worker[s] = "popen"
    /\ DoneWith(s)
    /\ UNCHANGED <<runs, serverVars, currentProc, childVars>>

SpawnFails(s) ==
    /\ worker[s] = "popen"
    /\ WorkerGoes(s, "except")
    /\ UNCHANGED <<runs, serverVars, item, currentProc, childVars>>

\* communicate returns; the finally clause clears _current_proc.
Reap(s) ==
    /\ worker[s] = "wait"
    /\ child[item[s]] = "dead"
    /\ currentProc' = [currentProc EXCEPT ![s] = None]
    /\ WorkerGoes(s, "record")
    /\ UNCHANGED <<runs, serverVars, item, childVars>>

\* TimeoutExpired: kill(), which does nothing to a child that has just died.
Timeout(s) ==
    /\ worker[s] = "wait"
    /\ child' = [child EXCEPT ![item[s]] = IF @ = "dead" THEN @ ELSE "sigkill"]
    /\ WorkerGoes(s, "killed")
    /\ UNCHANGED <<runs, serverVars, item, currentProc, exit, parent>>

\* Mutant of RecordTimeout: the second communicate() is left out.
RecordTimeoutUnreaped(s) ==
    /\ worker[s] = "killed"
    /\ currentProc' = [currentProc EXCEPT ![s] = None]
    /\ runs' = [runs EXCEPT ![item[s]] = UpdateRow(@, "failed", "timeout")]
    /\ DoneWith(s)
    /\ UNCHANGED <<serverVars, childVars>>

\* The second communicate() returned: the run failed whatever the exit code is.
RecordTimeout(s) ==
    /\ worker[s] = "killed"
    /\ child[item[s]] = "dead"
    /\ currentProc' = [currentProc EXCEPT ![s] = None]
    /\ \/ /\ runs' = [runs EXCEPT ![item[s]] = UpdateRow(@, "failed", "timeout")]
          /\ DoneWith(s)
       \/ /\ DbFaults
          /\ WorkerGoes(s, "except")
          /\ UNCHANGED <<runs, item>>
    /\ UNCHANGED <<serverVars, childVars>>

\* Mutant of FinalStatus: the exit code is not looked at.
FinalStatusIgnoringCode(e) ==
    IF e \in {"BLOCKED_PREREQUISITE", "WAITING_FOR_APPROVAL"}
    THEN CASE e = "BLOCKED_PREREQUISITE" -> "blocked_prerequisite"
           [] OTHER                      -> "waiting_for_approval"
    ELSE "completed"

\* Exit code 0 settles the run by the status found at the end of the output.
FinalStatus(e) ==
    CASE e = "nonzero"              -> "failed"
      [] e = "BLOCKED_PREREQUISITE" -> "blocked_prerequisite"
      [] e = "WAITING_FOR_APPROVAL" -> "waiting_for_approval"
      [] OTHER                      -> "completed"

\* Mutant of RecordExit: the run is tried again once its end is recorded.
RecordExitRetrying(s) ==
    /\ worker[s] = "record"
    /\ runs' = [runs EXCEPT ![item[s]] = UpdateRow(@, FinalStatus(exit[item[s]]), "none")]
    /\ WorkerGoes(s, "begin")
    /\ UNCHANGED <<serverVars, item, currentProc, childVars>>

RecordExit(s) ==
    /\ worker[s] = "record"
    /\ LET e == exit[item[s]]
       IN  runs' = [runs EXCEPT ![item[s]] =
                      UpdateRow(@, FinalStatus(e), IF e = "nonzero" THEN "exit" ELSE "none")]
    /\ DoneWith(s)
    /\ UNCHANGED <<serverVars, currentProc, childVars>>

\* Mutant of RecordExitFails: a failed write repeats the whole try block.
RecordExitFailsRetrying(s) ==
    /\ DbFaults
    /\ worker[s] = "record"
    /\ WorkerGoes(s, "popen")
    /\ UNCHANGED <<runs, serverVars, item, currentProc, childVars>>

RecordExitFails(s) ==
    /\ DbFaults
    /\ worker[s] = "record"
    /\ WorkerGoes(s, "except")
    /\ UNCHANGED <<runs, serverVars, item, currentProc, childVars>>

\* The except clause of _execute_run; its own failure is ignored.
RecordException(s) ==
    /\ worker[s] = "except"
    /\ \/ runs' = [runs EXCEPT ![item[s]] = UpdateRow(@, "failed", "exception")]
       \/ DbFaults /\ UNCHANGED runs
    /\ DoneWith(s)
    /\ UNCHANGED <<serverVars, currentProc, childVars>>

-----------------------------------------------------------------------------
(* The child process, seen from outside: it ends by itself, or of a signal. *)

ChildExits(r) ==
    /\ child[r] \in {"alive", "sigterm"}
    /\ child' = [child EXCEPT ![r] = "dead"]
    /\ \E e \in Summaries \cup {"nonzero"} : exit' = [exit EXCEPT ![r] = e]
    /\ UNCHANGED <<runs, serverVars, workerVars, parent>>

ChildDies(r) ==
    /\ child[r] = "sigkill"
    /\ child' = [child EXCEPT ![r] = "dead"]
    /\ exit' = [exit EXCEPT ![r] = "nonzero"]
    /\ UNCHANGED <<runs, serverVars, workerVars, parent>>

MainStep(s) ==
    \/ Boot(s) \/ BootUnrecovered(s) \/ Bind(s) \/ BindFails(s)
    \/ \E r \in Runs : CreateRun(s, r)
    \/ PutItem(s)
    \/ Interrupt(s) \/ StopPut(s) \/ StopTerminate(s) \/ StopJoined(s)

WorkerStep(s) ==
    \/ CheckStop(s) \/ GetEmpty(s) \/ GetItem(s)
    \/ MarkRunning(s) \/ MarkRunningFails(s)
    \/ Spawn(s) \/ SpawnFails(s)
    \/ Reap(s) \/ Timeout(s) \/ RecordTimeout(s)
    \/ RecordExit(s) \/ RecordExitFails(s) \/ RecordException(s)

ChildStep(r) == ChildExits(r) \/ ChildDies(r)

Next ==
    \/ \E s \in Servers : MainStep(s) \/ WorkerStep(s) \/ Crash(s)
    \/ \E r \in Runs : ChildStep(r)

Spec == Init /\ [][Next]_vars

-----------------------------------------------------------------------------
(* Fairness.  The worker thread and the main thread are never blocked but  *)
(* where their next step is disabled; communicate() is bounded by its      *)
(* timeout; a process that got SIGKILL dies; the container is restarted    *)
(* (restart: unless-stopped).  Requests, interrupts, crashes and the end   *)
(* of a child by itself are not fair.                                      *)

MainContinues(s) == Bind(s) \/ PutItem(s) \/ StopPut(s) \/ StopTerminate(s) \/ StopJoined(s)

Fairness ==
    /\ \A s \in Servers :
          /\ WF_vars(WorkerStep(s))
          /\ WF_vars(MainContinues(s))
          /\ WF_vars(Boot(s))
    /\ \A r \in Runs : WF_vars(ChildDies(r))

FairSpec == Spec /\ Fairness

-----------------------------------------------------------------------------
(* What the queue guarantees. *)

Occurs(q, r) == \E i \in DOMAIN q : q[i] = r

InQueue(s, r) == Occurs(queue[s], r)

\* Server s still has the run in its memory.
Holds(s, r) == pending[s] = r \/ InQueue(s, r) \/ item[s] = r

\* Server s would still start the run's command.
WillStart(s, r) ==
    \/ pending[s] = r
    \/ InQueue(s, r)
    \/ item[s] = r /\ worker[s] \in {"begin", "popen"}

\* A run whose command was started once is nowhere in line to be started
\* again: not after a timeout, a failed write, a restart, or with a second
\* server on the same database (run_queue.py: "without re-executing").
NeverReexecuted ==
    \A s \in Servers, r \in Runs : WillStart(s, r) => child[r] = "none"

\* Sequential execution: a server never has two living children, also while
\* one of them is being killed or terminated.
OneChild ==
    \A r1, r2 \in Runs :
        /\ child[r1] \in Alive /\ child[r2] \in Alive
        /\ parent[r1] # None /\ parent[r1] = parent[r2]
        => r1 = r2

\* A row reports success, or a halt the orchestrator announced, only of a
\* child that ended that way, and blames an exit code only on a child that
\* failed.
OutcomeIsEarned ==
    \A r \in Runs :
        LET st == runs[r].status
        IN  /\ st \in Settled \ {"failed"} => child[r] = "dead"
            /\ st = "completed" => exit[r] \notin {"nonzero", "BLOCKED_PREREQUISITE", "WAITING_FOR_APPROVAL"}
            /\ st = "blocked_prerequisite" => exit[r] = "BLOCKED_PREREQUISITE"
            /\ st = "waiting_for_approval" => exit[r] = "WAITING_FOR_APPROVAL"
            /\ runs[r].error = "exit" => exit[r] = "nonzero"

\* The queue's memory and the table agree: while a server is up, each row that
\* says queued or running is a run this server still has in hand, so no poll
\* waits for a run that nobody will ever settle.  (One server, no failing
\* transaction.)
NoStrandedRun ==
    \A s \in Servers : main[s] \in {"bind", "serving", "put"} =>
        \A r \in Runs : runs[r].status \in InFlight => Holds(s, r)

\* A settled run is out of every server's hands: the failure a client saw
\* after a restart is not followed by a late execution.  (One server.)
SettledIsReleased ==
    \A r \in Runs : runs[r].status \in Settled => \A s \in Servers : ~Holds(s, r)

\* Every accepted run is settled in the end, by its child, by its timeout, or
\* by the recovery of a restarted server, however often servers crash or stop.
EventuallySettled ==
    \A r \in Runs : runs[r].status \in InFlight ~> runs[r].status \in Settled

Lifecycle == INSTANCE RunLifecycle WITH
    status  <- [r \in Runs |-> runs[r].status],
    started <- {r \in Runs : child[r] # "none"}

\* The table and the child processes implement the life of a run that clients
\* rely on: started at most once, settled once, settled for good.  (One server.)
ImplementsLifecycle == Lifecycle!Spec

=============================================================================
