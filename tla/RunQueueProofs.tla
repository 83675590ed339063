--------------------------- MODULE RunQueueProofs ---------------------------
(***************************************************************************)
(* What RunQueue guarantees for any set of runs and servers, what of it    *)
(* holds beside the writers of RunShadow, and what RunPolling tells.       *)
(***************************************************************************)
EXTENDS RunShadow, RunPolling, TLAPS, SequenceTheorems

-----------------------------------------------------------------------------
(* Sequences: what Append and Tail do to the elements of a queue. *)

NoDup(q) == \A i, j \in DOMAIN q : q[i] = q[j] /\ q[i] # None => i = j

\* Appending an element adds it and keeps the others.
LEMMA AppendOccurs ==
    ASSUME NEW S, NEW q \in Seq(S), NEW x \in S, NEW r
    PROVE  Occurs(Append(q, x), r) <=> Occurs(q, r) \/ x = r
<1>1. /\ DOMAIN q = 1 .. Len(q)
      /\ Len(q) \in Nat
      /\ DOMAIN Append(q, x) = 1 .. Len(q) + 1
      /\ Append(q, x)[Len(q) + 1] = x
      /\ \A i \in 1 .. Len(q) : Append(q, x)[i] = q[i]
    OBVIOUS
<1>2. QED
    BY <1>1 DEF Occurs

\* Appending what does not occur yet creates no duplicate.
LEMMA AppendNoDup ==
    ASSUME NEW S, NEW q \in Seq(S), NEW x \in S, NoDup(q), x = None \/ ~Occurs(q, x)
    PROVE  NoDup(Append(q, x))
<1>1. /\ DOMAIN q = 1 .. Len(q)
      /\ Len(q) \in Nat
      /\ DOMAIN Append(q, x) = 1 .. Len(q) + 1
      /\ Append(q, x)[Len(q) + 1] = x
      /\ \A i \in 1 .. Len(q) : Append(q, x)[i] = q[i]
    OBVIOUS
<1>2. QED
    BY <1>1 DEF NoDup, Occurs

\* Removing the head removes one occurrence of it and keeps the others.
LEMMA TailOccurs ==
    ASSUME NEW S, NEW q \in Seq(S), q # <<>>, NEW r
    PROVE  /\ Occurs(q, Head(q))
           /\ Occurs(Tail(q), r) => Occurs(q, r)
           /\ Occurs(q, r) => r = Head(q) \/ Occurs(Tail(q), r)
<1>1. /\ Len(q) \in Nat \ {0}
      /\ DOMAIN q = 1 .. Len(q)
      /\ Head(q) = q[1]
      /\ DOMAIN Tail(q) = 1 .. Len(q) - 1
      /\ \A i \in 1 .. Len(q) - 1 : Tail(q)[i] = q[i + 1]
    BY EmptySeq, LenProperties, HeadTailProperties
<1>2. Occurs(q, Head(q))
    BY <1>1 DEF Occurs
<1>3. Occurs(Tail(q), r) => Occurs(q, r)
    BY <1>1 DEF Occurs
<1>4. ASSUME Occurs(q, r), r # Head(q)
      PROVE  Occurs(Tail(q), r)
    <2>1. PICK i \in 1 .. Len(q) : q[i] = r
        BY <1>1, <1>4 DEF Occurs
    <2>2. i - 1 \in 1 .. Len(q) - 1 /\ Tail(q)[i - 1] = r
        BY <1>1, <1>4, <2>1
    <2>3. QED
        BY <1>1, <2>2 DEF Occurs
<1>5. QED
    BY <1>2, <1>3, <1>4

\* Without duplicates, the head does not occur in the tail.
LEMMA TailNoDup ==
    ASSUME NEW S, NEW q \in Seq(S), q # <<>>, NoDup(q)
    PROVE  /\ NoDup(Tail(q))
           /\ Head(q) # None => ~Occurs(Tail(q), Head(q))
<1>1. /\ Len(q) \in Nat \ {0}
      /\ DOMAIN q = 1 .. Len(q)
      /\ Head(q) = q[1]
      /\ DOMAIN Tail(q) = 1 .. Len(q) - 1
      /\ \A i \in 1 .. Len(q) - 1 : Tail(q)[i] = q[i + 1]
    BY EmptySeq, LenProperties, HeadTailProperties
<1>2. QED
    BY <1>1 DEF NoDup, Occurs

-----------------------------------------------------------------------------
(* Type correctness. *)

\* What the statements on the table write is a row.
LEMMA RowTypes ==
    /\ \A row \in Rows : RecoverRow(row) \in Rows
    /\ \A row \in Rows, st \in Statuses, e \in ErrorTexts : UpdateRow(row, st, e) \in Rows
    /\ \A st \in Statuses : NewRow(st) \in Rows
    /\ NoRow \in Rows
BY DEF Rows, RecoverRow, UpdateRow, NewRow, NoRow, Statuses, ErrorTexts, InFlight,
       Settled, TerminalStatuses

LEMMA FinalStatusType ==
    \A e : FinalStatus(e) \in Settled /\ FinalStatus(e) \in Statuses
BY DEF FinalStatus, Settled, TerminalStatuses, Statuses

\* While the worker handles an item, the item is a run.
Placed ==
    \A s \in Servers :
        /\ worker[s] \in Handling => item[s] \in Runs
        /\ item[s] \in Runs => worker[s] \in Handling
        /\ main[s] = "put" => pending[s] \in Runs
        /\ pending[s] \in Runs => main[s] = "put"
        /\ main[s] = "down" => worker[s] = "dead" /\ queue[s] = <<>>

LEMMA InitTyped == Init => TypeOK /\ Placed
BY RunQueueAssumption, EmptySeq
DEF Init, TypeOK, Placed, Rows, NoRow, Statuses, ErrorTexts, MainSteps, WorkerSteps,
    ChildStates, Exits, Handling

\* The end of a server's process keeps the variables in their types.
LEMMA GoneTyped ==
    ASSUME TypeOK, NEW s \in Servers, Gone(s)
    PROVE  TypeOK'
<1> USE DEF TypeOK
<1>1. child' \in [Runs -> ChildStates] /\ exit' \in [Runs -> Exits]
    BY DEF Gone, Exits, ChildStates
<1>2. parent' \in [Runs -> Servers \cup {None}]
    BY DEF Gone
<1>3. queue' \in [Servers -> Seq(Runs \cup {None})]
    BY EmptySeq DEF Gone
<1>4. QED
    BY <1>1, <1>2, <1>3 DEF Gone, MainSteps, WorkerSteps

\* So does every statement of the code.
LEMMA TypeStep ==
    ASSUME TypeOK, Placed, [Next]_vars
    PROVE  TypeOK'
<1> USE RunQueueAssumption DEF TypeOK, MainSteps, WorkerSteps
<1>1. ASSUME NEW s \in Servers, MainStep(s) PROVE TypeOK'
    <2>1. CASE Boot(s) \/ BootUnrecovered(s)
        <3>1. runs' \in [Runs -> Rows]
            BY <2>1, RowTypes DEF Boot, BootUnrecovered
        <3>2. QED
            BY <2>1, <3>1 DEF Boot, BootUnrecovered, StartWorker, childVars
    <2>2. CASE Bind(s)
        BY <2>2 DEF Bind, workerVars, childVars
    <2>3. CASE BindFails(s) \/ StopJoined(s)
        BY <2>3, GoneTyped DEF BindFails, StopJoined
    <2>4. ASSUME NEW r \in Runs, CreateRun(s, r) PROVE TypeOK'
        <3>1. runs' \in [Runs -> Rows]
            BY <2>4, RowTypes DEF CreateRun, Statuses, InFlight
        <3>2. QED
            BY <2>4, <3>1 DEF CreateRun, workerVars, childVars
    <2>5. CASE PutItem(s)
        BY <2>5 DEF PutItem, workerVars, childVars
    <2>6. CASE Interrupt(s)
        BY <2>6 DEF Interrupt, workerVars, childVars
    <2>7. CASE StopPut(s)
        BY <2>7 DEF StopPut, workerVars, childVars
    <2>8. CASE StopTerminate(s)
        <3>1. child' \in [Runs -> ChildStates]
            BY <2>8 DEF StopTerminate, ChildStates, Alive
        <3>2. QED
            BY <2>8, <3>1 DEF StopTerminate, workerVars
    <2>9. QED
        BY <1>1, <2>1, <2>2, <2>3, <2>4, <2>5, <2>6, <2>7, <2>8 DEF MainStep
<1>2. ASSUME NEW s \in Servers, WorkerStep(s) PROVE TypeOK'
    <2> DEFINE r == item[s]
    <2>0. worker[s] \in Handling => r \in Runs
        BY DEF Placed
    <2> USE <2>0 DEF WorkerGoes, DoneWith, serverVars, childVars, Handling
    <2>1. CASE CheckStop(s) \/ GetEmpty(s)
        BY <2>1 DEF CheckStop, GetEmpty
    <2>2. CASE GetItem(s)
        <3>1. Tail(queue[s]) \in Seq(Runs \cup {None}) /\ Head(queue[s]) \in Runs \cup {None}
            BY <2>2, HeadTailProperties DEF GetItem
        <3>2. QED
            BY <2>2, <3>1 DEF GetItem
    <2>3. CASE MarkRunning(s)
        <3>1. runs' = [runs EXCEPT ![r] = UpdateRow(runs[r], "running", "none")] /\ r \in Runs
            BY <2>3 DEF MarkRunning
        <3>2. runs' \in [Runs -> Rows]
            BY <3>1, RowTypes DEF Statuses, InFlight, ErrorTexts
        <3>3. QED
            BY <2>3, <3>2 DEF MarkRunning
    <2>4. CASE MarkRunningFails(s)
        BY <2>4 DEF MarkRunningFails
    <2>5. CASE Spawn(s)
        <3>1. child' \in [Runs -> ChildStates] /\ parent' \in [Runs -> Servers \cup {None}]
            BY <2>5 DEF Spawn, ChildStates, Alive
        <3>2. QED
            BY <2>5, <3>1 DEF Spawn
    <2>6. CASE SpawnFails(s) \/ RecordExitFails(s)
        BY <2>6 DEF SpawnFails, RecordExitFails
    <2>7. CASE Reap(s)
        BY <2>7 DEF Reap
    <2>8. CASE Timeout(s)
        <3>1. child' \in [Runs -> ChildStates]
            BY <2>8 DEF Timeout, ChildStates, Alive
        <3>2. QED
            BY <2>8, <3>1 DEF Timeout
    <2>9. CASE RecordTimeout(s)
        <3>1. UpdateRow(runs[r], "failed", "timeout") \in Rows
            BY <2>9, RowTypes DEF RecordTimeout, Statuses, Settled, TerminalStatuses, ErrorTexts
        <3>2. runs' \in [Runs -> Rows]
            BY <2>9, <3>1 DEF RecordTimeout
        <3>3. QED
            BY <2>9, <3>2 DEF RecordTimeout
    <2>10. CASE RecordExit(s)
        <3>1. \E st \in Statuses, e \in ErrorTexts :
                  runs' = [runs EXCEPT ![r] = UpdateRow(runs[r], st, e)]
            BY <2>10, FinalStatusType DEF RecordExit, ErrorTexts
        <3>r. r \in Runs
            BY <2>10 DEF RecordExit
        <3>2. runs' \in [Runs -> Rows]
            BY <3>1, <3>r, RowTypes
        <3>3. QED
            BY <2>10, <3>2 DEF RecordExit
    <2>11. CASE RecordException(s)
        <3>1. UpdateRow(runs[r], "failed", "exception") \in Rows
            BY <2>11, RowTypes DEF RecordException, Statuses, Settled, TerminalStatuses, ErrorTexts
        <3>2. runs' \in [Runs -> Rows]
            BY <2>11, <3>1 DEF RecordException
        <3>3. QED
            BY <2>11, <3>2 DEF RecordException
    <2>12. QED
        BY <1>2, <2>1, <2>2, <2>3, <2>4, <2>5, <2>6, <2>7, <2>8, <2>9, <2>10, <2>11
        DEF WorkerStep
<1>3. ASSUME NEW s \in Servers, Crash(s) PROVE TypeOK'
    BY <1>3, GoneTyped DEF Crash
<1>4. ASSUME NEW r \in Runs, ChildStep(r) PROVE TypeOK'
    BY <1>4 DEF ChildStep, ChildExits, ChildDies, serverVars, workerVars, ChildStates, Exits
<1>5. CASE UNCHANGED vars
    BY <1>5 DEF vars, serverVars, workerVars, childVars
<1>6. QED
    BY <1>1, <1>2, <1>3, <1>4, <1>5 DEF Next

LEMMA PlacedStep ==
    ASSUME TypeOK, Placed, [Next]_vars
    PROVE  Placed'
<1> USE RunQueueAssumption DEF TypeOK, Placed, Handling
<1>1. ASSUME NEW s \in Servers, MainStep(s) PROVE Placed'
    <2>1. CASE Boot(s) \/ BootUnrecovered(s)
        BY <2>1 DEF Boot, BootUnrecovered, StartWorker, childVars
    <2>2. CASE Bind(s)
        BY <2>2 DEF Bind, workerVars, childVars
    <2>3. CASE BindFails(s) \/ StopJoined(s)
        BY <2>3 DEF BindFails, StopJoined, Gone
    <2>4. ASSUME NEW r \in Runs, CreateRun(s, r) PROVE Placed'
        BY <2>4 DEF CreateRun, workerVars, childVars
    <2>5. CASE PutItem(s)
        BY <2>5 DEF PutItem, workerVars, childVars
    <2>6. CASE Interrupt(s) \/ StopPut(s) \/ StopTerminate(s)
        BY <2>6 DEF Interrupt, StopPut, StopTerminate, workerVars, childVars
    <2>7. QED
        BY <1>1, <2>1, <2>2, <2>3, <2>4, <2>5, <2>6 DEF MainStep
<1>2. ASSUME NEW s \in Servers, WorkerStep(s) PROVE Placed'
    <2> USE DEF WorkerGoes, DoneWith, serverVars, childVars
    <2>1. CASE CheckStop(s) \/ GetEmpty(s)
        BY <2>1 DEF CheckStop, GetEmpty
    <2>2. CASE GetItem(s)
        <3>1. Head(queue[s]) \in Runs \cup {None}
            BY <2>2, HeadTailProperties DEF GetItem
        <3>2. QED
            BY <2>2, <3>1 DEF GetItem
    <2>3. CASE MarkRunning(s) \/ MarkRunningFails(s) \/ Spawn(s) \/ SpawnFails(s)
        BY <2>3 DEF MarkRunning, MarkRunningFails, Spawn, SpawnFails
    <2>4. CASE Reap(s) \/ Timeout(s) \/ RecordTimeout(s)
        BY <2>4 DEF Reap, Timeout, RecordTimeout
    <2>5. CASE RecordExit(s) \/ RecordExitFails(s) \/ RecordException(s)
        BY <2>5 DEF RecordExit, RecordExitFails, RecordException
    <2>6. QED
        BY <1>2, <2>1, <2>2, <2>3, <2>4, <2>5 DEF WorkerStep
<1>3. ASSUME NEW s \in Servers, Crash(s) PROVE Placed'
    BY <1>3 DEF Crash, Gone
<1>4. ASSUME NEW r \in Runs, ChildStep(r) PROVE Placed'
    BY <1>4 DEF ChildStep, ChildExits, ChildDies, serverVars, workerVars
<1>5. CASE UNCHANGED vars
    BY <1>5 DEF vars, serverVars, workerVars, childVars
<1>6. QED
    BY <1>1, <1>2, <1>3, <1>4, <1>5 DEF Next

\* Type correctness.
THEOREM TypeCorrect == Spec => []TypeOK
<1>1. TypeOK /\ Placed /\ [Next]_vars => (TypeOK /\ Placed)'
    BY TypeStep, PlacedStep
<1>2. QED
    BY InitTyped, <1>1, PTL DEF Spec

-----------------------------------------------------------------------------
(* Who holds a run: the handler, the queue or the worker, and only one. *)

HeldOnce ==
    /\ \A s \in Servers : NoDup(queue[s])
    /\ \A s, t \in Servers, r \in Runs :
          /\ pending[s] = r => ~InQueue(t, r) /\ item[t] # r /\ (pending[t] = r => s = t)
          /\ InQueue(s, r) => item[t] # r /\ (InQueue(t, r) => s = t)
          /\ item[s] = r /\ item[t] = r => s = t

\* A run without a row is unknown to every server and has no child.
Fresh ==
    \A r \in Runs : runs[r].status = "absent" =>
        /\ child[r] = "none"
        /\ \A s \in Servers : ~Holds(s, r)

\* The row of a run never disappears.
LEMMA RowsStay ==
    ASSUME TypeOK, Placed, [Next]_vars, NEW r \in Runs, runs'[r].status = "absent"
    PROVE  runs[r].status = "absent"
<1> USE DEF TypeOK, Placed, Handling
<1>0. \A row \in Rows, st \in Statuses, e \in ErrorTexts :
          st # "absent" /\ UpdateRow(row, st, e).status = "absent" => row.status = "absent"
    BY DEF UpdateRow, Rows
<1>1. ASSUME NEW s \in Servers, MainStep(s) PROVE runs[r].status = "absent"
    <2>1. CASE Boot(s)
        <3>1. runs'[r] = RecoverRow(runs[r])
            BY <2>1 DEF Boot
        <3>2. QED
            BY <3>1 DEF RecoverRow
    <2>2. ASSUME NEW q \in Runs, CreateRun(s, q) PROVE runs[r].status = "absent"
        BY <2>2 DEF CreateRun, NewRow
    <2>3. QED
        BY <1>1, <2>1, <2>2 DEF MainStep, BootUnrecovered, Bind, BindFails, Gone,
            PutItem, Interrupt, StopPut, StopTerminate, StopJoined
<1>2. ASSUME NEW s \in Servers, WorkerStep(s) PROVE runs[r].status = "absent"
    <2>1. CASE MarkRunning(s)
        BY <1>0, <2>1 DEF MarkRunning, Statuses, InFlight, ErrorTexts
    <2>2. CASE RecordTimeout(s)
        <3>1. item[s] \in Runs
            BY <2>2 DEF RecordTimeout
        <3>2. UpdateRow(runs[r], "failed", "timeout").status = "absent" => runs[r].status = "absent"
            BY <1>0 DEF Statuses, Settled, TerminalStatuses, ErrorTexts
        <3>3. runs'[r] \in {runs[r], UpdateRow(runs[r], "failed", "timeout")}
            BY <2>2, <3>1 DEF RecordTimeout
        <3>4. QED
            BY <3>2, <3>3
    <2>3. CASE RecordExit(s)
        <3>1. FinalStatus(exit[item[s]]) \in Statuses \ {"absent"}
            BY FinalStatusType DEF Settled, TerminalStatuses
        <3>2. QED
            BY <1>0, <2>3, <3>1 DEF RecordExit, ErrorTexts
    <2>4. CASE RecordException(s)
        BY <1>0, <2>4 DEF RecordException, Statuses, Settled, TerminalStatuses, ErrorTexts
    <2>5. QED
        BY <1>2, <2>1, <2>2, <2>3, <2>4 DEF WorkerStep, CheckStop, GetEmpty, GetItem,
            MarkRunningFails, Spawn, SpawnFails, Reap, Timeout, RecordExitFails
<1>3. QED
    BY <1>1, <1>2 DEF Next, Crash, Gone, ChildStep, ChildExits, ChildDies, vars

\* What a step does to the contents of a queue.
QueueStep(s) ==
    \/ queue'[s] = queue[s]
    \/ queue'[s] = <<>>
    \/ queue'[s] = Append(queue[s], None)
    \/ queue'[s] = Append(queue[s], pending[s]) /\ PutItem(s)
    \/ queue'[s] = Tail(queue[s]) /\ GetItem(s)

LEMMA QueueSteps ==
    ASSUME TypeOK, [Next]_vars, NEW s \in Servers
    PROVE  QueueStep(s)
<1> USE DEF TypeOK, QueueStep
<1>1. ASSUME NEW t \in Servers, MainStep(t) PROVE QueueStep(s)
    BY <1>1 DEF MainStep, Boot, BootUnrecovered, StartWorker, Bind, BindFails, Gone, CreateRun,
        PutItem, Interrupt, StopPut, StopTerminate, StopJoined
<1>2. ASSUME NEW t \in Servers, WorkerStep(t) PROVE QueueStep(s)
    BY <1>2 DEF WorkerStep, CheckStop, GetEmpty, GetItem, MarkRunning, MarkRunningFails, Spawn,
        SpawnFails, Reap, Timeout, RecordTimeout, RecordExit, RecordExitFails, RecordException,
        serverVars
<1>3. QED
    BY <1>1, <1>2 DEF Next, Crash, Gone, ChildStep, ChildExits, ChildDies, vars, serverVars

\* Only CreateRun gives a server a run it did not hold.
LEMMA HoldsStep ==
    ASSUME TypeOK, Placed, [Next]_vars, NEW s \in Servers, NEW r \in Runs
    PROVE  /\ InQueue(s, r)' => InQueue(s, r) \/ (pending[s] = r /\ PutItem(s))
           /\ item'[s] = r => item[s] = r \/ (InQueue(s, r) /\ GetItem(s))
           /\ pending'[s] = r => pending[s] = r \/ CreateRun(s, r)
<1> USE RunQueueAssumption DEF TypeOK, Placed, Handling
<1>1. InQueue(s, r)' => InQueue(s, r) \/ (pending[s] = r /\ PutItem(s))
    <2>1. QueueStep(s)
        BY QueueSteps
    <2>a. queue[s] \in Seq(Runs \cup {None})
        OBVIOUS
    <2>2. /\ \A x \in Runs \cup {None} :
                Occurs(Append(queue[s], x), r) => Occurs(queue[s], r) \/ x = r
          /\ queue[s] # <<>> /\ Occurs(Tail(queue[s]), r) => Occurs(queue[s], r)
        <3>1. ASSUME NEW x \in Runs \cup {None}
              PROVE  Occurs(Append(queue[s], x), r) => Occurs(queue[s], r) \/ x = r
            BY <2>a, AppendOccurs
        <3>2. ASSUME queue[s] # <<>>
              PROVE  Occurs(Tail(queue[s]), r) => Occurs(queue[s], r)
            BY <2>a, <3>2, TailOccurs
        <3>3. QED
            BY <3>1, <3>2
    <2>3. ~Occurs(<<>>, r)
        <3>1. DOMAIN <<>> = {}
            BY EmptySeq, LenProperties
        <3>2. QED
            BY <3>1 DEF Occurs
    <2>4. GetItem(s) => queue[s] # <<>>
        BY DEF GetItem
    <2>5. QED
        BY <2>1, <2>2, <2>3, <2>4 DEF QueueStep, InQueue
<1>2. item'[s] = r => item[s] = r \/ (InQueue(s, r) /\ GetItem(s))
    <2>1. ASSUME NEW t \in Servers, MainStep(t) PROVE item'[s] = r => item[s] = r
        BY <2>1 DEF MainStep, Boot, BootUnrecovered, StartWorker, Bind, BindFails, Gone, CreateRun,
            PutItem, Interrupt, StopPut, StopTerminate, StopJoined, workerVars
    <2>2. ASSUME NEW t \in Servers, GetItem(t), item'[s] = r
          PROVE  item[s] = r \/ (InQueue(s, r) /\ GetItem(s))
        <3>1. Occurs(queue[t], Head(queue[t]))
            BY <2>2, TailOccurs DEF GetItem
        <3>2. QED
            BY <2>2, <3>1 DEF GetItem, InQueue
    <2>3. ASSUME NEW t \in Servers, WorkerStep(t), ~GetItem(t) PROVE item'[s] = r => item[s] = r
        BY <2>3 DEF WorkerStep, CheckStop, GetEmpty, MarkRunning, MarkRunningFails, Spawn,
            SpawnFails, Reap, Timeout, RecordTimeout, RecordExit, RecordExitFails, RecordException,
            DoneWith
    <2>4. QED
        BY <2>1, <2>2, <2>3 DEF Next, Crash, Gone, ChildStep, ChildExits, ChildDies, vars, workerVars
<1>3. pending'[s] = r => pending[s] = r \/ CreateRun(s, r)
    <2>1. ASSUME NEW t \in Servers, MainStep(t), pending'[s] = r
          PROVE  pending[s] = r \/ CreateRun(s, r)
        <3>1. ASSUME NEW q \in Runs, CreateRun(t, q) PROVE pending[s] = r \/ CreateRun(s, r)
            BY <2>1, <3>1 DEF CreateRun
        <3>2. QED
            BY <2>1, <3>1 DEF MainStep, Boot, BootUnrecovered, StartWorker, Bind, BindFails, Gone,
                PutItem, Interrupt, StopPut, StopTerminate, StopJoined, workerVars
    <2>2. ASSUME NEW t \in Servers, WorkerStep(t) PROVE pending' = pending
        BY <2>2 DEF WorkerStep, CheckStop, GetEmpty, GetItem, MarkRunning, MarkRunningFails, Spawn,
            SpawnFails, Reap, Timeout, RecordTimeout, RecordExit, RecordExitFails, RecordException,
            serverVars
    <2>3. QED
        BY <2>1, <2>2 DEF Next, Crash, Gone, ChildStep, ChildExits, ChildDies, vars, serverVars
<1>4. QED
    BY <1>1, <1>2, <1>3

\* A run is held at one place by one server, and never before it has a row.
LEMMA HeldOnceStep ==
    ASSUME TypeOK, Placed, HeldOnce, Fresh, [Next]_vars
    PROVE  HeldOnce'
<1> USE RunQueueAssumption DEF TypeOK
<1>1. ASSUME NEW s \in Servers, PutItem(s)
      PROVE  /\ pending'[s] = None
             /\ item' = item
    BY <1>1 DEF PutItem, workerVars
<1>2. ASSUME NEW s \in Servers, NEW r \in Runs, GetItem(s), item'[s] = r
      PROVE  item[s] # r => ~InQueue(s, r)'
    <2>1. queue[s] # <<>> /\ queue[s] \in Seq(Runs \cup {None}) /\ NoDup(queue[s])
        BY <1>2 DEF GetItem, HeldOnce
    <2>2. Head(queue[s]) # None => ~Occurs(Tail(queue[s]), Head(queue[s]))
        BY <2>1, TailNoDup
    <2>3. QED
        BY <1>2, <2>2 DEF GetItem, InQueue
<1>3. ASSUME NEW s \in Servers, NEW r \in Runs, CreateRun(s, r)
      PROVE  /\ \A t \in Servers : ~Holds(t, r)
             /\ queue' = queue /\ item' = item
             /\ \A t \in Servers : pending'[t] = r => s = t
    BY <1>3 DEF CreateRun, Fresh, Holds, workerVars
<1>4. ASSUME NEW s \in Servers PROVE NoDup(queue[s])'
    <2>0. queue[s] \in Seq(Runs \cup {None}) /\ NoDup(queue[s])
        BY DEF HeldOnce
    <2>1. CASE queue'[s] = queue[s]
        BY <2>0, <2>1 DEF NoDup
    <2>2. CASE queue'[s] = <<>>
        <3>1. DOMAIN <<>> = {}
            BY EmptySeq, LenProperties
        <3>2. QED
            BY <2>2, <3>1 DEF NoDup
    <2>3. CASE queue'[s] = Append(queue[s], None)
        BY <2>0, <2>3, AppendNoDup DEF NoDup
    <2>4. CASE queue'[s] = Append(queue[s], pending[s]) /\ PutItem(s)
        <3>1. pending[s] \in Runs
            BY <2>4 DEF PutItem, Placed
        <3>2. ~Occurs(queue[s], pending[s])
            BY <3>1 DEF HeldOnce, InQueue
        <3>3. QED
            BY <2>0, <2>4, <3>1, <3>2, AppendNoDup DEF NoDup
    <2>5. CASE queue'[s] = Tail(queue[s]) /\ GetItem(s)
        BY <2>0, <2>5, TailNoDup DEF NoDup, GetItem
    <2>6. QED
        BY <2>1, <2>2, <2>3, <2>4, <2>5, QueueSteps DEF QueueStep
<1>5. ASSUME NEW s \in Servers, NEW t \in Servers, NEW r \in Runs
      PROVE  /\ (pending[s] = r => ~InQueue(t, r) /\ item[t] # r /\ (pending[t] = r => s = t))'
             /\ (InQueue(s, r) => item[t] # r /\ (InQueue(t, r) => s = t))'
             /\ (item[s] = r /\ item[t] = r => s = t)'
    <2> DEFINE Moves(u) ==
            /\ InQueue(u, r)' => InQueue(u, r) \/ (pending[u] = r /\ PutItem(u))
            /\ item'[u] = r => item[u] = r \/ (InQueue(u, r) /\ GetItem(u))
            /\ pending'[u] = r => pending[u] = r \/ CreateRun(u, r)
    <2>0. Moves(s) /\ Moves(t)
        BY HoldsStep
    <2>h. /\ \A u, v \in Servers :
              /\ pending[u] = r => ~InQueue(v, r) /\ item[v] # r /\ (pending[v] = r => u = v)
              /\ InQueue(u, r) => item[v] # r /\ (InQueue(v, r) => u = v)
              /\ item[u] = r /\ item[v] = r => u = v
        BY DEF HeldOnce
    <2>r. r # None
        OBVIOUS
    <2>c. ASSUME NEW u \in Servers, CreateRun(u, r)
          PROVE  /\ \A v \in Servers : pending[v] # r /\ ~InQueue(v, r) /\ item[v] # r
                 /\ \A v \in Servers : ~InQueue(v, r)' /\ item'[v] # r
                 /\ \A v \in Servers : pending'[v] = r => u = v
        BY <1>3, <2>c DEF Holds, InQueue
    <2>1. (pending[s] = r => ~InQueue(t, r) /\ item[t] # r /\ (pending[t] = r => s = t))'
        BY <1>1, <2>0, <2>h, <2>c, <2>r
    <2>2. (InQueue(s, r) => item[t] # r /\ (InQueue(t, r) => s = t))'
        BY <1>1, <1>2, <2>0, <2>h, <2>r
    <2>3. (item[s] = r /\ item[t] = r => s = t)'
        BY <2>0, <2>h
    <2>4. QED
        BY <2>1, <2>2, <2>3
<1>6. QED
    BY <1>4, <1>5 DEF HeldOnce

\* The worker waits for a child that was started, and records one that ended.
Started ==
    \A s \in Servers :
        /\ worker[s] \in {"wait", "killed"} => child[item[s]] # "none"
        /\ worker[s] = "record" => child[item[s]] = "dead"

\* Who starts a child, and what becomes of one that has ended.
LEMMA ChildStarts ==
    ASSUME TypeOK, Placed, Started, [Next]_vars, NEW r \in Runs
    PROVE  \/ \E s \in Servers : Spawn(s) /\ item[s] = r
           \/ /\ child[r] = "none" <=> child'[r] = "none"
              /\ child[r] = "dead" => child'[r] = "dead" /\ exit'[r] = exit[r]
              /\ child'[r] \in Alive => child[r] \in Alive
<1> DEFINE Kept == /\ child[r] = "none" <=> child'[r] = "none"
                   /\ child[r] = "dead" => child'[r] = "dead" /\ exit'[r] = exit[r]
                   /\ child'[r] \in Alive => child[r] \in Alive
<1> USE DEF TypeOK, Alive
<1>1. ASSUME NEW s \in Servers, Gone(s) PROVE Kept
    BY <1>1 DEF Gone
<1>2. ASSUME NEW s \in Servers, MainStep(s), ~Gone(s) PROVE Kept
    BY <1>2 DEF MainStep, Boot, BootUnrecovered, StartWorker, Bind, BindFails, CreateRun,
        PutItem, Interrupt, StopPut, StopTerminate, StopJoined, childVars
<1>3. ASSUME NEW s \in Servers, WorkerStep(s), ~(Spawn(s) /\ item[s] = r) PROVE Kept
    <2>1. CASE Spawn(s)
        BY <1>3, <2>1 DEF Spawn
    <2>2. CASE Timeout(s)
        <3>1. child[item[s]] # "none"
            BY <2>2 DEF Timeout, Started
        <3>2. QED
            BY <2>2, <3>1 DEF Timeout, ChildStates
    <2>3. QED
        BY <1>3, <2>1, <2>2 DEF WorkerStep, CheckStop, GetEmpty, GetItem, MarkRunning,
            MarkRunningFails, SpawnFails, Reap, RecordTimeout, RecordExit, RecordExitFails,
            RecordException, childVars
<1>4. ASSUME NEW q \in Runs, ChildStep(q) PROVE Kept
    BY <1>4 DEF ChildStep, ChildExits, ChildDies
<1>5. QED
    BY <1>1, <1>2, <1>3, <1>4 DEF Next, Crash, vars, childVars

LEMMA FreshStep ==
    ASSUME TypeOK, Placed, Fresh, Started, [Next]_vars
    PROVE  Fresh'
<1> USE RunQueueAssumption
<1> SUFFICES ASSUME NEW r \in Runs, runs'[r].status = "absent"
             PROVE  child'[r] = "none" /\ \A s \in Servers : ~Holds(s, r)'
    BY DEF Fresh
<1>1. child[r] = "none" /\ \A s \in Servers : ~Holds(s, r)
    BY RowsStay DEF Fresh
<1>2. child'[r] = "none"
    BY <1>1, ChildStarts DEF Holds
<1>3. ASSUME NEW s \in Servers PROVE ~Holds(s, r)'
    <2>1. ~CreateRun(s, r)
        BY DEF CreateRun, NewRow, TypeOK
    <2>2. QED
        BY <1>1, <2>1, HoldsStep DEF Holds
<1>4. QED
    BY <1>2, <1>3
-----------------------------------------------------------------------------
(* The children: started once, and one at a time by each server. *)

\* A server's living child is the one its worker waits for.
WaitedFor ==
    \A r \in Runs : child[r] \in Alive /\ parent[r] # None =>
        item[parent[r]] = r /\ worker[parent[r]] \in {"wait", "killed"}

\* A run stays in line only by the hands that held it, and leaves it by Spawn.
LEMMA WillStartStep ==
    ASSUME TypeOK, Placed, HeldOnce, [Next]_vars, NEW s \in Servers, NEW r \in Runs,
           WillStart(s, r)'
    PROVE  \/ CreateRun(s, r)
           \/ WillStart(s, r) /\ \A t \in Servers : ~(Spawn(t) /\ item[t] = r)
<1> USE RunQueueAssumption DEF TypeOK
<1>1. ASSUME item'[s] = r, worker'[s] \in {"begin", "popen"}, item[s] = r
      PROVE  worker[s] \in {"begin", "popen"} /\ ~Spawn(s)
    <2>0. ~Spawn(s)
        BY <1>1 DEF Spawn, WorkerGoes
    <2>1. ASSUME NEW t \in Servers, MainStep(t) PROVE worker[s] \in {"begin", "popen"}
        BY <1>1, <2>1 DEF MainStep, Boot, BootUnrecovered, StartWorker, Bind, BindFails, Gone,
            CreateRun, PutItem, Interrupt, StopPut, StopTerminate, StopJoined, workerVars
    <2>2. ASSUME NEW t \in Servers, WorkerStep(t) PROVE worker[s] \in {"begin", "popen"}
        <3>1. t # s => worker'[s] = worker[s]
            BY <2>2 DEF WorkerStep, CheckStop, GetEmpty, GetItem, MarkRunning, MarkRunningFails,
                Spawn, SpawnFails, Reap, Timeout, RecordTimeout, RecordExit, RecordExitFails,
                RecordException, DoneWith, WorkerGoes
        <3>2. worker[s] \in Handling
            BY <1>1 DEF Placed
        <3>3. t = s => worker[s] \in {"begin", "popen"}
            BY <1>1, <2>2, <3>2 DEF WorkerStep, CheckStop, GetEmpty, GetItem, MarkRunning,
                MarkRunningFails, Spawn, SpawnFails, Reap, Timeout, RecordTimeout, RecordExit,
                RecordExitFails, RecordException, DoneWith, WorkerGoes, Handling
        <3>4. QED
            BY <1>1, <3>1, <3>3
    <2>3. ASSUME NEW t \in Servers, Crash(t) PROVE worker[s] \in {"begin", "popen"}
        BY <1>1, <2>3 DEF Crash, Gone
    <2>4. ASSUME NEW q \in Runs, ChildStep(q) PROVE worker[s] \in {"begin", "popen"}
        BY <1>1, <2>4 DEF ChildStep, ChildExits, ChildDies, workerVars
    <2>5. UNCHANGED vars => worker[s] \in {"begin", "popen"}
        BY <1>1 DEF vars, workerVars
    <2>6. QED
        BY <2>0, <2>1, <2>2, <2>3, <2>4, <2>5 DEF Next
<1>2. ~CreateRun(s, r) => WillStart(s, r)
    BY <1>1, HoldsStep DEF WillStart
<1>3. ASSUME NEW t \in Servers, Spawn(t), item[t] = r PROVE FALSE
    <2>1. item' = item /\ queue' = queue /\ pending' = pending
        BY <1>3 DEF Spawn, serverVars
    <2>2. pending[s] # r /\ ~InQueue(s, r)
        BY <1>3 DEF HeldOnce
    <2>3. item[s] = r /\ worker'[s] \in {"begin", "popen"}
        BY <2>1, <2>2 DEF WillStart, InQueue
    <2>4. s = t
        BY <1>3, <2>3 DEF HeldOnce
    <2>5. QED
        BY <1>3, <2>3, <2>4 DEF Spawn, WorkerGoes
<1>4. QED
    BY <1>2, <1>3

LEMMA NeverReexecutedStep ==
    ASSUME TypeOK, Placed, HeldOnce, Fresh, Started, NeverReexecuted, [Next]_vars
    PROVE  NeverReexecuted'
<1> SUFFICES ASSUME NEW s \in Servers, NEW r \in Runs, WillStart(s, r)'
             PROVE  child'[r] = "none"
    BY DEF NeverReexecuted
<1>1. CASE CreateRun(s, r)
    BY <1>1 DEF CreateRun, Fresh, childVars
<1>2. CASE WillStart(s, r) /\ \A t \in Servers : ~(Spawn(t) /\ item[t] = r)
    BY <1>2, ChildStarts DEF NeverReexecuted
<1>3. QED
    BY <1>1, <1>2, WillStartStep

LEMMA StartedStep ==
    ASSUME TypeOK, Placed, HeldOnce, Started, [Next]_vars
    PROVE  Started'
<1> USE RunQueueAssumption DEF TypeOK
<1> DEFINE Good(s) == /\ worker[s] \in {"wait", "killed"} => child[item[s]] # "none"
                      /\ worker[s] = "record" => child[item[s]] = "dead"
<1>1. ASSUME NEW s \in Servers, worker'[s] = worker[s], item'[s] = item[s] PROVE Good(s)'
    <2> SUFFICES ASSUME worker[s] \in {"wait", "killed", "record"} PROVE Good(s)'
        BY <1>1
    <2>1. item[s] \in Runs
        BY DEF Placed, Handling
    <2>2. ASSUME NEW t \in Servers, Spawn(t) PROVE item[s] # item[t]
        <3>1. s # t
            BY <2>2 DEF Spawn
        <3>2. QED
            BY <2>1, <3>1 DEF HeldOnce
    <2>3. QED
        BY <1>1, <2>1, <2>2, ChildStarts DEF Started
<1>2. ASSUME NEW s \in Servers, NEW t \in Servers, MainStep(t) \/ Crash(t) PROVE Good(s)'
    <2>1. CASE Gone(t)
        BY <1>1, <2>1 DEF Gone
    <2>2. CASE ~Gone(t)
        <3>1. (worker'[s] = worker[s] \/ worker'[s] = "loop") /\ item'[s] = item[s]
            BY <1>2, <2>2 DEF MainStep, Boot, BootUnrecovered, StartWorker, Bind, BindFails,
                CreateRun, PutItem, Interrupt, StopPut, StopTerminate, StopJoined, Crash, workerVars
        <3>2. QED
            BY <1>1, <3>1
    <2>3. QED
        BY <2>1, <2>2
<1>3. ASSUME NEW s \in Servers, NEW t \in Servers, WorkerStep(t), s # t PROVE Good(s)'
    <2>1. worker'[s] = worker[s] /\ item'[s] = item[s]
        BY <1>3 DEF WorkerStep, CheckStop, GetEmpty, GetItem, MarkRunning, MarkRunningFails,
            Spawn, SpawnFails, Reap, Timeout, RecordTimeout, RecordExit, RecordExitFails,
            RecordException, DoneWith, WorkerGoes
    <2>2. QED
        BY <1>1, <2>1
<1>4. ASSUME NEW s \in Servers, WorkerStep(s) PROVE Good(s)'
    <2>0. worker[s] \in Handling => item[s] \in Runs
        BY DEF Placed
    <2> USE <2>0 DEF Handling, WorkerGoes
    <2>1. CASE Spawn(s)
        BY <2>1 DEF Spawn
    <2>2. CASE Reap(s)
        BY <2>2 DEF Reap, childVars
    <2>3. CASE Timeout(s)
        BY <2>3 DEF Timeout
    <2>4. CASE ~Spawn(s) /\ ~Reap(s) /\ ~Timeout(s)
        <3>1. worker'[s] \notin {"wait", "killed", "record"}
            BY <1>4, <2>4 DEF WorkerStep, CheckStop, GetEmpty, GetItem, MarkRunning,
                MarkRunningFails, SpawnFails, RecordTimeout, RecordExit, RecordExitFails,
                RecordException, DoneWith
        <3>2. QED
            BY <3>1
    <2>5. QED
        BY <2>1, <2>2, <2>3, <2>4
<1>5. ASSUME NEW s \in Servers, NEW q \in Runs, ChildStep(q) PROVE Good(s)'
    BY <1>1, <1>5 DEF ChildStep, ChildExits, ChildDies, workerVars
<1>6. ASSUME NEW s \in Servers, UNCHANGED vars PROVE Good(s)'
    BY <1>1, <1>6 DEF vars, workerVars
<1>7. QED
    BY <1>2, <1>3, <1>4, <1>5, <1>6 DEF Next, Started

LEMMA WaitedForStep ==
    ASSUME TypeOK, Placed, HeldOnce, Started, WaitedFor, NeverReexecuted, [Next]_vars
    PROVE  WaitedFor'
<1> USE RunQueueAssumption DEF TypeOK
<1> SUFFICES ASSUME NEW r \in Runs, child'[r] \in Alive, parent'[r] # None
             PROVE  /\ item'[parent'[r]] = r
                    /\ worker'[parent'[r]] \in {"wait", "killed"}
    BY DEF WaitedFor
<1> DEFINE Good == /\ item'[parent'[r]] = r
                   /\ worker'[parent'[r]] \in {"wait", "killed"}
<1>1. CASE \E s \in Servers : Spawn(s) /\ item[s] = r
    BY <1>1 DEF Spawn, WorkerGoes
<1>2. CASE ~ \E s \in Servers : Spawn(s) /\ item[s] = r
    <2>1. child[r] \in Alive
        BY <1>2, ChildStarts
    <2>2. parent'[r] = parent[r]
        <3>1. ASSUME NEW s \in Servers, Gone(s) PROVE parent'[r] = parent[r]
            BY <3>1 DEF Gone
        <3>2. ASSUME NEW s \in Servers, MainStep(s), ~Gone(s) PROVE parent'[r] = parent[r]
            BY <3>2 DEF MainStep, Boot, BootUnrecovered, StartWorker, Bind, BindFails, CreateRun,
                PutItem, Interrupt, StopPut, StopTerminate, StopJoined, childVars
        <3>3. ASSUME NEW s \in Servers, WorkerStep(s) PROVE parent'[r] = parent[r]
            BY <3>3, <1>2 DEF WorkerStep, CheckStop, GetEmpty, GetItem, MarkRunning,
                MarkRunningFails, Spawn, SpawnFails, Reap, Timeout, RecordTimeout, RecordExit,
                RecordExitFails, RecordException, childVars
        <3>4. ASSUME NEW q \in Runs, ChildStep(q) PROVE parent'[r] = parent[r]
            BY <3>4 DEF ChildStep, ChildExits, ChildDies
        <3>5. QED
            BY <3>1, <3>2, <3>3, <3>4 DEF Next, Crash, vars, childVars
    <2> DEFINE s == parent[r]
    <2>3. s \in Servers /\ item[s] = r /\ worker[s] \in {"wait", "killed"}
        BY <2>1, <2>2 DEF WaitedFor
    <2> HIDE DEF s
    <2>4. item'[s] = r /\ worker'[s] \in {"wait", "killed"}
        <3>1. ASSUME NEW t \in Servers, Gone(t)
              PROVE  item'[s] = r /\ worker'[s] \in {"wait", "killed"}
            <4>1. s # t
                BY <3>1, <2>2 DEF Gone, s
            <4>2. QED
                BY <2>3, <3>1, <4>1 DEF Gone
        <3>2. ASSUME NEW t \in Servers, MainStep(t), ~Gone(t)
              PROVE  item'[s] = r /\ worker'[s] \in {"wait", "killed"}
            <4>1. main[t] = "down" => s # t
                BY <2>3 DEF Placed
            <4>2. QED
                BY <2>3, <3>2, <4>1 DEF MainStep, Boot, BootUnrecovered, StartWorker, Bind, BindFails,
                    CreateRun, PutItem, Interrupt, StopPut, StopTerminate, StopJoined, workerVars
        <3>3. ASSUME NEW t \in Servers, WorkerStep(t), t # s
              PROVE  item'[s] = r /\ worker'[s] \in {"wait", "killed"}
            BY <2>3, <3>3 DEF WorkerStep, CheckStop, GetEmpty, GetItem, MarkRunning,
                MarkRunningFails, Spawn, SpawnFails, Reap, Timeout, RecordTimeout, RecordExit,
                RecordExitFails, RecordException, DoneWith, WorkerGoes
        <3>4. ASSUME WorkerStep(s)
              PROVE  item'[s] = r /\ worker'[s] \in {"wait", "killed"}
            <4>1. child[item[s]] # "dead"
                BY <2>1, <2>3 DEF Alive
            <4>2. Timeout(s)
                BY <2>3, <3>4, <4>1 DEF WorkerStep, CheckStop, GetEmpty, GetItem, MarkRunning,
                    MarkRunningFails, Spawn, SpawnFails, Reap, RecordTimeout, RecordExit,
                    RecordExitFails, RecordException
            <4>3. QED
                BY <2>3, <4>2 DEF Timeout, WorkerGoes
        <3>5. ASSUME NEW q \in Runs, ChildStep(q)
              PROVE  item'[s] = r /\ worker'[s] \in {"wait", "killed"}
            BY <2>3, <3>5 DEF ChildStep, ChildExits, ChildDies, workerVars
        <3>6. QED
            BY <2>3, <3>1, <3>2, <3>3, <3>4, <3>5 DEF Next, Crash, vars, workerVars
    <2>5. QED
        BY <2>2, <2>4 DEF s
<1>3. QED
    BY <1>1, <1>2

-----------------------------------------------------------------------------
(* The inductive invariant, and what follows from it. *)

Inv == TypeOK /\ Placed /\ HeldOnce /\ Fresh /\ Started /\ NeverReexecuted /\ WaitedFor

LEMMA InvInit == Init => Inv
<1> SUFFICES ASSUME Init PROVE Inv
    OBVIOUS
<1>1. TypeOK /\ Placed
    BY InitTyped
<1>2. \A s \in Servers, r \in Runs : ~Holds(s, r) /\ ~WillStart(s, r) /\ ~InQueue(s, r)
    <2>1. DOMAIN <<>> = {}
        BY EmptySeq, LenProperties
    <2>2. QED
        BY <2>1, RunQueueAssumption DEF Init, Holds, WillStart, InQueue, Occurs
<1>3. HeldOnce
    <2>1. DOMAIN <<>> = {}
        BY EmptySeq, LenProperties
    <2>2. \A s \in Servers : NoDup(queue[s])
        BY <2>1 DEF Init, NoDup
    <2>3. QED
        BY <1>2, <2>2 DEF HeldOnce, Holds
<1>4. Fresh /\ NeverReexecuted
    BY <1>2 DEF Fresh, NeverReexecuted, Init
<1>5. Started /\ WaitedFor
    BY DEF Init, Started, WaitedFor, Alive
<1>6. QED
    BY <1>1, <1>3, <1>4, <1>5 DEF Inv

LEMMA InvStep == Inv /\ [Next]_vars => Inv'
BY TypeStep, PlacedStep, HeldOnceStep, FreshStep, StartedStep, NeverReexecutedStep, WaitedForStep
DEF Inv

LEMMA Invariant == Spec => []Inv
BY InvInit, InvStep, PTL DEF Spec

\* No run is in line to be started when its command was started already,
\* whatever crashes, restarts, timeouts, failed writes and second servers do.
THEOREM NoReexecution == Spec => []NeverReexecuted
<1>1. Inv => NeverReexecuted
    BY DEF Inv
<1>2. QED
    BY Invariant, <1>1, PTL

\* A server executes its runs one after the other.
THEOREM Sequential == Spec => []OneChild
<1>1. Inv => OneChild
    BY DEF Inv, WaitedFor, OneChild
<1>2. QED
    BY Invariant, <1>1, PTL
-----------------------------------------------------------------------------
(* What a row claims of its child. *)

\* A row that claims an outcome, or blames an exit code, has a child that ended.
Earned ==
    \A r \in Runs :
        LET st == runs[r].status
        IN  /\ st \in Settled \ {"failed"} => child[r] = "dead" /\ FinalStatus(exit[r]) = st
            /\ runs[r].error = "exit" => child[r] = "dead" /\ exit[r] = "nonzero"

\* A step that writes no outcome to the row of a run leaves the claim true.
LEMMA EarnedStays ==
    ASSUME TypeOK, Placed, Started, NeverReexecuted, Earned, [Next]_vars, NEW r \in Runs,
           \/ runs'[r] = runs[r]
           \/ /\ runs'[r].status \notin Settled \ {"failed"}
              /\ runs'[r].error = "exit" => runs[r].error = "exit"
    PROVE  LET st == runs'[r].status
           IN  /\ st \in Settled \ {"failed"} => child'[r] = "dead" /\ FinalStatus(exit'[r]) = st
               /\ runs'[r].error = "exit" => child'[r] = "dead" /\ exit'[r] = "nonzero"
<1>1. child[r] = "dead" => child'[r] = "dead" /\ exit'[r] = exit[r]
    <2>1. ASSUME NEW s \in Servers, Spawn(s), item[s] = r PROVE child[r] = "none"
        BY <2>1 DEF NeverReexecuted, WillStart, Spawn
    <2>2. QED
        BY <2>1, ChildStarts
<1>2. QED
    BY <1>1 DEF Earned

LEMMA EarnedStep ==
    ASSUME TypeOK, Placed, Started, NeverReexecuted, Earned, [Next]_vars
    PROVE  Earned'
<1> USE RunQueueAssumption DEF TypeOK
<1> DEFINE Quiet(r) == \/ runs'[r] = runs[r]
                       \/ /\ runs'[r].status \notin Settled \ {"failed"}
                          /\ runs'[r].error = "exit" => runs[r].error = "exit"
           Good(r) == LET st == runs'[r].status
                      IN  /\ st \in Settled \ {"failed"} =>
                                child'[r] = "dead" /\ FinalStatus(exit'[r]) = st
                          /\ runs'[r].error = "exit" => child'[r] = "dead" /\ exit'[r] = "nonzero"
<1>q. \A r \in Runs : Quiet(r) => Good(r)
    BY EarnedStays
<1>1. ASSUME NEW s \in Servers, MainStep(s), NEW r \in Runs PROVE Quiet(r)
    <2>1. CASE Boot(s)
        <3>1. runs'[r] = RecoverRow(runs[r])
            BY <2>1 DEF Boot
        <3>2. QED
            BY <3>1 DEF RecoverRow, Settled, TerminalStatuses
    <2>2. ASSUME NEW q \in Runs, CreateRun(s, q) PROVE Quiet(r)
        <3>1. runs'[r] \in {runs[r], NewRow("queued")}
            BY <2>2 DEF CreateRun
        <3>2. QED
            BY <3>1 DEF NewRow, Settled, TerminalStatuses
    <2>3. QED
        BY <1>1, <2>1, <2>2 DEF MainStep, BootUnrecovered, Bind, BindFails, Gone,
            PutItem, Interrupt, StopPut, StopTerminate, StopJoined
<1>2. ASSUME NEW s \in Servers, WorkerStep(s), NEW r \in Runs PROVE Good(r)
    <2>0. \A row \in Rows, st \in Statuses, e \in ErrorTexts :
              /\ UpdateRow(row, st, e).status \in {row.status, st}
              /\ UpdateRow(row, st, e).status = row.status /\ row.status = "absent"
                    => UpdateRow(row, st, e) = row
              /\ row.status # "absent" => UpdateRow(row, st, e).status = st
              /\ UpdateRow(row, st, e).error \in {row.error, e}
        BY DEF UpdateRow, Rows
    <2>h. worker[s] \in Handling => item[s] \in Runs
        BY DEF Placed
    <2>1. CASE MarkRunning(s)
        <3>1. runs'[r] \in {runs[r], UpdateRow(runs[r], "running", "none")}
            BY <2>1, <2>h DEF MarkRunning, Handling
        <3>2. Quiet(r)
            BY <2>0, <3>1 DEF Statuses, InFlight, ErrorTexts, Settled, TerminalStatuses, UpdateRow
        <3>3. QED
            BY <1>q, <3>2
    <2>2. ASSUME NEW e \in {"timeout", "exception"},
                 runs'[r] \in {runs[r], UpdateRow(runs[r], "failed", e)}
          PROVE  Good(r)
        <3>1. Quiet(r)
            BY <2>2 DEF UpdateRow, Settled, TerminalStatuses
        <3>2. QED
            BY <1>q, <3>1
    <2>3. CASE RecordTimeout(s)
        <3>1. runs'[r] \in {runs[r], UpdateRow(runs[r], "failed", "timeout")}
            BY <2>3, <2>h DEF RecordTimeout, Handling
        <3>2. QED
            BY <2>2, <3>1
    <2>4. CASE RecordException(s)
        <3>1. runs'[r] \in {runs[r], UpdateRow(runs[r], "failed", "exception")}
            BY <2>4, <2>h DEF RecordException, Handling
        <3>2. QED
            BY <2>2, <3>1
    <2>5. CASE RecordExit(s)
        <3>1. CASE item[s] # r
            <4>1. runs'[r] = runs[r]
                BY <2>5, <3>1 DEF RecordExit
            <4>2. QED
                BY <1>q, <4>1
        <3>2. CASE item[s] = r
            <4>1. child[r] = "dead" /\ child' = child /\ exit' = exit
                BY <2>5, <3>2 DEF RecordExit, Started, childVars
            <4>2. runs'[r] = UpdateRow(runs[r], FinalStatus(exit[r]),
                                       IF exit[r] = "nonzero" THEN "exit" ELSE "none")
                BY <2>5, <3>2 DEF RecordExit
            <4>3. FinalStatus(exit[r]) \in Statuses /\ FinalStatus(exit[r]) # "absent"
                BY FinalStatusType DEF Settled, TerminalStatuses
            <4>4. \/ runs'[r] = runs[r]
                  \/ /\ runs'[r].status = FinalStatus(exit[r])
                     /\ runs'[r].error \in {runs[r].error, IF exit[r] = "nonzero" THEN "exit" ELSE "none"}
                BY <4>2 DEF UpdateRow
            <4>5. CASE runs'[r] = runs[r]
                BY <1>q, <4>5
            <4>6. CASE /\ runs'[r].status = FinalStatus(exit[r])
                       /\ runs'[r].error \in {runs[r].error, IF exit[r] = "nonzero" THEN "exit" ELSE "none"}
                <5>1. runs'[r].error = "exit" => exit[r] = "nonzero"
                    BY <4>6 DEF Earned
                <5>2. QED
                    BY <4>1, <4>6, <5>1
            <4>7. QED
                BY <4>4, <4>5, <4>6
        <3>3. QED
            BY <3>1, <3>2
    <2>6. CASE runs' = runs
        BY <1>q, <2>6
    <2>7. QED
        BY <1>2, <2>1, <2>3, <2>4, <2>5, <2>6 DEF WorkerStep, CheckStop, GetEmpty, GetItem,
            MarkRunningFails, Spawn, SpawnFails, Reap, Timeout, RecordExitFails
<1>3. ASSUME runs' = runs, NEW r \in Runs PROVE Good(r)
    BY <1>q, <1>3
<1>4. Next => (\E s \in Servers : MainStep(s) \/ WorkerStep(s)) \/ runs' = runs
    BY DEF Next, Crash, Gone, ChildStep, ChildExits, ChildDies
<1>5. \A r \in Runs : Good(r)
    BY <1>q, <1>1, <1>2, <1>3, <1>4 DEF vars
<1>6. QED
    BY <1>5 DEF Earned

LEMMA EarnedInvariant == Spec => []Earned
<1>1. Init => Earned
    <2>1. ASSUME Init, NEW r \in Runs
          PROVE  runs[r].status \notin Settled /\ runs[r].error # "exit"
        BY <2>1 DEF Init, NoRow, Settled, TerminalStatuses
    <2>2. QED
        BY <2>1 DEF Earned
<1>2. Inv /\ Earned /\ [Next]_vars => Earned'
    BY EarnedStep DEF Inv
<1>3. QED
    BY Invariant, <1>1, <1>2, PTL DEF Spec

\* A row's outcome is the one its child ended with.
THEOREM OutcomesAreEarned == Spec => []OutcomeIsEarned
<1>1. Earned => OutcomeIsEarned
    BY DEF Earned, OutcomeIsEarned, FinalStatus, Settled, TerminalStatuses
<1>2. QED
    BY EarnedInvariant, <1>1, PTL
-----------------------------------------------------------------------------
(* One server: the table and the server's memory agree. *)

\* Who writes the row of a run.
LEMMA RowSteps ==
    ASSUME TypeOK, Placed, [Next]_vars, NEW r \in Runs
    PROVE  \/ runs'[r] = runs[r]
           \/ \E s \in Servers : Boot(s) /\ runs'[r] = RecoverRow(runs[r])
           \/ \E s \in Servers : CreateRun(s, r) /\ runs'[r] = NewRow("queued")
           \/ \E s \in Servers : /\ item[s] = r /\ MarkRunning(s)
                                 /\ runs'[r] = UpdateRow(runs[r], "running", "none")
           \/ \E s \in Servers, st \in Settled, e \in ErrorTexts :
                 /\ item[s] = r /\ item'[s] = None /\ UNCHANGED serverVars
                 /\ runs'[r] = UpdateRow(runs[r], st, e)
<1> USE RunQueueAssumption DEF TypeOK
<1> DEFINE Good ==
        \/ runs'[r] = runs[r]
        \/ \E s \in Servers : Boot(s) /\ runs'[r] = RecoverRow(runs[r])
        \/ \E s \in Servers : CreateRun(s, r) /\ runs'[r] = NewRow("queued")
        \/ \E s \in Servers : /\ item[s] = r /\ MarkRunning(s)
                              /\ runs'[r] = UpdateRow(runs[r], "running", "none")
        \/ \E s \in Servers, st \in Settled, e \in ErrorTexts :
              /\ item[s] = r /\ item'[s] = None /\ UNCHANGED serverVars
              /\ runs'[r] = UpdateRow(runs[r], st, e)
<1>1. ASSUME NEW s \in Servers, MainStep(s) PROVE Good
    <2>1. CASE Boot(s)
        BY <2>1 DEF Boot
    <2>2. ASSUME NEW q \in Runs, CreateRun(s, q) PROVE Good
        BY <2>2 DEF CreateRun
    <2>3. QED
        BY <1>1, <2>1, <2>2 DEF MainStep, BootUnrecovered, Bind, BindFails, Gone,
            PutItem, Interrupt, StopPut, StopTerminate, StopJoined
<1>2. ASSUME NEW s \in Servers, WorkerStep(s) PROVE Good
    <2>h. worker[s] \in Handling => item[s] \in Runs
        BY DEF Placed
    <2>1. CASE MarkRunning(s)
        BY <2>1, <2>h DEF MarkRunning, Handling
    <2>2. ASSUME NEW st \in Settled, NEW e \in ErrorTexts, item[s] \in Runs, DoneWith(s),
                 runs' = [runs EXCEPT ![item[s]] = UpdateRow(@, st, e)], UNCHANGED serverVars
          PROVE  Good
        <3>1. CASE item[s] = r
            <4>1. item'[s] = None /\ runs'[r] = UpdateRow(runs[r], st, e)
                BY <2>2, <3>1 DEF DoneWith
            <4>2. QED
                BY <2>2, <3>1, <4>1
        <3>2. CASE item[s] # r
            BY <2>2, <3>2
        <3>3. QED
            BY <3>1, <3>2
    <2>3. CASE RecordTimeout(s)
        <3>1. "failed" \in Settled /\ "timeout" \in ErrorTexts
            BY DEF Settled, TerminalStatuses, ErrorTexts
        <3>2. CASE runs' = runs
            BY <3>2
        <3>3. CASE runs' # runs
            <4>1. runs' = [runs EXCEPT ![item[s]] = UpdateRow(@, "failed", "timeout")] /\ DoneWith(s)
                BY <2>3, <3>3 DEF RecordTimeout
            <4>2. QED
                BY <2>2, <2>3, <2>h, <3>1, <4>1 DEF RecordTimeout, Handling
        <3>4. QED
            BY <3>2, <3>3
    <2>4. CASE RecordExit(s)
        <3> DEFINE e == IF exit[item[s]] = "nonzero" THEN "exit" ELSE "none"
        <3>1. FinalStatus(exit[item[s]]) \in Settled /\ e \in ErrorTexts
            BY FinalStatusType DEF ErrorTexts
        <3>2. runs' = [runs EXCEPT ![item[s]] = UpdateRow(@, FinalStatus(exit[item[s]]), e)]
            BY <2>4 DEF RecordExit
        <3> HIDE DEF e
        <3>3. QED
            BY <2>2, <2>4, <2>h, <3>1, <3>2 DEF RecordExit, Handling
    <2>5. CASE RecordException(s)
        <3>1. "failed" \in Settled /\ "exception" \in ErrorTexts
            BY DEF Settled, TerminalStatuses, ErrorTexts
        <3>2. CASE runs' = runs
            BY <3>2
        <3>3. CASE runs' # runs
            <4>1. runs' = [runs EXCEPT ![item[s]] = UpdateRow(@, "failed", "exception")]
                BY <2>5, <3>3 DEF RecordException
            <4>2. QED
                BY <2>2, <2>5, <2>h, <3>1, <4>1 DEF RecordException, Handling
        <3>4. QED
            BY <3>2, <3>3
    <2>6. QED
        BY <1>2, <2>1, <2>3, <2>4, <2>5 DEF WorkerStep, CheckStop, GetEmpty, GetItem,
            MarkRunningFails, Spawn, SpawnFails, Reap, Timeout, RecordExitFails
<1>3. Next => (\E s \in Servers : MainStep(s) \/ WorkerStep(s)) \/ runs' = runs
    BY DEF Next, Crash, Gone, ChildStep, ChildExits, ChildDies
<1>4. QED
    BY <1>1, <1>2, <1>3 DEF vars

\* A server that is down holds nothing.
LEMMA DownHoldsNothing ==
    ASSUME Placed, NEW s \in Servers, NEW r \in Runs, main[s] = "down"
    PROVE  ~Holds(s, r)
<1>1. DOMAIN <<>> = {}
    BY EmptySeq, LenProperties
<1>2. QED
    BY <1>1 DEF Placed, Holds, InQueue, Occurs, Handling

LEMMA SettledIsReleasedStep ==
    ASSUME ~Overlap, Inv, SettledIsReleased, [Next]_vars
    PROVE  SettledIsReleased'
<1> USE RunQueueAssumption DEF Inv
<1> SUFFICES ASSUME NEW r \in Runs, NEW s \in Servers, Holds(s, r)'
             PROVE  runs'[r].status \notin Settled
    BY DEF SettledIsReleased
<1>0. \A st : st \in InFlight => st \notin Settled
    BY DEF InFlight, Settled, TerminalStatuses
<1>1. CASE CreateRun(s, r)
    BY <1>1 DEF CreateRun, NewRow, TypeOK, Settled, TerminalStatuses
<1>2. CASE ~CreateRun(s, r)
    <2>1. Holds(s, r)
        BY <1>2, HoldsStep DEF Holds
    <2>2. runs[r].status \notin Settled /\ runs[r].status # "absent"
        BY <2>1 DEF SettledIsReleased, Fresh
    <2>3. ASSUME NEW t \in Servers, Boot(t) PROVE FALSE
        <3>1. main[s] = "down"
            BY <2>3 DEF Boot, StartWorker
        <3>2. QED
            BY <2>1, <3>1, DownHoldsNothing
    <2>4. ASSUME NEW t \in Servers, CreateRun(t, r) PROVE FALSE
        BY <2>2, <2>4 DEF CreateRun
    <2>5. CASE runs'[r] = UpdateRow(runs[r], "running", "none")
        BY <2>2, <2>5 DEF UpdateRow, Settled, TerminalStatuses
    <2>6. ASSUME NEW t \in Servers, item[t] = r, item'[t] = None, UNCHANGED serverVars PROVE FALSE
        <3>1. s = t /\ pending[s] # r /\ ~InQueue(s, r)
            BY <2>1, <2>6 DEF Holds, HeldOnce
        <3>2. QED
            BY <2>6, <3>1 DEF Holds, InQueue, serverVars
    <2>7. QED
        BY <2>2, <2>3, <2>4, <2>5, <2>6, RowSteps
<1>3. QED
    BY <1>1, <1>2

\* Where servers do not overlap, a settled run is out of every server's hands.
THEOREM SettledRunsAreReleased ==
    ASSUME ~Overlap
    PROVE  Spec => []SettledIsReleased
<1>1. Init => SettledIsReleased
    BY DEF Init, SettledIsReleased, NoRow, Settled, TerminalStatuses
<1>2. Inv /\ SettledIsReleased /\ [Next]_vars => SettledIsReleased'
    BY SettledIsReleasedStep
<1>3. QED
    BY Invariant, <1>1, <1>2, PTL DEF Spec
\* At most one server is up.
Single == \A s, t \in Servers : main[s] # "down" /\ main[t] # "down" => s = t

LEMMA SingleStep ==
    ASSUME ~Overlap, TypeOK, Single, [Next]_vars
    PROVE  Single'
<1> USE DEF TypeOK, Single
<1>1. ASSUME NEW s \in Servers, MainStep(s) PROVE Single'
    <2>1. CASE Boot(s) \/ BootUnrecovered(s)
        BY <2>1 DEF Boot, BootUnrecovered, StartWorker
    <2>2. \A t \in Servers : ~(Boot(s) \/ BootUnrecovered(s)) /\ main'[t] # "down" => main[t] # "down"
        BY <1>1 DEF MainStep, Bind, BindFails, Gone, CreateRun, PutItem, Interrupt, StopPut,
            StopTerminate, StopJoined
    <2>3. QED
        BY <2>1, <2>2
<1>2. ASSUME NEW s \in Servers, WorkerStep(s) PROVE Single'
    BY <1>2 DEF WorkerStep, CheckStop, GetEmpty, GetItem, MarkRunning, MarkRunningFails, Spawn,
        SpawnFails, Reap, Timeout, RecordTimeout, RecordExit, RecordExitFails, RecordException,
        serverVars
<1>3. QED
    BY <1>1, <1>2 DEF Next, Crash, Gone, ChildStep, ChildExits, ChildDies, vars, serverVars

LEMMA PutOccurs ==
    ASSUME TypeOK, NEW s \in Servers, NEW x \in Runs \cup {None}, NEW r
    PROVE  Occurs(Append(queue[s], x), r) <=> Occurs(queue[s], r) \/ x = r
<1>1. queue[s] \in Seq(Runs \cup {None})
    BY DEF TypeOK
<1>2. QED
    BY <1>1, AppendOccurs

\* While the handler and the worker pass a run on, a server keeps it.
LEMMA HeldOn ==
    ASSUME ~DbFaults, Inv, [Next]_vars, NEW s \in Servers, NEW r \in Runs, Holds(s, r),
           main'[s] \in {"bind", "serving", "put"}
    PROVE  Holds(s, r)' \/ runs'[r].status \in Settled
<1> USE RunQueueAssumption DEF Inv, TypeOK
<1>1. r # None /\ runs[r].status # "absent" /\ queue[s] \in Seq(Runs \cup {None})
    BY DEF Fresh
<1>2. ASSUME NEW t \in Servers, MainStep(t) PROVE Holds(s, r)'
    <2>0. main[s] # "down"
        BY DownHoldsNothing
    <2>1. CASE PutItem(t)
        <3>1. pending[s] \in Runs \cup {None}
            OBVIOUS
        <3>2. Occurs(Append(queue[s], pending[s]), r) <=> Occurs(queue[s], r) \/ pending[s] = r
            BY <3>1, PutOccurs
        <3>3. QED
            BY <1>1, <2>1, <3>2 DEF PutItem, Holds, InQueue, workerVars
    <2>2. ASSUME NEW q \in Runs, CreateRun(t, q) PROVE Holds(s, r)'
        <3>1. pending[t] # r
            BY <2>2 DEF CreateRun, Placed
        <3>2. QED
            BY <2>2, <3>1 DEF CreateRun, Holds, InQueue, workerVars
    <2>3. CASE StopPut(t)
        BY <2>3 DEF StopPut, Holds, InQueue, workerVars
    <2>4. CASE Interrupt(t)
        BY <2>4 DEF Interrupt, Holds, InQueue, workerVars
    <2>5. CASE BindFails(t) \/ StopJoined(t)
        BY <2>5 DEF BindFails, StopJoined, Gone, Holds, InQueue
    <2>6. CASE Boot(t) \/ BootUnrecovered(t) \/ Bind(t) \/ StopTerminate(t)
        <3>1. queue' = queue /\ item' = item /\ pending' = pending
            BY <2>6 DEF Boot, BootUnrecovered, StartWorker, Bind, StopTerminate, workerVars
        <3>2. QED
            BY <3>1 DEF Holds, InQueue
    <2>7. QED
        BY <1>2, <2>1, <2>2, <2>3, <2>4, <2>5, <2>6 DEF MainStep
<1>3. ASSUME NEW t \in Servers, WorkerStep(t) PROVE Holds(s, r)' \/ runs'[r].status \in Settled
    <2>1. CASE GetItem(t)
        <3>1. InQueue(s, r) /\ s = t => r = Head(queue[s]) \/ Occurs(Tail(queue[s]), r)
            BY <1>1, <2>1, TailOccurs DEF InQueue, GetItem
        <3>2. item[t] # r
            BY <2>1 DEF GetItem, Placed, Handling
        <3>3. pending' = pending
            BY <2>1 DEF GetItem
        <3>4. QED
            BY <2>1, <3>1, <3>2, <3>3 DEF GetItem, Holds, InQueue
    <2>2. ASSUME NEW st \in Settled, NEW e \in ErrorTexts, DoneWith(t), UNCHANGED serverVars,
                 runs' = [runs EXCEPT ![item[t]] = UpdateRow(@, st, e)]
          PROVE  Holds(s, r)' \/ runs'[r].status \in Settled
        <3>1. CASE item[t] = r
            BY <1>1, <2>2, <3>1 DEF UpdateRow
        <3>2. CASE item[t] # r
            BY <2>2, <3>2 DEF DoneWith, Holds, InQueue, serverVars
        <3>3. QED
            BY <3>1, <3>2
    <2>3. CASE RecordTimeout(t)
        <3>1. "failed" \in Settled /\ "timeout" \in ErrorTexts
            BY DEF Settled, TerminalStatuses, ErrorTexts
        <3>2. runs' = [runs EXCEPT ![item[t]] = UpdateRow(@, "failed", "timeout")] /\ DoneWith(t)
            BY <2>3 DEF RecordTimeout
        <3>3. QED
            BY <2>2, <2>3, <3>1, <3>2 DEF RecordTimeout
    <2>4. CASE RecordExit(t)
        <3> DEFINE e == IF exit[item[t]] = "nonzero" THEN "exit" ELSE "none"
        <3>1. FinalStatus(exit[item[t]]) \in Settled /\ e \in ErrorTexts
            BY FinalStatusType DEF ErrorTexts
        <3>2. runs' = [runs EXCEPT ![item[t]] = UpdateRow(@, FinalStatus(exit[item[t]]), e)]
            BY <2>4 DEF RecordExit
        <3> HIDE DEF e
        <3>3. QED
            BY <2>2, <2>4, <3>1, <3>2 DEF RecordExit
    <2>5. CASE RecordException(t)
        <3>1. "failed" \in Settled /\ "exception" \in ErrorTexts
            BY DEF Settled, TerminalStatuses, ErrorTexts
        <3>2. runs' = [runs EXCEPT ![item[t]] = UpdateRow(@, "failed", "exception")]
            BY <2>5 DEF RecordException
        <3>3. QED
            BY <2>2, <2>5, <3>1, <3>2 DEF RecordException
    <2>6. QED
        BY <1>3, <2>1, <2>3, <2>4, <2>5 DEF WorkerStep, CheckStop, GetEmpty, MarkRunning,
            MarkRunningFails, Spawn, SpawnFails, Reap, Timeout, RecordExitFails, Holds, InQueue,
            serverVars
<1>4. ASSUME NEW t \in Servers, Crash(t) PROVE Holds(s, r)'
    BY <1>4 DEF Crash, Gone, Holds, InQueue
<1>5. QED
    BY <1>2, <1>3, <1>4 DEF Next, ChildStep, ChildExits, ChildDies, vars, serverVars, workerVars,
        Holds, InQueue

LEMMA NoStrandedRunStep ==
    ASSUME ~Overlap, ~DbFaults, Inv, Single, SettledIsReleased, NoStrandedRun, [Next]_vars
    PROVE  NoStrandedRun'
<1> USE RunQueueAssumption DEF Inv, TypeOK
<1> SUFFICES ASSUME NEW s \in Servers, main'[s] \in {"bind", "serving", "put"},
                    NEW r \in Runs, runs'[r].status \in InFlight
             PROVE  Holds(s, r)'
    BY DEF NoStrandedRun
<1>0. runs'[r].status \notin Settled
    BY DEF InFlight, Settled, TerminalStatuses
<1>1. ASSUME NEW t \in Servers, CreateRun(t, r) PROVE Holds(s, r)'
    <2>1. s = t
        BY <1>1 DEF CreateRun, Single
    <2>2. QED
        BY <1>1, <2>1 DEF CreateRun, Holds
<1>2. ASSUME NEW t \in Servers, Boot(t) PROVE FALSE
    BY <1>2 DEF Boot, RecoverRow, InFlight
<1>3. CASE /\ \A t \in Servers : ~CreateRun(t, r)
           /\ \A t \in Servers : ~Boot(t)
    <2>1. main[s] \in {"bind", "serving", "put"}
        <3>1. ASSUME NEW t \in Servers, MainStep(t) PROVE main[s] \in {"bind", "serving", "put"}
            BY <1>3, <3>1 DEF MainStep, BootUnrecovered, Bind, BindFails, Gone, CreateRun,
                PutItem, Interrupt, StopPut, StopTerminate, StopJoined
        <3>2. ASSUME NEW t \in Servers, WorkerStep(t) PROVE main' = main
            BY <3>2 DEF WorkerStep, CheckStop, GetEmpty, GetItem, MarkRunning, MarkRunningFails,
                Spawn, SpawnFails, Reap, Timeout, RecordTimeout, RecordExit, RecordExitFails,
                RecordException, serverVars
        <3>3. QED
            BY <3>1, <3>2 DEF Next, Crash, Gone, ChildStep, ChildExits, ChildDies, vars, serverVars
    <2>2. runs[r].status \in InFlight
        <3>1. \A t \in Servers : item[t] = r => runs[r].status \in InFlight
            BY DEF SettledIsReleased, Fresh, Holds, Rows, Statuses
        <3>2. \A st \in Settled : \A e : runs'[r] = UpdateRow(runs[r], st, e)
                  => runs[r].status = "absent"
            BY <1>0 DEF UpdateRow
        <3>3. \A t \in Servers : item[t] = r => runs[r].status # "absent"
            BY DEF Fresh, Holds
        <3>4. QED
            BY <1>3, <3>1, <3>2, <3>3, RowSteps
    <2>3. Holds(s, r)
        BY <2>1, <2>2 DEF NoStrandedRun
    <2>4. QED
        BY <1>0, <2>3, HeldOn
<1>4. QED
    BY <1>1, <1>2, <1>3

\* Where servers do not overlap and no transaction fails, a server that is up
\* has every run that the table calls queued or running.
THEOREM NoRunIsStranded ==
    ASSUME ~Overlap, ~DbFaults
    PROVE  Spec => []NoStrandedRun
<1> DEFINE Both == Single /\ NoStrandedRun
<1>1. Init => Both
    BY DEF Init, Single, NoStrandedRun
<1>2. Inv /\ SettledIsReleased /\ Both /\ [Next]_vars => Both'
    BY SingleStep, NoStrandedRunStep DEF Inv
<1>3. Both => NoStrandedRun
    OBVIOUS
<1> HIDE DEF Both
<1>4. QED
    BY Invariant, SettledRunsAreReleased, <1>1, <1>2, <1>3, PTL DEF Spec
-----------------------------------------------------------------------------
(* One server: the table and the children implement the life of a run.     *)

\* A worker past "begin" has marked its run.
Marked ==
    \A s \in Servers :
        worker[s] \in Handling \ {"begin"} => runs[item[s]].status = "running"

\* A worker comes past "begin" by MarkRunning, and keeps its run there.
LEMMA MarkedBy ==
    ASSUME TypeOK, [Next]_vars, NEW s \in Servers, worker'[s] \in Handling \ {"begin"}
    PROVE  MarkRunning(s) \/ (worker[s] \in Handling \ {"begin"} /\ item'[s] = item[s])
<1> USE DEF TypeOK, Handling
<1> DEFINE Good == MarkRunning(s) \/ (worker[s] \in Handling \ {"begin"} /\ item'[s] = item[s])
<1>1. ASSUME NEW t \in Servers, MainStep(t) \/ Crash(t) PROVE Good
    BY <1>1 DEF MainStep, Boot, BootUnrecovered, StartWorker, Bind, BindFails, Gone, CreateRun,
        PutItem, Interrupt, StopPut, StopTerminate, StopJoined, Crash, workerVars
<1>2. ASSUME NEW t \in Servers, WorkerStep(t), t # s PROVE Good
    BY <1>2 DEF WorkerStep, CheckStop, GetEmpty, GetItem, MarkRunning, MarkRunningFails, Spawn,
        SpawnFails, Reap, Timeout, RecordTimeout, RecordExit, RecordExitFails, RecordException,
        DoneWith, WorkerGoes
<1>3. ASSUME WorkerStep(s) PROVE Good
    BY <1>3 DEF WorkerStep, CheckStop, GetEmpty, GetItem, MarkRunningFails, Spawn,
        SpawnFails, Reap, Timeout, RecordTimeout, RecordExit, RecordExitFails, RecordException,
        DoneWith, WorkerGoes
<1>4. QED
    BY <1>1, <1>2, <1>3 DEF Next, ChildStep, ChildExits, ChildDies, vars, workerVars

LEMMA MarkedStep ==
    ASSUME ~Overlap, Inv, Marked, [Next]_vars
    PROVE  Marked'
<1> USE RunQueueAssumption DEF Inv
<1> SUFFICES ASSUME NEW s \in Servers, worker'[s] \in Handling \ {"begin"}
             PROVE  runs'[item'[s]].status = "running"
    BY DEF Marked
<1>1. CASE MarkRunning(s)
    <2>1. item[s] \in Runs /\ item'[s] = item[s]
        BY <1>1 DEF MarkRunning, Placed, Handling
    <2>2. runs[item[s]].status # "absent"
        BY <2>1 DEF Fresh, Holds
    <2>3. QED
        BY <1>1, <2>1, <2>2 DEF MarkRunning, UpdateRow, TypeOK
<1>2. CASE worker[s] \in Handling \ {"begin"} /\ item'[s] = item[s]
    <2> DEFINE r == item[s]
    <2>1. r \in Runs /\ runs[r].status = "running" /\ Holds(s, r)
        BY <1>2 DEF Marked, Placed, Holds
    <2>2. ASSUME NEW t \in Servers, Boot(t) PROVE FALSE
        BY <1>2, <2>2 DEF Boot, StartWorker, Placed, Handling
    <2>3. ASSUME NEW t \in Servers, CreateRun(t, r) PROVE FALSE
        BY <2>1, <2>3 DEF CreateRun
    <2>4. ASSUME NEW t \in Servers, item[t] = r, item'[t] = None PROVE FALSE
        <3>1. t = s
            BY <2>1, <2>4 DEF HeldOnce
        <3>2. QED
            BY <1>2, <2>1, <2>4, <3>1
    <2>5. UpdateRow(runs[r], "running", "none").status = "running"
        BY <2>1 DEF UpdateRow
    <2>6. runs'[r].status = "running"
        BY <2>1, <2>2, <2>3, <2>4, <2>5, RowSteps
    <2>7. QED
        BY <1>2, <2>6
<1>3. QED
    BY <1>1, <1>2, MarkedBy

\* What is in line, or in a worker's hands, is in flight.
LEMMA HandledIsInFlight ==
    ASSUME Inv, SettledIsReleased, NEW s \in Servers, worker[s] \in Handling
    PROVE  item[s] \in Runs /\ runs[item[s]].status \in InFlight
<1>1. item[s] \in Runs /\ Holds(s, item[s])
    BY DEF Inv, Placed, Holds
<1>2. QED
    BY <1>1 DEF Inv, TypeOK, Fresh, SettledIsReleased, Rows, Statuses

\* A step that starts no child leaves the set of started runs alone.
LEMMA StartedStays ==
    ASSUME Inv, [Next]_vars, \A s \in Servers : ~Spawn(s)
    PROVE  {r \in Runs : child'[r] # "none"} = {r \in Runs : child[r] # "none"}
BY ChildStarts DEF Inv

LEMMA LifecycleInit == Init => Lifecycle!Init
BY DEF Init, NoRow, Lifecycle!Init

\* Each step of the queue is a step in the life of a run, of all runs, or none.
LEMMA LifecycleStep ==
    ASSUME ~Overlap, Inv, SettledIsReleased, Marked, [Next]_vars
    PROVE  [Lifecycle!Next]_(Lifecycle!vars)
<1> USE RunQueueAssumption DEF Inv, TypeOK
<1> DEFINE Same == [r \in Runs |-> runs'[r].status] = [r \in Runs |-> runs[r].status]
           SameStarted == {r \in Runs : child'[r] # "none"} = {r \in Runs : child[r] # "none"}
           Goal == [Lifecycle!Next]_(Lifecycle!vars)
<1>s. Same /\ SameStarted => Goal
    BY DEF Lifecycle!vars
<1>1. ASSUME NEW s \in Servers, Boot(s) PROVE Goal
    <2>1. SameStarted
        BY <1>1 DEF Boot, StartWorker, childVars
    <2>2. [r \in Runs |-> runs'[r].status] =
            [r \in Runs |-> IF [q \in Runs |-> runs[q].status][r] \in {"queued", "running"}
                            THEN "failed" ELSE [q \in Runs |-> runs[q].status][r]]
        BY <1>1 DEF Boot, RecoverRow, InFlight
    <2>3. Lifecycle!Interrupt
        BY <2>1, <2>2 DEF Lifecycle!Interrupt, Lifecycle!InFlight
    <2>4. QED
        BY <2>3 DEF Lifecycle!Next
<1>2. ASSUME NEW s \in Servers, NEW q \in Runs, CreateRun(s, q) PROVE Goal
    <2>1. SameStarted
        BY <1>2 DEF CreateRun, childVars
    <2>2. [r \in Runs |-> runs'[r].status] = [[r \in Runs |-> runs[r].status] EXCEPT ![q] = "queued"]
        BY <1>2 DEF CreateRun, NewRow
    <2>3. Lifecycle!Submit(q)
        BY <1>2, <2>1, <2>2 DEF CreateRun, Lifecycle!Submit
    <2>4. QED
        BY <2>3 DEF Lifecycle!Next
<1>3. ASSUME NEW s \in Servers, MarkRunning(s) PROVE Goal
    <2>0. PICK q \in Runs : q = item[s]
        BY <1>3 DEF MarkRunning, Placed, Handling
    <2>1. runs[q].status \in InFlight
        BY <1>3, <2>0, HandledIsInFlight DEF MarkRunning, Handling
    <2>2. SameStarted
        BY <1>3 DEF MarkRunning, childVars
    <2>3. [r \in Runs |-> runs'[r].status] = [[r \in Runs |-> runs[r].status] EXCEPT ![q] = "running"]
        BY <1>3, <2>0, <2>1 DEF MarkRunning, UpdateRow, InFlight
    <2>4. CASE runs[q].status = "queued"
        <3>1. Lifecycle!Begin(q)
            BY <2>2, <2>3, <2>4 DEF Lifecycle!Begin
        <3>2. QED
            BY <3>1 DEF Lifecycle!Next
    <2>5. CASE runs[q].status = "running"
        <3>1. Same
            BY <2>3, <2>5
        <3>2. QED
            BY <1>s, <2>2, <3>1
    <2>6. QED
        BY <2>1, <2>4, <2>5 DEF InFlight
<1>4. ASSUME NEW s \in Servers, Spawn(s) PROVE Goal
    <2>0. PICK q \in Runs : q = item[s]
        BY <1>4 DEF Spawn, Placed, Handling
    <2>1. runs[q].status = "running" /\ child[q] = "none"
        BY <1>4, <2>0 DEF Spawn, Marked, Handling, NeverReexecuted, WillStart
    <2>2. {r \in Runs : child'[r] # "none"} = {r \in Runs : child[r] # "none"} \cup {q}
        BY <1>4, <2>0 DEF Spawn
    <2>3. Same
        BY <1>4 DEF Spawn
    <2>4. Lifecycle!Launch(q)
        BY <2>1, <2>2, <2>3 DEF Lifecycle!Launch
    <2>5. QED
        BY <2>4 DEF Lifecycle!Next
<1>5. ASSUME NEW s \in Servers, NEW outcome \in Lifecycle!Outcomes, NEW e,
             worker[s] \in Handling \ {"begin"}, UNCHANGED child,
             outcome = "failed" \/ child[item[s]] # "none",
             runs' = [runs EXCEPT ![item[s]] = UpdateRow(@, outcome, e)]
      PROVE  Goal
    <2>0. PICK q \in Runs : q = item[s]
        BY <1>5 DEF Placed
    <2>1. runs[q].status = "running"
        BY <1>5, <2>0 DEF Marked
    <2>2. [r \in Runs |-> runs'[r].status] = [[r \in Runs |-> runs[r].status] EXCEPT ![q] = outcome]
        BY <1>5, <2>0, <2>1 DEF UpdateRow
    <2>3. Lifecycle!Settle(q, outcome)
        BY <1>5, <2>0, <2>1, <2>2 DEF Lifecycle!Settle
    <2>4. QED
        BY <2>3 DEF Lifecycle!Next
<1>6. ASSUME NEW s \in Servers, RecordTimeout(s) PROVE Goal
    <2>1. UNCHANGED child /\ worker[s] \in Handling \ {"begin"} /\ "failed" \in Lifecycle!Outcomes
        BY <1>6 DEF RecordTimeout, Handling, childVars, Lifecycle!Outcomes
    <2>2. CASE runs' = [runs EXCEPT ![item[s]] = UpdateRow(@, "failed", "timeout")]
        BY <1>5, <2>1, <2>2
    <2>3. CASE runs' = runs
        <3>1. Same /\ SameStarted
            BY <2>1, <2>3
        <3>2. QED
            BY <1>s, <3>1
    <2>4. QED
        BY <1>6, <2>2, <2>3 DEF RecordTimeout
<1>7. ASSUME NEW s \in Servers, RecordException(s) PROVE Goal
    <2>1. UNCHANGED child /\ worker[s] \in Handling \ {"begin"} /\ "failed" \in Lifecycle!Outcomes
        BY <1>7 DEF RecordException, Handling, childVars, Lifecycle!Outcomes
    <2>2. CASE runs' = [runs EXCEPT ![item[s]] = UpdateRow(@, "failed", "exception")]
        BY <1>5, <2>1, <2>2
    <2>3. CASE runs' = runs
        <3>1. Same /\ SameStarted
            BY <2>1, <2>3
        <3>2. QED
            BY <1>s, <3>1
    <2>4. QED
        BY <1>7, <2>2, <2>3 DEF RecordException
<1>8. ASSUME NEW s \in Servers, RecordExit(s) PROVE Goal
    <2> DEFINE st == FinalStatus(exit[item[s]])
               e == IF exit[item[s]] = "nonzero" THEN "exit" ELSE "none"
    <2>1. UNCHANGED child /\ worker[s] \in Handling \ {"begin"} /\ child[item[s]] # "none"
        BY <1>8 DEF RecordExit, Handling, childVars, Started
    <2>2. st \in Lifecycle!Outcomes
        BY DEF FinalStatus, Lifecycle!Outcomes
    <2>3. runs' = [runs EXCEPT ![item[s]] = UpdateRow(@, st, e)]
        BY <1>8 DEF RecordExit
    <2> HIDE DEF st, e
    <2>4. QED
        BY <1>5, <2>1, <2>2, <2>3
<1>9. CASE runs' = runs /\ \A s \in Servers : ~Spawn(s)
    <2>1. SameStarted
        BY <1>9, StartedStays
    <2>2. QED
        BY <1>9, <1>s, <2>1
<1>10. ASSUME \A s \in Servers : ~Spawn(s), runs' # runs PROVE Goal
    <2>1. ASSUME NEW s \in Servers, MainStep(s) PROVE Goal
        BY <1>1, <1>2, <1>10, <2>1 DEF MainStep, BootUnrecovered, Bind, BindFails, Gone,
            PutItem, Interrupt, StopPut, StopTerminate, StopJoined
    <2>2. ASSUME NEW s \in Servers, WorkerStep(s) PROVE Goal
        BY <1>3, <1>6, <1>7, <1>8, <1>10, <2>2 DEF WorkerStep, CheckStop, GetEmpty, GetItem,
            MarkRunningFails, Spawn, SpawnFails, Reap, Timeout, RecordExitFails
    <2>3. QED
        BY <1>10, <2>1, <2>2 DEF Next, Crash, Gone, ChildStep, ChildExits, ChildDies, vars
<1>11. QED
    BY <1>4, <1>9, <1>10

\* Where servers do not overlap, the table and the child processes implement
\* the life of a run that clients rely on: whatever crashes, stops, timeouts
\* and failed transactions do, a run is started at most once, settled once, and
\* settled for good.
THEOREM QueueImplementsLifecycle ==
    ASSUME ~Overlap
    PROVE  Spec => ImplementsLifecycle
<1>1. Init => Marked
    BY DEF Init, Marked, Handling
<1>2. Inv /\ Marked /\ [Next]_vars => Marked'
    BY MarkedStep
<1>3. Inv /\ SettledIsReleased /\ Marked /\ [Next]_vars => [Lifecycle!Next]_(Lifecycle!vars)
    BY LifecycleStep
<1>4. QED
    BY Invariant, SettledRunsAreReleased, LifecycleInit, <1>1, <1>2, <1>3, PTL
    DEF Spec, ImplementsLifecycle, Lifecycle!Spec
-----------------------------------------------------------------------------
(* RunShadow: orchestrator processes that write the table beside the queue. *)

\* Whatever the orchestrator processes do, the queue takes a step of its own or
\* none: the theorems about RunQueue hold beside them.
LEMMA ShadowStepsAreQueueSteps == [ShadowNext]_allVars => [Next]_vars
<1> SUFFICES ASSUME [ShadowNext]_allVars PROVE [Next]_vars
    OBVIOUS
<1>1. ASSUME NEW s \in Servers, ShadowBoot(s) \/ ShadowSpawn(s) PROVE Next
    BY <1>1 DEF ShadowBoot, ShadowSpawn, Next, MainStep, WorkerStep
<1>2. ASSUME NEW s \in Servers, OtherMainStep(s) \/ OtherWorkerStep(s) PROVE Next
    BY <1>2 DEF OtherMainStep, OtherWorkerStep, Next, MainStep, WorkerStep
<1>3. ASSUME NEW r \in Runs, OrchestratorExits(r) \/ ChildDies(r) PROVE Next
    BY <1>3 DEF OrchestratorExits, Next, ChildStep
<1>4. ASSUME NEW c \in CliRuns, CliStarts(c) \/ CliExits(c) PROVE UNCHANGED vars
    BY <1>4 DEF CliStarts, CliExits
<1>5. ASSUME NEW p \in Procs, EarlyBlock(p) \/ AnswerVerb(p) \/ StartRun(p) \/ UpdateProgress(p)
      PROVE  UNCHANGED vars
    BY <1>5 DEF EarlyBlock, AnswerVerb, StartRun, UpdateProgress
<1>6. ASSUME NEW p \in Procs, NEW v, Report(p, v) PROVE UNCHANGED vars
    BY <1>6 DEF Report
<1>7. QED
    BY <1>1, <1>2, <1>3, <1>4, <1>5, <1>6 DEF ShadowNext, allVars

\* With the processes that write beside it, the queue is still the queue.
THEOREM ShadowImplementsQueue == ShadowSpec => Spec
<1>1. ShadowInit => Init
    BY DEF ShadowInit
<1>2. QED
    BY <1>1, ShadowStepsAreQueueSteps, PTL DEF ShadowSpec, Spec

ShadowTyped ==
    /\ shadow \in [Procs -> Rows]
    /\ step \in [Procs -> StepNames]
    /\ verdict \in [Procs -> Verdicts]

\* A child and the process it runs: a process is under way only in a child that
\* was started, and a child ends well only once its process has decided, with a
\* halt only if it decided so.
Attended ==
    \A r \in Runs :
        /\ child[r] = "none" => step[r] = "none"
        /\ child[r] = "dead" <=> exit[r] # "none"
        /\ step[r] = "reported" => verdict[r] # "none"
        /\ exit[r] \in Summaries =>
              /\ verdict[r] \notin {"none", "EXCEPTION"}
              /\ exit[r] # "OTHER" => exit[r] = verdict[r]

\* Before start_run a process has no row, before it returns it has no verdict.
Unreported ==
    \A p \in Procs :
        /\ step[p] \in {"none", "preflight"} => shadow[p].status = "absent"
        /\ step[p] \in {"none", "preflight", "working"} => verdict[p] = "none"

ShadowInv == ShadowTyped /\ Attended /\ Unreported /\ ShadowClaimsAreTrue

\* What the adapter writes of an outcome.
LEMMA ShadowStatusType ==
    \A v : \A st \in ShadowStatuses(v) :
        st \in Settled /\ st \in Statuses /\ ShadowError(v, st) \in ErrorTexts
BY DEF ShadowStatuses, ShadowError, Settled, TerminalStatuses, Statuses, ErrorTexts

\* What an update makes of a row.
LEMMA UpdatedRow ==
    ASSUME NEW row, NEW st, NEW e
    PROVE  /\ row.status = "absent" => UpdateRow(row, st, e) = row
           /\ row.status # "absent" => UpdateRow(row, st, e).status = st
BY DEF UpdateRow

LEMMA ShadowTypedStep ==
    ASSUME TypeOK, Placed, ShadowTyped, [ShadowNext]_allVars
    PROVE  ShadowTyped'
<1> USE DEF ShadowTyped, StepNames, Procs
<1>1. ASSUME NEW p \in Procs, NEW row \in Rows, WriteShadow(p, row)
      PROVE  shadow' \in [Procs -> Rows]
    BY <1>1 DEF WriteShadow
<1>2. ASSUME NEW s \in Servers, ShadowBoot(s) PROVE ShadowTyped'
    BY <1>2, RowTypes DEF ShadowBoot
<1>3. ASSUME NEW s \in Servers, ShadowSpawn(s) PROVE ShadowTyped'
    BY <1>3 DEF ShadowSpawn
<1>4. ASSUME NEW r \in Runs, OrchestratorExits(r) PROVE ShadowTyped'
    BY <1>4 DEF OrchestratorExits
<1>5. ASSUME NEW c \in CliRuns, CliStarts(c) \/ CliExits(c) PROVE ShadowTyped'
    BY <1>5 DEF CliStarts, CliExits
<1>6. ASSUME NEW p \in Procs, EarlyBlock(p) PROVE ShadowTyped'
    <2>1. UpdateRow(shadow[p], "blocked_prerequisite", "blocked") \in Rows
        BY RowTypes DEF Statuses, Settled, ErrorTexts
    <2>2. QED
        BY <1>1, <1>6, <2>1 DEF EarlyBlock, Verdicts, Endings
<1>7. ASSUME NEW p \in Procs, StartRun(p) PROVE ShadowTyped'
    <2>1. NewRow("running") \in Rows
        BY RowTypes DEF Statuses, InFlight
    <2>2. QED
        BY <1>1, <1>7, <2>1 DEF StartRun
<1>8. ASSUME NEW p \in Procs, UpdateProgress(p) PROVE ShadowTyped'
    <2>1. UpdateRow(shadow[p], "running", "none") \in Rows
        BY RowTypes DEF Statuses, InFlight, ErrorTexts
    <2>2. QED
        BY <1>1, <1>8, <2>1 DEF UpdateProgress
<1>9. ASSUME NEW p \in Procs, NEW v \in Endings, Report(p, v) PROVE ShadowTyped'
    <2>1. PICK st \in ShadowStatuses(v) :
              WriteShadow(p, UpdateRow(shadow[p], st, ShadowError(v, st)))
        BY <1>9 DEF Report
    <2>2. UpdateRow(shadow[p], st, ShadowError(v, st)) \in Rows
        BY RowTypes, ShadowStatusType
    <2>3. QED
        BY <1>1, <1>9, <2>1, <2>2 DEF Report, Verdicts
<1>10. CASE UNCHANGED shadowVars
    BY <1>10 DEF shadowVars
<1>11. ASSUME NEW p \in Procs, AnswerVerb(p) PROVE ShadowTyped'
    BY <1>11 DEF AnswerVerb, Verdicts
<1>12. QED
    BY <1>2, <1>3, <1>4, <1>5, <1>6, <1>7, <1>8, <1>9, <1>10, <1>11 DEF ShadowNext, allVars

\* A step of the orchestrator process itself, in a child that is alive.
LEMMA RunningProcess ==
    ASSUME Attended, NEW p \in Procs, Running(p)
    PROVE  p \in Runs => child[p] # "none" /\ exit[p] \notin Summaries
BY DEF Attended, Running, Summaries

LEMMA AttendedStep ==
    ASSUME Inv, ShadowTyped, Attended, [ShadowNext]_allVars
    PROVE  Attended'
<1> USE RunShadowAssumption DEF Inv, TypeOK, ShadowTyped, Procs
<1>1. ASSUME UNCHANGED childVars, UNCHANGED <<step, verdict>> PROVE Attended'
    BY <1>1 DEF Attended, childVars
<1>2. ASSUME NEW s \in Servers, ShadowBoot(s) PROVE Attended'
    BY <1>1, <1>2 DEF ShadowBoot, Boot, StartWorker
<1>3. ASSUME NEW s \in Servers, ShadowSpawn(s) PROVE Attended'
    <2>1. item[s] \in Runs /\ child[item[s]] = "none"
        BY <1>3 DEF ShadowSpawn, Spawn, NeverReexecuted, WillStart, Placed, Handling
    <2>2. QED
        BY <1>3, <2>1 DEF ShadowSpawn, Spawn, Attended
<1>4. ASSUME NEW s \in Servers, Gone(s), UNCHANGED shadowVars PROVE Attended'
    BY <1>4 DEF Gone, Attended, shadowVars, Summaries, Alive
<1>5. ASSUME NEW s \in Servers, OtherMainStep(s), UNCHANGED shadowVars PROVE Attended'
    <2>1. CASE StopTerminate(s)
        BY <1>5, <2>1 DEF StopTerminate, Attended, shadowVars
    <2>2. CASE UNCHANGED childVars
        BY <1>1, <1>5, <2>2 DEF shadowVars
    <2>3. QED
        BY <1>4, <1>5, <2>1, <2>2 DEF OtherMainStep, BootUnrecovered, StartWorker, Bind, BindFails,
            CreateRun, PutItem, Crash, Interrupt, StopPut, StopJoined
<1>6. ASSUME NEW s \in Servers, OtherWorkerStep(s), UNCHANGED shadowVars PROVE Attended'
    <2>1. CASE Timeout(s)
        <3>1. item[s] \in Runs /\ child[item[s]] # "none"
            BY <2>1 DEF Timeout, Started, Placed, Handling
        <3>2. QED
            BY <1>6, <2>1, <3>1 DEF Timeout, Attended, shadowVars
    <2>2. CASE UNCHANGED childVars
        BY <1>1, <1>6, <2>2 DEF shadowVars
    <2>3. QED
        BY <1>6, <2>1, <2>2 DEF OtherWorkerStep, CheckStop, GetEmpty, GetItem, MarkRunning,
            MarkRunningFails, SpawnFails, Reap, RecordTimeout, RecordExit, RecordExitFails,
            RecordException
<1>7. ASSUME NEW r \in Runs, OrchestratorExits(r) PROVE Attended'
    <2>1. /\ exit'[r] # "none"
          /\ exit'[r] \in Summaries =>
                /\ verdict[r] \notin {"none", "EXCEPTION"}
                /\ exit'[r] # "OTHER" => exit'[r] = verdict[r]
        BY <1>7 DEF OrchestratorExits, ExitOf, Summaries, Attended
    <2>2. QED
        BY <1>7, <2>1 DEF OrchestratorExits, ChildExits, Attended
<1>8. ASSUME NEW r \in Runs, ChildDies(r), UNCHANGED shadowVars PROVE Attended'
    BY <1>8 DEF ChildDies, Attended, shadowVars, Summaries
<1>9. ASSUME NEW c \in CliRuns, CliStarts(c) \/ CliExits(c) PROVE Attended'
    <2>1. UNCHANGED childVars /\ verdict' = verdict /\ \A r \in Runs : step'[r] = step[r]
        BY <1>9 DEF CliStarts, CliExits, vars
    <2>2. QED
        BY <2>1 DEF Attended, childVars
<1>10. ASSUME NEW p \in Procs, Running(p), UNCHANGED vars,
              \A q \in Procs : q # p => step'[q] = step[q] /\ verdict'[q] = verdict[q],
              step'[p] = "reported" => verdict'[p] # "none"
       PROVE  Attended'
    <2>1. UNCHANGED childVars
        BY <1>10 DEF vars
    <2>2. QED
        BY <1>10, <2>1, RunningProcess DEF Attended, childVars
<1>11. ASSUME NEW p \in Procs, EarlyBlock(p) \/ AnswerVerb(p) \/ StartRun(p) \/ UpdateProgress(p)
       PROVE  Attended'
    BY <1>10, <1>11 DEF EarlyBlock, AnswerVerb, StartRun, UpdateProgress
<1>12. ASSUME NEW p \in Procs, NEW v \in Endings, Report(p, v) PROVE Attended'
    BY <1>10, <1>12 DEF Report, Endings
<1>13. CASE UNCHANGED allVars
    BY <1>1, <1>13 DEF allVars, vars, shadowVars
<1>14. QED
    BY <1>2, <1>3, <1>5, <1>6, <1>7, <1>8, <1>9, <1>11, <1>12, <1>13 DEF ShadowNext

LEMMA UnreportedStep ==
    ASSUME Inv, ShadowTyped, Attended, Unreported, [ShadowNext]_allVars
    PROVE  Unreported'
<1> USE RunShadowAssumption DEF ShadowTyped, Procs
<1>1. ASSUME NEW s \in Servers, ShadowBoot(s) PROVE Unreported'
    <2>1. \A p \in Procs : shadow[p].status = "absent" => shadow'[p] = shadow[p]
        BY <1>1 DEF ShadowBoot, RecoverRow, InFlight
    <2>2. QED
        BY <1>1, <2>1 DEF ShadowBoot, Unreported
<1>2. ASSUME NEW s \in Servers, ShadowSpawn(s) PROVE Unreported'
    <2>1. item[s] \in Runs /\ child[item[s]] = "none"
        BY <1>2 DEF ShadowSpawn, Spawn, Inv, NeverReexecuted, WillStart, Placed, Handling
    <2>2. step[item[s]] = "none"
        BY <2>1 DEF Attended
    <2>3. QED
        BY <1>2, <2>1, <2>2 DEF ShadowSpawn, Unreported
<1>3. ASSUME NEW r \in Runs, OrchestratorExits(r) PROVE Unreported'
    BY <1>3 DEF OrchestratorExits, Unreported
<1>4. ASSUME NEW c \in CliRuns, CliStarts(c) \/ CliExits(c) PROVE Unreported'
    BY <1>4 DEF CliStarts, CliExits, Unreported
<1>5. ASSUME NEW p \in Procs, EarlyBlock(p) PROVE Unreported'
    BY <1>5 DEF EarlyBlock, WriteShadow, Unreported
<1>6. ASSUME NEW p \in Procs, StartRun(p) PROVE Unreported'
    BY <1>6 DEF StartRun, WriteShadow, Unreported
<1>7. ASSUME NEW p \in Procs, UpdateProgress(p) PROVE Unreported'
    BY <1>7 DEF UpdateProgress, WriteShadow, Unreported
<1>8. ASSUME NEW p \in Procs, NEW v \in Endings, Report(p, v) PROVE Unreported'
    BY <1>8 DEF Report, WriteShadow, Unreported
<1>9. CASE UNCHANGED shadowVars
    BY <1>9 DEF shadowVars, Unreported
<1>10. ASSUME NEW p \in Procs, AnswerVerb(p) PROVE Unreported'
    BY <1>10 DEF AnswerVerb, Unreported
<1>11. QED
    BY <1>1, <1>2, <1>3, <1>4, <1>5, <1>6, <1>7, <1>8, <1>9, <1>10 DEF ShadowNext, allVars

LEMMA ShadowClaimsStep ==
    ASSUME ShadowTyped, Unreported, ShadowClaimsAreTrue, [ShadowNext]_allVars
    PROVE  ShadowClaimsAreTrue'
<1> USE DEF ShadowTyped
<1> DEFINE Claim(p) == shadow[p].status \in Settled =>
                          \/ shadow[p].status \in ShadowStatuses(verdict[p])
                          \/ shadow[p].status = "failed" /\ shadow[p].error = "restart"
<1>c. \A p \in Procs : Claim(p)
    BY DEF ShadowClaimsAreTrue
<1>u. "absent" \notin Settled /\ "running" \notin Settled
    BY DEF Settled, TerminalStatuses
<1>1. ASSUME NEW p \in Procs, shadow'[p] = shadow[p], verdict'[p] = verdict[p] PROVE Claim(p)'
    BY <1>c, <1>1
<1>2. ASSUME NEW p \in Procs, shadow'[p].status \notin Settled PROVE Claim(p)'
    BY <1>2
<1>3. ASSUME NEW s \in Servers, ShadowBoot(s), NEW p \in Procs PROVE Claim(p)'
    BY <1>c, <1>3 DEF ShadowBoot, RecoverRow
<1>4. ASSUME NEW p \in Procs, EarlyBlock(p), NEW q \in Procs PROVE Claim(q)'
    <2>1. q # p => shadow'[q] = shadow[q] /\ verdict'[q] = verdict[q]
        BY <1>4 DEF EarlyBlock, WriteShadow
    <2>2. shadow'[p] = shadow[p] /\ shadow[p].status = "absent"
        BY <1>4, UpdatedRow DEF EarlyBlock, WriteShadow, Unreported
    <2>3. QED
        BY <1>1, <1>2, <1>u, <2>1, <2>2
<1>5. ASSUME NEW p \in Procs, StartRun(p), NEW q \in Procs PROVE Claim(q)'
    <2>1. q # p => shadow'[q] = shadow[q] /\ verdict'[q] = verdict[q]
        BY <1>5 DEF StartRun, WriteShadow
    <2>2. shadow'[p].status \notin Settled
        BY <1>5, <1>u DEF StartRun, WriteShadow, Unreported, NewRow
    <2>3. QED
        BY <1>1, <1>2, <2>1, <2>2
<1>6. ASSUME NEW p \in Procs, UpdateProgress(p), NEW q \in Procs PROVE Claim(q)'
    <2>1. verdict' = verdict /\ (q # p => shadow'[q] = shadow[q])
        BY <1>6 DEF UpdateProgress, WriteShadow
    <2>2. shadow'[p] = shadow[p] \/ shadow'[p].status = "running"
        BY <1>6, UpdatedRow DEF UpdateProgress, WriteShadow
    <2>3. QED
        BY <1>1, <1>2, <1>u, <2>1, <2>2
<1>7. ASSUME NEW p \in Procs, NEW v \in Endings, Report(p, v), NEW q \in Procs
      PROVE  Claim(q)'
    <2>1. q # p => shadow'[q] = shadow[q] /\ verdict'[q] = verdict[q]
        BY <1>7 DEF Report, WriteShadow
    <2>2. verdict'[p] = v /\ verdict[p] = "none"
        BY <1>7 DEF Report, Unreported
    <2>3. \/ shadow'[p] = shadow[p]
          \/ shadow'[p].status \in ShadowStatuses(v)
        BY <1>7, UpdatedRow DEF Report, WriteShadow
    <2>n. ShadowStatuses("none") = {}
        BY DEF ShadowStatuses
    <2>4. Claim(p)'
        BY <1>c, <2>2, <2>3, <2>n
    <2>5. QED
        BY <1>1, <2>1, <2>4
<1>8. ASSUME UNCHANGED <<shadow, verdict>>, NEW p \in Procs PROVE Claim(p)'
    BY <1>1, <1>8
<1>a. ASSUME NEW p \in Procs, AnswerVerb(p), NEW q \in Procs PROVE Claim(q)'
    <2>1. q # p => shadow'[q] = shadow[q] /\ verdict'[q] = verdict[q]
        BY <1>a DEF AnswerVerb
    <2>2. shadow'[p] = shadow[p] /\ shadow[p].status = "absent"
        BY <1>a DEF AnswerVerb, Unreported
    <2>3. QED
        BY <1>1, <1>2, <1>u, <2>1, <2>2
<1>9. ASSUME NEW p \in Procs PROVE Claim(p)'
    BY <1>3, <1>4, <1>5, <1>6, <1>7, <1>8, <1>a DEF ShadowNext, ShadowSpawn, OrchestratorExits,
        CliStarts, CliExits, allVars, shadowVars
<1>10. QED
    BY <1>9 DEF ShadowClaimsAreTrue

LEMMA ShadowInvInit == ShadowInit => ShadowInv
<1> SUFFICES ASSUME ShadowInit PROVE ShadowInv
    OBVIOUS
<1> USE DEF ShadowInit
<1>1. ShadowTyped
    BY RowTypes DEF ShadowTyped, StepNames, Verdicts
<1>2. Attended /\ Unreported /\ ShadowClaimsAreTrue
    BY DEF Init, Attended, Unreported, ShadowClaimsAreTrue, NoRow, Settled, TerminalStatuses,
        Summaries, Procs
<1>3. QED
    BY <1>1, <1>2 DEF ShadowInv

LEMMA ShadowInvariant == ShadowSpec => []ShadowInv
<1>1. Inv /\ ShadowInv /\ [ShadowNext]_allVars => ShadowInv'
    BY ShadowTypedStep, AttendedStep, UnreportedStep, ShadowClaimsStep DEF Inv, ShadowInv
<1>2. QED
    BY ShadowImplementsQueue, Invariant, ShadowInvInit, <1>1, PTL DEF ShadowSpec

\* Type correctness of the queue with its writers.
THEOREM ShadowTypes == ShadowSpec => []ShadowTypeOK
<1>1. Inv /\ ShadowInv => ShadowTypeOK
    BY DEF Inv, ShadowInv, ShadowTyped, ShadowTypeOK
<1>2. QED
    BY ShadowImplementsQueue, Invariant, ShadowInvariant, <1>1, PTL

\* A row of an orchestrator process claims an outcome only if the process
\* reached it, or a restart declared it interrupted: for any number of servers,
\* children and processes started from a shell, and with writes that fail.
THEOREM ShadowsClaimTrue == ShadowSpec => []ShadowClaimsAreTrue
<1>1. ShadowInv => ShadowClaimsAreTrue
    BY DEF ShadowInv
<1>2. QED
    BY ShadowInvariant, <1>1, PTL

LEMMA VerdictFollowed ==
    ASSUME Inv, Earned, ShadowInv
    PROVE  QueueFollowsVerdict
<1> SUFFICES ASSUME NEW r \in Runs
             PROVE  LET st == runs[r].status
                    IN  /\ st = "blocked_prerequisite" => verdict[r] = "BLOCKED_PREREQUISITE"
                        /\ st = "waiting_for_approval" => verdict[r] = "WAITING_FOR_APPROVAL"
                        /\ st = "completed" => verdict[r] \notin {"none", "EXCEPTION"}
    BY DEF QueueFollowsVerdict
<1>1. runs[r].status \in Settled \ {"failed"} =>
          child[r] = "dead" /\ FinalStatus(exit[r]) = runs[r].status
    BY DEF Earned
<1>2. child[r] = "dead" => exit[r] \in {"nonzero"} \cup Summaries
    BY DEF Inv, TypeOK, Exits, ShadowInv, Attended
<1>3. exit[r] \in Summaries => /\ verdict[r] \notin {"none", "EXCEPTION"}
                               /\ exit[r] # "OTHER" => exit[r] = verdict[r]
    BY DEF ShadowInv, Attended
<1>4. QED
    BY <1>1, <1>2, <1>3 DEF FinalStatus, Summaries, Settled, TerminalStatuses

\* A row of the queue announces a halt only of a workflow that halted so, and is
\* completed only if its process came to an end of its own.
THEOREM VerdictsAreFollowed == ShadowSpec => []QueueFollowsVerdict
<1>1. Inv /\ Earned /\ ShadowInv => QueueFollowsVerdict
    BY VerdictFollowed
<1>2. QED
    BY ShadowImplementsQueue, Invariant, EarnedInvariant, ShadowInvariant, <1>1, PTL
-----------------------------------------------------------------------------
(* RunPolling: what the chat is told of a run.                             *)

\* An end that was seen stands, also when it has not been evaluated yet.
SeenStands ==
    \A r \in Runs : poll[r] = "evaluate" /\ seen[r] \in Life!Outcomes => status[r] = seen[r]

PollInv == PollTypeOK /\ SeenStands /\ NotificationIsTrue

LEMMA PollInvInit == PollInit => PollInv
BY PollLimitAssumption
DEF PollInit, PollInv, PollTypeOK, SeenStands, NotificationIsTrue, Life!Init, Answers, Nodes, Lost

\* A step in the life of a run keeps the types, and an end for good.
LEMMA LifeKeepsEnds ==
    ASSUME PollTypeOK, [Life!Next]_lifeVars
    PROVE  /\ status' \in [Runs -> Answers]
           /\ started' \subseteq Runs
           /\ \A r \in Runs : status[r] \in Life!Outcomes => status'[r] = status[r]
<1> USE DEF PollTypeOK, Answers, InFlight, Life!Outcomes
<1>1. ASSUME NEW r \in Runs, Life!Submit(r) \/ Life!Begin(r) \/ Life!Launch(r)
      PROVE  /\ status' \in [Runs -> Answers]
             /\ started' \subseteq Runs
             /\ \A q \in Runs : status[q] \in Life!Outcomes => status'[q] = status[q]
    BY <1>1 DEF Life!Submit, Life!Begin, Life!Launch
<1>2. ASSUME NEW r \in Runs, NEW outcome \in Life!Outcomes, Life!Settle(r, outcome)
      PROVE  /\ status' \in [Runs -> Answers]
             /\ started' \subseteq Runs
             /\ \A q \in Runs : status[q] \in Life!Outcomes => status'[q] = status[q]
    BY <1>2 DEF Life!Settle
<1>3. CASE Life!Interrupt
    BY <1>3 DEF Life!Interrupt, Life!InFlight
<1>4. QED
    BY <1>1, <1>2, <1>3 DEF Life!Next, lifeVars

\* A step of the loop is a step in the life of the runs, or none.
LEMMA PollingStepsAreLifeSteps == [PollNext]_pollingVars => [Life!Next]_lifeVars
<1> SUFFICES ASSUME [PollNext]_pollingVars PROVE [Life!Next]_lifeVars
    OBVIOUS
<1>1. ASSUME NEW r \in Runs, SubmitAndPoll(r) \/ LifeStep(r) PROVE Life!Next
    BY <1>1 DEF SubmitAndPoll, LifeStep, Life!Next
<1>2. ASSUME NEW r \in Runs, PollStep(r) PROVE UNCHANGED lifeVars
    BY <1>2 DEF PollStep, GetRunStatus, GetFails, Evaluate
<1>3. QED
    BY <1>1, <1>2 DEF PollNext, Life!Next, pollingVars

LEMMA PollInvStep ==
    ASSUME PollInv, [PollNext]_pollingVars
    PROVE  PollInv'
<1> USE PollLimitAssumption DEF PollInv, PollTypeOK
<1>0. /\ status' \in [Runs -> Answers]
      /\ started' \subseteq Runs
      /\ \A r \in Runs : status[r] \in Life!Outcomes => status'[r] = status[r]
    BY LifeKeepsEnds, PollingStepsAreLifeSteps
<1>o. {"completed", "failed", "blocked_prerequisite"} \subseteq Life!Outcomes
    BY DEF Life!Outcomes
<1>1. ASSUME NEW r \in Runs, SubmitAndPoll(r) PROVE PollInv'
    <2>1. PollTypeOK'
        BY <1>0, <1>1 DEF SubmitAndPoll, Nodes, Ends
    <2>2. SeenStands' /\ NotificationIsTrue'
        BY <1>0, <1>1, <1>o DEF SubmitAndPoll, SeenStands, NotificationIsTrue
    <2>3. QED
        BY <2>1, <2>2
<1>2. ASSUME UNCHANGED pollVars PROVE PollInv'
    <2>1. SeenStands' /\ NotificationIsTrue'
        BY <1>0, <1>2, <1>o DEF pollVars, SeenStands, NotificationIsTrue
    <2>2. QED
        BY <1>0, <1>2, <2>1 DEF pollVars
<1>3. ASSUME NEW r \in Runs, GetRunStatus(r) PROVE PollInv'
    <2>1. PollTypeOK'
        BY <1>0, <1>3 DEF GetRunStatus, Nodes, Lost
    <2>2. SeenStands' /\ NotificationIsTrue'
        BY <1>3 DEF GetRunStatus, lifeVars, SeenStands, NotificationIsTrue
    <2>3. QED
        BY <2>1, <2>2
<1>4. ASSUME NEW r \in Runs, GetFails(r) PROVE PollInv'
    <2>1. PollTypeOK'
        BY <1>0, <1>4 DEF GetFails, Nodes, Ends
    <2>2. SeenStands' /\ NotificationIsTrue'
        BY <1>4 DEF GetFails, lifeVars, SeenStands, NotificationIsTrue
    <2>3. QED
        BY <2>1, <2>2
<1>5. ASSUME NEW r \in Runs, Evaluate(r) PROVE PollInv'
    <2> DEFINE n == IF attempt[r] = Lost THEN 0 ELSE attempt[r]
               to == Route(seen[r], n)
    <2>1. n \in 0 .. PollLimit
        BY DEF Lost
    <2>2. to \in Nodes /\ (to = "wait" => n < PollLimit)
        BY <2>1 DEF Route, Nodes, Ends
    <2>3. /\ to = "completed" => seen[r] = "completed"
          /\ to = "failed" => seen[r] \in {"failed", "blocked_prerequisite"}
          /\ to # "evaluate"
        BY DEF Route
    <2>4. /\ poll' = [poll EXCEPT ![r] = to]
          /\ attempt' = [attempt EXCEPT ![r] = IF to = "wait" THEN n + 1 ELSE n]
          /\ poll[r] = "evaluate" /\ UNCHANGED <<lifeVars, seen>>
        BY <1>5 DEF Evaluate
    <2> HIDE DEF to, n
    <2>5. attempt' \in [Runs -> Lost .. PollLimit]
        BY <2>1, <2>2, <2>4 DEF Lost
    <2>6. PollTypeOK'
        BY <1>0, <2>2, <2>4, <2>5
    <2>7. SeenStands' /\ NotificationIsTrue'
        BY <1>o, <2>3, <2>4 DEF lifeVars, SeenStands, NotificationIsTrue
    <2>8. QED
        BY <2>6, <2>7
<1>6. QED
    BY <1>1, <1>2, <1>3, <1>4, <1>5 DEF PollNext, LifeStep, PollStep, pollingVars

\* Type correctness of the loop.
THEOREM PollingTypes == PollSpec => []PollTypeOK
<1>1. PollInv => PollTypeOK
    BY DEF PollInv
<1>2. QED
    BY PollInvInit, PollInvStep, <1>1, PTL DEF PollSpec

\* What the chat is told last agrees with how the run ended, for any runs and
\* any limit of the loop.
THEOREM NotificationsAreTrue == PollSpec => []NotificationIsTrue
<1>1. PollInv => NotificationIsTrue
    BY DEF PollInv
<1>2. QED
    BY PollInvInit, PollInvStep, <1>1, PTL DEF PollSpec

\* Polling is harmless: runs that are followed live the life the queue promises
\* for them, whatever the loop reads, loses or reports.
THEOREM PollingKeepsTheLife == PollSpec => Life!Spec
<1>1. PollInit => Life!Init
    BY DEF PollInit
<1>2. [PollNext]_pollingVars => [Life!Next]_(Life!vars)
    BY PollingStepsAreLifeSteps DEF lifeVars, Life!vars
<1>3. QED
    BY <1>1, <1>2, PTL DEF PollSpec, Life!Spec
-----------------------------------------------------------------------------
(* From the orchestrator process to the chat: RunShadow and RunPolling, when *)
(* what is polled is the table.                                            *)

\* The life of a run that the loop follows is the one the queue implements.
TableIsPolled ==
    /\ status = [r \in Runs |-> runs[r].status]
    /\ started = {r \in Runs : child[r] # "none"}

\* The chat is told that a run completed only if its process came to an end of
\* its own, not by an exception, a signal, a timeout or a crash (whether the end
\* was a success is not told); and that it failed only if the table says so or
\* its workflow halted on a prerequisite.
ChatHearsVerdict ==
    \A r \in Runs :
        /\ poll[r] = "completed" => verdict[r] \notin {"none", "EXCEPTION"}
        /\ poll[r] = "failed"
              => runs[r].status = "failed" \/ verdict[r] = "BLOCKED_PREREQUISITE"

\* What the chat is told last rests on what the orchestrator process decided,
\* through exit code and summary, worker, table and polls; with crashes, restarts
\* and late writes in between.  (The composition: no step of one specification is
\* ruled out by the other where servers do not overlap, as the queue implements
\* the life that PollSpec takes from it.)
THEOREM ChatIsToldTheVerdict ==
    ShadowSpec /\ PollSpec /\ []TableIsPolled => []ChatHearsVerdict
<1>1. QueueFollowsVerdict /\ NotificationIsTrue /\ TableIsPolled => ChatHearsVerdict
    BY DEF QueueFollowsVerdict, NotificationIsTrue, TableIsPolled, ChatHearsVerdict
<1>2. QED
    BY VerdictsAreFollowed, NotificationsAreTrue, <1>1, PTL
=============================================================================
