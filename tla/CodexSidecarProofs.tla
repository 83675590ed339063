------------------------- MODULE CodexSidecarProofs -------------------------
(***************************************************************************)
(* Proofs about CodexSidecar, for any daemons and any calls.  The instance *)
(* lock keeps the socket of the daemon in service at its path; the job     *)
(* lock of a daemon belongs to the call its thread works for.              *)
(***************************************************************************)
EXTENDS CodexSidecar, TLAPS

\* The daemon between the acquisition of the instance lock and its release.
Locked == {"locked", "clear", "serving", "closed", "unlinked"}

\* Only the owner of the instance lock touches the socket.
LockIsHeld == \A d \in Daemons : daemon[d] \in Locked => flock = d

\* A thread lives with its daemon: the calls that are lost had one that died.
Attached ==
    \A r \in Requests :
        /\ handler[r] \in {"reading", "working", "sending"} =>
              conn[r] \in Daemons /\ daemon[conn[r]] \in Up
        /\ handler[r] = "lost" => conn[r] \in Daemons /\ daemon[conn[r]] = "dead"

\* A call before its job has left no trace.
Untouched ==
    \A r \in Requests :
        /\ call[r] = "unsent" => handler[r] = "none"
        /\ handler[r] \in {"none", "reading"} => child[r] = "none"
        /\ handler[r] \in {"none", "reading", "working", "lost"} => result[r] = None

\* The job lock is the thread's that runs a job, and of no other.
JobIsLocked ==
    \A r \in Requests :
        /\ \A d \in Daemons :
              job_lock[d] = r <=> conn[r] = d /\ handler[r] \in {"working", "sending"}
        /\ child[r] = "alive" => handler[r] \in {"working", "lost"}

\* What an answer and a verdict say stays true.
VerdictStands ==
    \A r \in Requests :
        /\ result[r] = "BUSY" => child[r] = "none" /\ handler[r] = "closed"
        /\ call[r] = "BUSY" => child[r] = "none" /\ handler[r] = "closed"
        /\ call[r] \in Statuses /\ ~late[r] /\ result[r] # "LARGE"
              => handler[r] \in {"none", "closed", "lost"}

CodexInv ==
    TypeOK /\ LockIsHeld /\ SocketStays /\ Attached /\ Untouched /\ JobIsLocked /\ VerdictStands

-----------------------------------------------------------------------------
LEMMA CodexInit == Init => CodexInv
<1> SUFFICES ASSUME Init PROVE CodexInv
  OBVIOUS
<1> USE CodexAssumption DEF Init, Statuses
<1>1. TypeOK
  BY DEF TypeOK, Up, Results
<1>2. LockIsHeld /\ SocketStays
  BY DEF LockIsHeld, Locked, SocketStays
<1>3. Attached /\ Untouched /\ JobIsLocked
  BY DEF Attached, Untouched, JobIsLocked
<1>4. VerdictStands
  BY DEF VerdictStands, Results, Codes
<1> QED BY <1>1, <1>2, <1>3, <1>4 DEF CodexInv

-----------------------------------------------------------------------------
(* The main thread of a daemon                                             *)

\* No thread or caller notices the daemons that start or are being stopped.
LEMMA CallsAreLeft ==
  ASSUME CodexInv, UNCHANGED calls, TypeOK',
         \A d \in Daemons : daemon[d] \in Up => daemon'[d] \in Up,
         \A d \in Daemons : daemon[d] = "dead" => daemon'[d] = "dead"
  PROVE  Attached' /\ Untouched' /\ JobIsLocked' /\ VerdictStands'
<1>1. ASSUME NEW r \in Requests
      PROVE  /\ handler'[r] \in {"reading", "working", "sending"} =>
                  conn'[r] \in Daemons /\ daemon'[conn'[r]] \in Up
             /\ handler'[r] = "lost" => conn'[r] \in Daemons /\ daemon'[conn'[r]] = "dead"
  <2>1. handler'[r] = handler[r] /\ conn'[r] = conn[r]
    BY DEF calls
  <2>2. CASE handler[r] \in {"reading", "working", "sending"}
    <3>1. conn[r] \in Daemons /\ daemon[conn[r]] \in Up
      BY <2>2 DEF CodexInv, Attached
    <3>2. daemon'[conn[r]] \in Up
      BY <3>1
    <3> QED BY <2>1, <2>2, <3>1, <3>2
  <2>3. CASE handler[r] = "lost"
    <3>1. conn[r] \in Daemons /\ daemon[conn[r]] = "dead"
      BY <2>3 DEF CodexInv, Attached
    <3>2. daemon'[conn[r]] = "dead"
      BY <3>1
    <3> QED BY <2>1, <2>3, <3>1, <3>2
  <2> QED BY <2>1, <2>2, <2>3
<1>2. Untouched' /\ JobIsLocked' /\ VerdictStands'
  BY DEF CodexInv, calls, Untouched, JobIsLocked, VerdictStands
<1> QED BY <1>1, <1>2 DEF Attached

LEMMA MainNext ==
  ASSUME CodexInv, NEW d \in Daemons, Main(d) \/ Interrupt(d)
  PROVE  CodexInv'
<1> USE CodexAssumption DEF CodexInv, TypeOK, Up
<1>1. UNCHANGED calls /\ UNCHANGED gate
  BY DEF Main, AcquireInstanceLock, RemoveStale, Bind, Interrupt, Unlink, ReleaseInstanceLock
<1>2. /\ daemon' \in [Daemons -> Up \cup {"new", "locked", "clear", "dead"}]
      /\ flock' \in Daemons \cup {None}
      /\ path' \in Daemons \cup {None}
  BY DEF Main, AcquireInstanceLock, RemoveStale, Bind, Interrupt, Unlink, ReleaseInstanceLock
<1>3. TypeOK'
  BY <1>1, <1>2 DEF calls
<1>4. Attached' /\ Untouched' /\ JobIsLocked' /\ VerdictStands'
  <2>1. /\ \A e \in Daemons : daemon[e] \in Up => daemon'[e] \in Up
        /\ \A e \in Daemons : daemon[e] = "dead" => daemon'[e] = "dead"
    BY DEF Main, AcquireInstanceLock, RemoveStale, Bind, Interrupt, Unlink, ReleaseInstanceLock
  <2> QED BY <1>1, <1>3, <2>1, CallsAreLeft
<1>5. LockIsHeld' /\ SocketStays'
  <2> USE DEF LockIsHeld, SocketStays, Locked
  <2>1. CASE AcquireInstanceLock(d)
    BY <2>1 DEF AcquireInstanceLock
  <2>2. CASE RemoveStale(d)
    BY <2>2 DEF RemoveStale
  <2>3. CASE Bind(d)
    BY <2>3 DEF Bind
  <2>4. CASE Interrupt(d)
    BY <2>4 DEF Interrupt
  <2>5. CASE Unlink(d)
    BY <2>5 DEF Unlink
  <2>6. CASE ReleaseInstanceLock(d)
    BY <2>6 DEF ReleaseInstanceLock
  <2> QED BY <2>1, <2>2, <2>3, <2>4, <2>5, <2>6 DEF Main
<1> QED BY <1>3, <1>4, <1>5

\* A daemon that dies frees both locks; its threads are lost, its children not.
LEMMA DieNext ==
  ASSUME CodexInv, NEW d \in Daemons, Die(d)
  PROVE  CodexInv'
<1> USE CodexAssumption DEF CodexInv, TypeOK, Die
<1>1. TypeOK'
  OBVIOUS
<1>2. LockIsHeld' /\ SocketStays'
  BY DEF LockIsHeld, SocketStays, Locked
<1>3. Attached'
  BY DEF Attached, Up
<1>4. Untouched'
  BY DEF Untouched
<1>5. ASSUME NEW r \in Requests
      PROVE  /\ \A e \in Daemons :
                  job_lock'[e] = r <=> conn'[r] = e /\ handler'[r] \in {"working", "sending"}
             /\ child'[r] = "alive" => handler'[r] \in {"working", "lost"}
  <2>1. conn'[r] = conn[r] /\ child'[r] = child[r]
    OBVIOUS
  <2>2. \A e \in Daemons : job_lock'[e] = IF e = d THEN None ELSE job_lock[e]
    OBVIOUS
  <2>3. CASE conn[r] = d /\ handler[r] \in {"reading", "working", "sending"}
    <3>1. handler'[r] = "lost"
      BY <2>3
    <3>2. \A e \in Daemons : job_lock'[e] # r
      BY <2>2, <2>3 DEF JobIsLocked
    <3> QED BY <3>1, <3>2
  <2>4. CASE ~(conn[r] = d /\ handler[r] \in {"reading", "working", "sending"})
    <3>1. handler'[r] = handler[r]
      BY <2>4
    <3>2. \A e \in Daemons : job_lock'[e] = r <=> job_lock[e] = r
      BY <2>2, <2>4 DEF JobIsLocked
    <3> QED BY <2>1, <3>1, <3>2 DEF JobIsLocked
  <2> QED BY <2>3, <2>4
<1>6. VerdictStands'
  BY DEF VerdictStands, Results, Codes
<1> QED BY <1>1, <1>2, <1>3, <1>4, <1>5, <1>6 DEF JobIsLocked

-----------------------------------------------------------------------------
(* Callers, threads and children                                           *)

LEMMA CallNext ==
  ASSUME CodexInv, NEW r \in Requests, Send(r) \/ SendFails(r) \/ Client(r)
  PROVE  CodexInv'
<1> USE CodexAssumption DEF CodexInv, TypeOK, Statuses
<1>1. LockIsHeld' /\ SocketStays' /\ UNCHANGED <<service, job_lock, child, late, result, gate>>
  BY DEF Send, SendFails, Client, Receive, ReceiveTooMuch, SocketTimeout, service, LockIsHeld, SocketStays
<1>2. CASE Send(r)
  <2>1. path \in Daemons /\ daemon[path] \in Up
    BY <1>2 DEF Send, Served, Up
  <2>2. TypeOK'
    BY <1>1, <1>2, <2>1 DEF Send, service
  <2>3. Attached' /\ Untouched'
    BY <1>1, <1>2, <2>1 DEF Send, service, Attached, Untouched
  <2>4. JobIsLocked' /\ VerdictStands'
    BY <1>1, <1>2 DEF Send, service, JobIsLocked, VerdictStands, Untouched
  <2> QED BY <1>1, <2>2, <2>3, <2>4
<1>3. ASSUME NEW st \in Statuses, call' = [call EXCEPT ![r] = st], UNCHANGED <<conn, handler>>,
             st = "BUSY" => result[r] = "BUSY",
             \/ call[r] = "unsent" \/ handler[r] \in {"closed", "lost"}
             \/ late[r] \/ result[r] = "LARGE"
      PROVE  CodexInv'
  <2>1. TypeOK' /\ Attached' /\ Untouched' /\ JobIsLocked'
    BY <1>1, <1>3 DEF service, Attached, Untouched, JobIsLocked
  <2>2. VerdictStands'
    BY <1>1, <1>3 DEF VerdictStands, Untouched
  <2> QED BY <1>1, <2>1, <2>2
<1>4. CASE SendFails(r) \/ ReceiveTooMuch(r) \/ SocketTimeout(r)
  BY <1>3, <1>4 DEF SendFails, ReceiveTooMuch, SocketTimeout
<1>5. CASE Receive(r)
  BY <1>3, <1>5 DEF Receive, GatewayStatus
<1> QED BY <1>2, <1>4, <1>5 DEF Client

LEMMA ThreadNext ==
  ASSUME CodexInv, NEW r \in Requests, Thread(r) \/ Exit(r)
  PROVE  CodexInv'
<1> USE CodexAssumption DEF CodexInv, TypeOK
<1>1. LockIsHeld' /\ SocketStays' /\ UNCHANGED <<service, call, conn, gate>>
  BY DEF Thread, Refuse, Busy, StartJob, GetLate, WaitExpires, Reply, Exit, service, LockIsHeld, SocketStays
<1> USE <1>1 DEF service
<1>2. handler[r] \in {"reading", "working", "sending"} => conn[r] \in Daemons /\ daemon[conn[r]] \in Up
  BY DEF Attached
<1>3. CASE Refuse(r) \/ Busy(r)
  <2> USE <1>3 DEF Refuse, Busy
  <2>1. TypeOK'
    BY DEF Results
  <2>2. Attached' /\ Untouched'
    BY DEF Attached, Untouched
  <2>3. JobIsLocked'
    BY DEF JobIsLocked, Untouched
  <2>4. VerdictStands'
    BY DEF VerdictStands, Untouched
  <2> QED BY <2>1, <2>2, <2>3, <2>4
<1>4. CASE StartJob(r)
  <2> USE <1>4, <1>2 DEF StartJob
  <2>1. TypeOK'
    BY DEF Results, Codes
  <2>2. Attached' /\ Untouched'
    BY DEF Attached, Untouched
  <2>3. JobIsLocked'
    BY DEF JobIsLocked, Untouched
  <2>4. VerdictStands'
    BY DEF VerdictStands, Untouched, Results, Codes
  <2> QED BY <2>1, <2>2, <2>3, <2>4
<1>5. CASE Exit(r) \/ WaitExpires(r)
  <2> USE <1>5, <1>2 DEF Exit, WaitExpires
  <2>1. TypeOK'
    BY DEF Results, Codes
  <2>2. Attached' /\ Untouched'
    BY DEF Attached, Untouched
  <2>3. JobIsLocked'
    BY DEF JobIsLocked
  <2>4. VerdictStands'
    BY DEF VerdictStands, Untouched, Results, Codes
  <2> QED BY <2>1, <2>2, <2>3, <2>4
<1>6. CASE GetLate(r)
  <2> USE <1>6 DEF GetLate
  <2>1. TypeOK'
    OBVIOUS
  <2>2. Attached' /\ Untouched' /\ JobIsLocked' /\ VerdictStands'
    BY DEF Attached, Untouched, JobIsLocked, VerdictStands
  <2> QED BY <2>1, <2>2
<1>7. CASE Reply(r)
  <2> USE <1>7, <1>2 DEF Reply
  <2>1. TypeOK'
    OBVIOUS
  <2>2. Attached' /\ Untouched'
    BY DEF Attached, Untouched
  <2>3. JobIsLocked'
    BY DEF JobIsLocked
  <2>4. VerdictStands'
    BY DEF VerdictStands
  <2> QED BY <2>1, <2>2, <2>3, <2>4
<1> QED BY <1>3, <1>4, <1>5, <1>6, <1>7 DEF Thread

LEMMA CodexNext == CodexInv /\ [Next]_vars => CodexInv'
<1> SUFFICES ASSUME CodexInv, [Next]_vars PROVE CodexInv'
  OBVIOUS
<1>1. CASE CheckReady
  BY <1>1 DEF CheckReady, service, calls, CodexInv, TypeOK, LockIsHeld, SocketStays, Attached, Untouched,
    JobIsLocked, VerdictStands
<1>2. CASE UNCHANGED vars
  BY <1>2 DEF vars, CodexInv, TypeOK, LockIsHeld, SocketStays, Attached, Untouched, JobIsLocked,
    VerdictStands
<1> QED BY <1>1, <1>2, MainNext, DieNext, CallNext, ThreadNext DEF Next

LEMMA CodexInvariance == Spec => []CodexInv
  BY CodexInit, CodexNext, PTL DEF Spec

-----------------------------------------------------------------------------
\* Type correctness.
THEOREM CodexTypes == Spec => []TypeOK
<1>1. CodexInv => TypeOK
  BY DEF CodexInv
<1> QED BY CodexInvariance, <1>1, PTL

\* The socket of a daemon in service stays at its path, whatever other daemons
\* start, are refused, stop or die.
THEOREM SocketsStay == Spec => []SocketStays
<1>1. CodexInv => SocketStays
  BY DEF CodexInv
<1> QED BY CodexInvariance, <1>1, PTL

LEMMA SerialJobs == CodexInv => JobsAreSerial
<1> SUFFICES ASSUME CodexInv PROVE JobsAreSerial
  OBVIOUS
<1> USE CodexAssumption DEF CodexInv
<1>1. ASSUME NEW r \in Requests, child[r] = "alive",
             daemon[conn[r]] \in {"serving", "closed", "unlinked"}
      PROVE  conn[r] = flock /\ job_lock[conn[r]] = r
  <2>1. handler[r] = "working"
    BY <1>1 DEF JobIsLocked, Attached
  <2>2. conn[r] \in Daemons /\ job_lock[conn[r]] = r
    BY <2>1 DEF JobIsLocked, Attached
  <2> QED BY <1>1, <2>2 DEF LockIsHeld, Locked
<1>2. ASSUME NEW r \in Requests, call[r] \in Statuses, ~late[r], result[r] # "LARGE"
      PROVE  /\ \A d \in Daemons : job_lock[d] # r
             /\ handler[r] # "lost" => child[r] # "alive"
  BY <1>2 DEF VerdictStands, JobIsLocked
<1>3. \A r \in Requests : call[r] = "BUSY" => child[r] = "none"
  BY DEF VerdictStands
<1> QED BY <1>1, <1>2, <1>3 DEF JobsAreSerial

\* One job at a time, and none that outlives the verdict of its call but for the
\* reasons that the property names.
THEOREM JobsFollowEachOther == Spec => []JobsAreSerial
  BY CodexInvariance, SerialJobs, PTL
-----------------------------------------------------------------------------
(* What an orchestrator relies on                                          *)

\* A connection that is being read has a caller who waits, a thread at work has
\* a child, and a success is one of a child that ended.
Awaited ==
    \A r \in Requests :
        /\ handler[r] = "reading" => call[r] = "waiting"
        /\ handler[r] = "working" => child[r] = "alive"
        /\ result[r] = "SUCCESS" => child[r] = "dead"

LEMMA AwaitedNext == CodexInv /\ Awaited /\ [Next]_vars => Awaited'
<1> SUFFICES ASSUME CodexInv, Awaited, [Next]_vars PROVE Awaited'
  OBVIOUS
<1> USE CodexAssumption DEF CodexInv, TypeOK, Awaited, service, calls
<1>1. ASSUME NEW d \in Daemons, Main(d) \/ Interrupt(d) PROVE Awaited'
  BY <1>1 DEF Main, AcquireInstanceLock, RemoveStale, Bind, Interrupt, Unlink, ReleaseInstanceLock
<1>2. ASSUME NEW d \in Daemons, Die(d) PROVE Awaited'
  BY <1>2 DEF Die, Results, Codes
<1>3. ASSUME NEW r \in Requests, Send(r) \/ SendFails(r) \/ Client(r) PROVE Awaited'
  BY <1>3 DEF Send, SendFails, Client, Receive, ReceiveTooMuch, SocketTimeout, Untouched
<1>4. ASSUME NEW r \in Requests, Refuse(r) \/ Busy(r) \/ GetLate(r) \/ Reply(r) PROVE Awaited'
  BY <1>4 DEF Refuse, Busy, GetLate, Reply
<1>5. ASSUME NEW r \in Requests, StartJob(r) PROVE Awaited'
  BY <1>5 DEF StartJob, Untouched, Results, Codes
<1>6. ASSUME NEW r \in Requests, WaitExpires(r) \/ Exit(r) PROVE Awaited'
  BY <1>6 DEF WaitExpires, Exit, Codes
<1>7. ASSUME CheckReady \/ UNCHANGED vars PROVE Awaited'
  BY <1>7 DEF CheckReady, vars
<1> QED BY <1>1, <1>2, <1>3, <1>4, <1>5, <1>6, <1>7 DEF Next, Thread

\* How a step is seen by the orchestrator: no job changes, or the one of a call.
LEMMA SameJobs ==
  ASSUME \A s \in Requests : ServiceJob(s)' = ServiceJob(s)
  PROVE  [s \in Requests |-> ServiceJob(s)]' = [s \in Requests |-> ServiceJob(s)]
OBVIOUS

LEMMA OneJobChanges ==
  ASSUME NEW r \in Requests, \A s \in Requests \ {r} : ServiceJob(s)' = ServiceJob(s)
  PROVE  [s \in Requests |-> ServiceJob(s)]' =
           [[s \in Requests |-> ServiceJob(s)] EXCEPT ![r] = ServiceJob(r)']
OBVIOUS

\* A job runs on the daemon with the instance lock, whose job lock is its
\* call's; any other living child has a daemon that is going or gone.
LEMMA LivingChild ==
  ASSUME CodexInv, NEW s \in Requests, child[s] = "alive"
  PROVE  /\ conn[s] \in Daemons
         /\ \/ /\ ServiceJob(s) = "running"
               /\ daemon[conn[s]] \in {"serving", "closed", "unlinked"}
               /\ conn[s] = flock /\ job_lock[conn[s]] = s
            \/ /\ ServiceJob(s) = "left"
               /\ daemon[conn[s]] \in {"exiting", "dead"}
<1> USE DEF CodexInv
<1>1. handler[s] \in {"working", "lost"}
  BY DEF JobIsLocked
<1>2. conn[s] \in Daemons /\ daemon[conn[s]] \in Up \cup {"dead"}
  BY <1>1 DEF Attached
<1>3. CASE daemon[conn[s]] \in {"serving", "closed", "unlinked"}
  <2>1. handler[s] = "working"
    BY <1>1, <1>3 DEF Attached
  <2>2. conn[s] = flock /\ job_lock[conn[s]] = s
    BY <1>2, <1>3, <2>1 DEF LockIsHeld, Locked, JobIsLocked
  <2> QED BY <1>2, <1>3, <2>2 DEF ServiceJob
<1>4. CASE daemon[conn[s]] \in {"exiting", "dead"}
  BY <1>2, <1>4 DEF ServiceJob
<1> QED BY <1>2, <1>3, <1>4 DEF Up

LEMMA DeadChild ==
  ASSUME NEW s \in Requests, child[s] # "alive"
  PROVE  ServiceJob(s) = IF child[s] = "none" THEN "none" ELSE "ended"
BY DEF ServiceJob

LEMMA ServiceInit == Init => Service!Init
BY DEF Init, Service!Init, ServiceJob

\* The main thread of a daemon leaves its job when it releases the instance lock.
LEMMA MainServes ==
  ASSUME CodexInv, NEW d \in Daemons, Main(d) \/ Interrupt(d)
  PROVE  Service!Leave \/ UNCHANGED Service!vars
<1> USE DEF CodexInv, TypeOK, calls
<1>1. UNCHANGED <<call, child, conn>>
  BY DEF Main, AcquireInstanceLock, RemoveStale, Bind, Interrupt, Unlink, ReleaseInstanceLock
<1>2. ASSUME NEW s \in Requests, child[s] # "alive" PROVE ServiceJob(s)' = ServiceJob(s)
  BY <1>1, <1>2 DEF ServiceJob
<1>3. CASE ReleaseInstanceLock(d)
  <2>1. ASSUME NEW s \in Requests
        PROVE  ServiceJob(s)' = IF ServiceJob(s) = "running" THEN "left" ELSE ServiceJob(s)
    <3>1. CASE child[s] = "alive"
      <4>1. CASE ServiceJob(s) = "running"
        <5>1. conn[s] = d
          BY <1>3, <3>1, <4>1, LivingChild DEF ReleaseInstanceLock, LockIsHeld, Locked
        <5> QED BY <1>1, <1>3, <3>1, <4>1, <5>1 DEF ReleaseInstanceLock, ServiceJob
      <4>2. CASE ServiceJob(s) = "left" /\ daemon[conn[s]] \in {"exiting", "dead"}
        BY <1>1, <1>3, <3>1, <4>2 DEF ReleaseInstanceLock, ServiceJob
      <4> QED BY <3>1, <4>1, <4>2, LivingChild
    <3>2. CASE child[s] # "alive"
      BY <1>2, <3>2, DeadChild
    <3> QED BY <3>1, <3>2
  <2> QED BY <1>1, <2>1 DEF Service!Leave
<1>4. CASE ~ReleaseInstanceLock(d)
  <2>1. ASSUME NEW s \in Requests, child[s] = "alive" PROVE ServiceJob(s)' = ServiceJob(s)
    <3>1. \A e \in Daemons :
            /\ daemon[e] \in {"serving", "closed", "unlinked"} =>
                  daemon'[e] \in {"serving", "closed", "unlinked"}
            /\ daemon[e] \in {"exiting", "dead"} => daemon'[e] \in {"exiting", "dead"}
      BY <1>4 DEF Main, AcquireInstanceLock, RemoveStale, Bind, Interrupt, Unlink
    <3>2. conn[s] \in Daemons
      BY <2>1, LivingChild
    <3> QED BY <1>1, <2>1, <3>1, <3>2, LivingChild DEF ServiceJob
  <2>2. \A s \in Requests : ServiceJob(s)' = ServiceJob(s)
    BY <1>2, <2>1
  <2> QED BY <1>1, <2>2, SameJobs DEF Service!vars
<1> QED BY <1>3, <1>4

\* A daemon in service leaves its job when it dies, another has none to leave.
LEMMA DieServes ==
  ASSUME CodexInv, NEW d \in Daemons, Die(d)
  PROVE  Service!Leave \/ UNCHANGED Service!vars
<1> USE DEF CodexInv, TypeOK, Die
<1>1. ASSUME NEW s \in Requests, child[s] # "alive" PROVE ServiceJob(s)' = ServiceJob(s)
  BY <1>1 DEF ServiceJob
<1>2. CASE daemon[d] \in {"serving", "closed", "unlinked"}
  <2>1. ASSUME NEW s \in Requests
        PROVE  ServiceJob(s)' = IF ServiceJob(s) = "running" THEN "left" ELSE ServiceJob(s)
    <3>1. CASE child[s] = "alive"
      <4>1. CASE ServiceJob(s) = "running"
        <5>1. conn[s] = d
          BY <1>2, <3>1, <4>1, LivingChild DEF LockIsHeld, Locked
        <5> QED BY <3>1, <4>1, <5>1 DEF ServiceJob
      <4>2. CASE ServiceJob(s) = "left" /\ daemon[conn[s]] \in {"exiting", "dead"}
        BY <3>1, <4>2 DEF ServiceJob
      <4> QED BY <3>1, <4>1, <4>2, LivingChild
    <3>2. CASE child[s] # "alive"
      BY <1>1, <3>2, DeadChild
    <3> QED BY <3>1, <3>2
  <2> QED BY <2>1 DEF Service!Leave
<1>3. CASE daemon[d] \notin {"serving", "closed", "unlinked"}
  <2>1. ASSUME NEW s \in Requests, child[s] = "alive" PROVE ServiceJob(s)' = ServiceJob(s)
    <3>1. conn[s] \in Daemons
      BY <2>1, LivingChild
    <3>2. CASE conn[s] = d
      BY <1>3, <2>1, <3>2 DEF ServiceJob
    <3>3. CASE conn[s] # d
      BY <2>1, <3>1, <3>3 DEF ServiceJob
    <3> QED BY <3>2, <3>3
  <2>2. \A s \in Requests : ServiceJob(s)' = ServiceJob(s)
    BY <1>1, <2>1
  <2> QED BY <2>2, SameJobs DEF Service!vars
<1> QED BY <1>2, <1>3

\* A caller asks and has a verdict.
LEMMA CallServes ==
  ASSUME CodexInv, Awaited, NEW r \in Requests, Send(r) \/ SendFails(r) \/ Client(r)
  PROVE  Service!Next
<1> USE CodexAssumption DEF CodexInv, TypeOK, service
<1>1. CASE Send(r)
  <2>1. \A s \in Requests : ServiceJob(s)' = ServiceJob(s)
    BY <1>1 DEF Send, ServiceJob, Untouched
  <2>2. Service!Ask(r)
    BY <1>1, <2>1, SameJobs DEF Send, Service!Ask
  <2> QED BY <2>2 DEF Service!Next
<1>2. CASE SendFails(r)
  <2>1. \A s \in Requests : ServiceJob(s)' = ServiceJob(s)
    BY <1>2 DEF SendFails, ServiceJob
  <2>2. Service!Fail(r)
    BY <1>2, <2>1, SameJobs DEF SendFails, Service!Fail
  <2> QED BY <2>2 DEF Service!Next
<1>3. CASE Client(r)
  <2>1. call[r] = "waiting" /\ UNCHANGED <<child, conn, daemon>>
    BY <1>3 DEF Client, Receive, ReceiveTooMuch, SocketTimeout
  <2>2. UNCHANGED [s \in Requests |-> ServiceJob(s)]
    BY <2>1, SameJobs DEF ServiceJob
  <2>3. PICK verdict \in Service!Statuses :
            /\ call' = [call EXCEPT ![r] = verdict]
            /\ verdict = "SUCCESS" => result[r] = "SUCCESS"
            /\ verdict = "BUSY" => result[r] = "BUSY"
    BY <1>3 DEF Client, Receive, ReceiveTooMuch, SocketTimeout, GatewayStatus, Service!Statuses
  <2>4. /\ verdict = "SUCCESS" => ServiceJob(r) = "ended"
        /\ verdict = "BUSY" => ServiceJob(r) = "none"
    BY <2>3 DEF Awaited, VerdictStands, ServiceJob
  <2>5. Service!Return(r, verdict)
    BY <2>1, <2>2, <2>3, <2>4 DEF Service!Return
  <2> QED BY <2>5 DEF Service!Next
<1> QED BY <1>1, <1>2, <1>3

\* A thread starts a job and ends it.
LEMMA ThreadServes ==
  ASSUME CodexInv, Awaited, NEW r \in Requests, Thread(r) \/ Exit(r)
  PROVE  [Service!Next]_(Service!vars)
<1> USE CodexAssumption DEF CodexInv, TypeOK, service
<1>1. CASE Refuse(r) \/ Busy(r) \/ GetLate(r) \/ Reply(r)
  <2>1. \A s \in Requests : ServiceJob(s)' = ServiceJob(s)
    BY <1>1 DEF Refuse, Busy, GetLate, Reply, ServiceJob
  <2> QED BY <1>1, <2>1, SameJobs DEF Refuse, Busy, GetLate, Reply, Service!vars
<1>2. CASE StartJob(r)
  <2>1. call[r] = "waiting" /\ UNCHANGED <<call, conn, daemon>>
    BY <1>2 DEF StartJob, Awaited
  <2>2. CASE UNCHANGED child
    <3>1. \A s \in Requests : ServiceJob(s)' = ServiceJob(s)
      BY <2>1, <2>2 DEF ServiceJob
    <3> QED BY <2>1, <3>1, SameJobs DEF Service!vars
  <2>3. CASE child' = [child EXCEPT ![r] = "alive"]
    <3>1. ServiceJob(r) = "none" /\ ServiceJob(r)' \in {"running", "left"}
      BY <1>2, <2>3 DEF StartJob, ServiceJob, Untouched
    <3>2. \A s \in Requests \ {r} : ServiceJob(s)' = ServiceJob(s)
      BY <2>1, <2>3 DEF ServiceJob
    <3>3. ASSUME ServiceJob(r)' = "running", NEW s \in Requests, ServiceJob(s) = "running" PROVE FALSE
      <4>1. child[s] = "alive"
        BY <3>3, DeadChild
      <4>2. conn[s] = flock /\ job_lock[conn[s]] = s
        BY <3>3, <4>1, LivingChild
      <4>3. conn[r] = flock
        <5>1. conn[r] \in Daemons /\ daemon[conn[r]] \in {"serving", "closed", "unlinked"}
          BY <1>2, <2>1, <2>3, <3>3 DEF StartJob, ServiceJob, Attached
        <5> QED BY <5>1 DEF LockIsHeld, Locked
      <4> QED BY <1>2, <4>2, <4>3 DEF StartJob
    <3>4. Service!Start(r)
      BY <2>1, <3>1, <3>2, <3>3, OneJobChanges DEF Service!Start
    <3> QED BY <3>4 DEF Service!Next
  <2> QED BY <1>2, <2>2, <2>3 DEF StartJob
<1>3. CASE WaitExpires(r) \/ Exit(r)
  <2>1. UNCHANGED call /\ \A s \in Requests \ {r} : ServiceJob(s)' = ServiceJob(s)
    BY <1>3 DEF WaitExpires, Exit, ServiceJob
  <2>2. ServiceJob(r) \in {"running", "left"} /\ ServiceJob(r)' = "ended"
    BY <1>3 DEF WaitExpires, Exit, ServiceJob, Awaited
  <2>3. Service!End(r)
    BY <2>1, <2>2, OneJobChanges DEF Service!End
  <2> QED BY <2>3 DEF Service!Next
<1> QED BY <1>1, <1>2, <1>3 DEF Thread

LEMMA ServiceNext ==
  ASSUME CodexInv, Awaited, [Next]_vars
  PROVE  [Service!Next]_(Service!vars)
<1>1. ASSUME CheckReady \/ UNCHANGED vars PROVE UNCHANGED Service!vars
  <2>1. \A s \in Requests : ServiceJob(s)' = ServiceJob(s)
    BY <1>1 DEF CheckReady, vars, service, calls, ServiceJob
  <2> QED BY <1>1, <2>1, SameJobs DEF CheckReady, vars, service, calls, Service!vars
<1>2. ASSUME NEW d \in Daemons, Main(d) \/ Interrupt(d) \/ Die(d)
      PROVE  [Service!Next]_(Service!vars)
  BY <1>2, MainServes, DieServes DEF Service!Next
<1>3. ASSUME NEW r \in Requests, Send(r) \/ SendFails(r) \/ Client(r) \/ Thread(r) \/ Exit(r)
      PROVE  [Service!Next]_(Service!vars)
  BY <1>3, CallServes, ThreadServes
<1> QED BY <1>1, <1>2, <1>3 DEF Next

\* Gateway, client and daemons of Codex implement what an orchestrator relies
\* on: at most one job for a call, started while its caller waits and no other of
\* a daemon in service runs, and a verdict that is final.
THEOREM CodexImplementsService == Spec => ImplementsService
<1>1. Init => Awaited
  BY CodexAssumption DEF Init, Awaited, Results, Codes
<1>2. CodexInv /\ Awaited /\ [Next]_vars => [Service!Next]_(Service!vars)
  BY ServiceNext
<1> QED
  BY <1>1, <1>2, CodexInvariance, AwaitedNext, ServiceInit, PTL
  DEF Spec, ImplementsService, Service!Spec
=============================================================================
