---------------------------- MODULE CodexSidecar ----------------------------
(* The daemons that run codex on the host and those who call them          *)
(* (server/infrastructure: host_codex_socket_daemon.py,                    *)
(* host_codex_client.py, agent_gateway.py, wait_for_sidecar.py).  A daemon *)
(* takes an instance lock before it touches the socket; it is a process    *)
(* that starts once, is stopped in order or dies, and another may follow.  *)
(*                                                                         *)
(* What differs from AgySidecar, which has the readers of a child's output *)
(* in detail: the instance lock, a client that waits exactly as long as a  *)
(* job may take, and a client with a limit on the size of an answer.       *)
(***************************************************************************)
EXTENDS Naturals

CONSTANTS
    Daemons,     \* processes that are started to serve the socket
    Requests,    \* calls of the gateway
    None

\* "LARGE": a success with an answer above what the client reads; "FAILED": any
\* other exit, and a child that a reader thread killed for its output.
Codes == {"SUCCESS", "LARGE", "FAILED"}
Results == Codes \cup {"BUSY", "REFUSED", "EXPIRED"}

ASSUME CodexAssumption == None \notin Daemons \cup Requests \cup Results

VARIABLES
    daemon,      \* how far the main thread of each daemon is
    flock,       \* the daemon with the lock on <socket>.lock
    path,        \* the daemon whose socket has the path, alive or not
    call,        \* the gateway's status of each call, once it has one
    conn,        \* the daemon the call is connected to
    handler,     \* where that daemon's thread for it is
    job_lock,    \* per daemon, the call whose thread has the lock
    child,       \* the codex process of each call
    late,        \* its 900 s have passed
    result,      \* the answer of the daemon
    gate         \* the process that waits for readiness before a start

vars == <<daemon, flock, path, call, conn, handler, job_lock, child, late,
          result, gate>>

service == <<daemon, flock, path>>
calls == <<call, conn, handler, job_lock, child, late, result>>

Up == {"serving", "closed", "unlinked", "exiting"}
Statuses == {"SUCCESS", "BUSY", "ERROR"}

TypeOK ==
    /\ daemon \in [Daemons -> Up \cup {"new", "locked", "clear", "dead"}]
    /\ flock \in Daemons \cup {None}
    /\ path \in Daemons \cup {None}
    /\ call \in [Requests -> Statuses \cup {"unsent", "waiting"}]
    /\ conn \in [Requests -> Daemons \cup {None}]
    /\ handler \in [Requests -> {"none", "reading", "working", "sending", "closed", "lost"}]
    /\ job_lock \in [Daemons -> Requests \cup {None}]
    /\ child \in [Requests -> {"none", "alive", "killed", "dead"}]
    /\ late \in [Requests -> BOOLEAN]
    /\ result \in [Requests -> Results \cup {None}]
    /\ gate \in {"polling", "ready", "failed"}

Init ==
    /\ daemon = [d \in Daemons |-> "new"]
    /\ flock = None
    /\ path = None
    /\ call = [r \in Requests |-> "unsent"]
    /\ conn = [r \in Requests |-> None]
    /\ handler = [r \in Requests |-> "none"]
    /\ job_lock = [d \in Daemons |-> None]
    /\ child = [r \in Requests |-> "none"]
    /\ late = [r \in Requests |-> FALSE]
    /\ result = [r \in Requests |-> None]
    /\ gate = "polling"

\* What connect() reaches.
Served == path # None /\ daemon[path] = "serving"

\* What send_request makes of an answer, and the gateway of that.
GatewayStatus(a) == IF a \in {"SUCCESS", "BUSY"} THEN a ELSE "ERROR"

-----------------------------------------------------------------------------
(* The main thread of a daemon.                                            *)

AcquireInstanceLock(d) ==
    /\ daemon[d] = "new"
    /\ IF flock = None
       THEN flock' = d /\ daemon' = [daemon EXCEPT ![d] = "locked"]
       ELSE daemon' = [daemon EXCEPT ![d] = "dead"] /\ UNCHANGED flock
    /\ UNCHANGED <<path, calls, gate>>

RemoveStale(d) ==
    /\ daemon[d] = "locked"
    /\ path' = None
    /\ daemon' = [daemon EXCEPT ![d] = "clear"]
    /\ UNCHANGED <<flock, calls, gate>>

\* bind raises if something is at the path; the finally clause removes it.
Bind(d) ==
    /\ daemon[d] = "clear"
    /\ IF path = None
       THEN path' = d /\ daemon' = [daemon EXCEPT ![d] = "serving"]
       ELSE daemon' = [daemon EXCEPT ![d] = "closed"] /\ UNCHANGED path
    /\ UNCHANGED <<flock, calls, gate>>

\* Mutant of Interrupt: the instance lock is released before the socket is removed.
InterruptReleasing(d) ==
    /\ daemon[d] \in {"locked", "clear", "serving"}
    /\ daemon' = [daemon EXCEPT ![d] = "closed"]
    /\ flock' = None
    /\ UNCHANGED <<path, calls, gate>>

\* KeyboardInterrupt; the finally clause closes the server first.  Connections
\* that nobody accepted yet are not distinguished from those being read.
Interrupt(d) ==
    /\ daemon[d] \in {"locked", "clear", "serving"}
    /\ daemon' = [daemon EXCEPT ![d] = "closed"]
    /\ UNCHANGED <<flock, path, calls, gate>>

Unlink(d) ==
    /\ daemon[d] = "closed"
    /\ path' = None
    /\ daemon' = [daemon EXCEPT ![d] = "unlinked"]
    /\ UNCHANGED <<flock, calls, gate>>

ReleaseInstanceLock(d) ==
    /\ daemon[d] = "unlinked"
    /\ flock' = None
    /\ daemon' = [daemon EXCEPT ![d] = "exiting"]
    /\ UNCHANGED <<path, calls, gate>>

\* The process ends, in order or by a signal.  Its threads end with it, the
\* kernel frees its lock, the socket stays where it is, a child may live on.
Die(d) ==
    /\ daemon[d] \notin {"new", "dead"}
    /\ daemon' = [daemon EXCEPT ![d] = "dead"]
    /\ flock' = IF flock = d THEN None ELSE flock
    /\ handler' = [r \in Requests |->
         IF conn[r] = d /\ handler[r] \in {"reading", "working", "sending"} THEN "lost" ELSE handler[r]]
    /\ result' = [r \in Requests |->
         IF conn[r] = d /\ handler[r] = "sending" THEN None ELSE result[r]]
    /\ job_lock' = [job_lock EXCEPT ![d] = None]
    /\ UNCHANGED <<path, call, conn, child, late, gate>>

-----------------------------------------------------------------------------
(* A caller, its gateway and its client.                                   *)

Send(r) ==
    /\ call[r] = "unsent"
    /\ Served
    /\ call' = [call EXCEPT ![r] = "waiting"]
    /\ conn' = [conn EXCEPT ![r] = path]
    /\ handler' = [handler EXCEPT ![r] = "reading"]
    /\ UNCHANGED <<service, job_lock, child, late, result, gate>>

\* No token, no socket, nobody who listens, a send that is cut off.
SendFails(r) ==
    /\ call[r] = "unsent"
    /\ call' = [call EXCEPT ![r] = "ERROR"]
    /\ UNCHANGED <<service, conn, handler, job_lock, child, late, result, gate>>

Receive(r) ==
    /\ call[r] = "waiting"
    /\ handler[r] \in {"closed", "lost"}
    /\ call' = [call EXCEPT ![r] = GatewayStatus(result[r])]
    /\ UNCHANGED <<service, conn, handler, job_lock, child, late, result, gate>>

\* The client stops reading while the daemon is still sending.
ReceiveTooMuch(r) ==
    /\ call[r] = "waiting"
    /\ handler[r] = "sending" /\ result[r] = "LARGE"
    /\ call' = [call EXCEPT ![r] = "ERROR"]
    /\ UNCHANGED <<service, conn, handler, job_lock, child, late, result, gate>>

\* recv times out after the 900 s of the job, before or after the daemon does.
SocketTimeout(r) ==
    /\ call[r] = "waiting"
    /\ handler[r] \in {"working", "sending"} /\ late[r]
    /\ call' = [call EXCEPT ![r] = "ERROR"]
    /\ UNCHANGED <<service, conn, handler, job_lock, child, late, result, gate>>

-----------------------------------------------------------------------------
(* The daemon's thread for one connection, and the child.                  *)

Refuse(r) ==
    /\ handler[r] = "reading"
    /\ handler' = [handler EXCEPT ![r] = "closed"]
    /\ result' = [result EXCEPT ![r] = "REFUSED"]
    /\ UNCHANGED <<service, call, conn, job_lock, child, late, gate>>

Busy(r) ==
    /\ handler[r] = "reading"
    /\ job_lock[conn[r]] # None
    /\ handler' = [handler EXCEPT ![r] = "closed"]
    /\ result' = [result EXCEPT ![r] = "BUSY"]
    /\ UNCHANGED <<service, call, conn, job_lock, child, late, gate>>

\* Mutant of StartJob: a thread goes on without the lock.
StartJobAnyway(r) ==
    /\ handler[r] = "reading"
    /\ job_lock' = [job_lock EXCEPT ![conn[r]] = r]
    /\ handler' = [handler EXCEPT ![r] = "working"]
    /\ child' = [child EXCEPT ![r] = "alive"]
    /\ UNCHANGED <<service, call, conn, late, result, gate>>

StartJob(r) ==
    /\ handler[r] = "reading"
    /\ job_lock[conn[r]] = None
    /\ job_lock' = [job_lock EXCEPT ![conn[r]] = r]
    /\ \/ /\ handler' = [handler EXCEPT ![r] = "working"]
          /\ child' = [child EXCEPT ![r] = "alive"]
          /\ UNCHANGED result
       \/ /\ handler' = [handler EXCEPT ![r] = "sending"] \* Popen raises
          /\ result' = [result EXCEPT ![r] = "FAILED"]
          /\ UNCHANGED child
    /\ UNCHANGED <<service, call, conn, late, gate>>

Exit(r) ==
    /\ handler[r] = "working"
    /\ \E c \in Codes : result' = [result EXCEPT ![r] = c]
    /\ child' = [child EXCEPT ![r] = "dead"]
    /\ handler' = [handler EXCEPT ![r] = "sending"]
    /\ UNCHANGED <<service, call, conn, job_lock, late, gate>>

GetLate(r) ==
    /\ handler[r] = "working" /\ ~late[r]
    /\ late' = [late EXCEPT ![r] = TRUE]
    /\ UNCHANGED <<service, call, conn, handler, job_lock, child, result, gate>>

\* Mutant of WaitExpires: the child is not killed.
WaitExpiresLeaving(r) ==
    /\ handler[r] = "working" /\ late[r]
    /\ result' = [result EXCEPT ![r] = "EXPIRED"]
    /\ handler' = [handler EXCEPT ![r] = "sending"]
    /\ UNCHANGED <<service, call, conn, job_lock, child, late, gate>>

WaitExpires(r) ==
    /\ handler[r] = "working" /\ late[r]
    /\ child' = [child EXCEPT ![r] = "killed"]
    /\ result' = [result EXCEPT ![r] = "EXPIRED"]
    /\ handler' = [handler EXCEPT ![r] = "sending"]
    /\ UNCHANGED <<service, call, conn, job_lock, late, gate>>

\* Mutant of Reply: when sendall raises, the lock stays.
ReplyHolding(r) ==
    /\ handler[r] = "sending"
    /\ result[r] = "LARGE" => call[r] # "waiting"
    /\ job_lock' = IF call[r] = "waiting" THEN [job_lock EXCEPT ![conn[r]] = None] ELSE job_lock
    /\ handler' = [handler EXCEPT ![r] = "closed"]
    /\ UNCHANGED <<service, call, conn, child, late, result, gate>>

\* sendall returns, or raises because the client is gone: with an answer that is
\* too large it returns only when the client has stopped reading.
Reply(r) ==
    /\ handler[r] = "sending"
    /\ result[r] = "LARGE" => call[r] # "waiting"
    /\ job_lock' = [job_lock EXCEPT ![conn[r]] = None]
    /\ handler' = [handler EXCEPT ![r] = "closed"]
    /\ UNCHANGED <<service, call, conn, child, late, result, gate>>

-----------------------------------------------------------------------------
(* wait_for_sidecar asks until it is answered or its time is over; the     *)
(* question is answered at once, without the job lock.                     *)

CheckReady ==
    /\ gate = "polling"
    /\ \/ Served /\ gate' = "ready"
       \/ gate' = "failed"
    /\ UNCHANGED <<service, calls>>

Main(d) ==
    \/ AcquireInstanceLock(d) \/ RemoveStale(d) \/ Bind(d)
    \/ Unlink(d) \/ ReleaseInstanceLock(d)

Client(r) == Receive(r) \/ ReceiveTooMuch(r) \/ SocketTimeout(r)

Thread(r) ==
    Refuse(r) \/ Busy(r) \/ StartJob(r) \/ GetLate(r) \/ WaitExpires(r) \/ Reply(r)

Next ==
    \/ \E d \in Daemons : Main(d) \/ Interrupt(d) \/ Die(d)
    \/ \E r \in Requests : Send(r) \/ SendFails(r) \/ Client(r) \/ Thread(r) \/ Exit(r)
    \/ CheckReady

Spec == Init /\ [][Next]_vars

(* Threads and clients go on, 900 s pass, the deadline of the gate is met. *)
(* A child need never end by itself, no daemon need start or stop.         *)
FairSpec ==
    /\ Spec
    /\ \A r \in Requests : WF_vars(Client(r)) /\ WF_vars(Thread(r))
    /\ WF_vars(CheckReady)

-----------------------------------------------------------------------------
(* The socket of a daemon that serves stays at its path, whichever other   *)
(* daemons start, are refused, stop or die at the same time: a daemon in   *)
(* service can be reached until it is told to stop.                        *)
SocketStays == \A d \in Daemons : daemon[d] = "serving" => path = d

(* One job at a time: of the children that run for a daemon in service at  *)
(* most one is not yet killed; a call that was told to come later started  *)
(* none; and a caller with a verdict has no job left, unless the daemon    *)
(* died, the 900 s were over, or the answer was too large for the client.  *)
JobsAreSerial ==
    /\ \A r, s \in Requests :
        /\ child[r] = "alive" /\ daemon[conn[r]] \in {"serving", "closed", "unlinked"}
        /\ child[s] = "alive" /\ daemon[conn[s]] \in {"serving", "closed", "unlinked"}
        => r = s
    /\ \A r \in Requests :
        /\ call[r] = "BUSY" => child[r] = "none"
        /\ call[r] \in Statuses /\ ~late[r] /\ result[r] # "LARGE" =>
            /\ \A d \in Daemons : job_lock[d] # r
            /\ handler[r] # "lost" => child[r] # "alive"

(* The call as SidecarService has it: the daemon in service is the one     *)
(* with the instance lock, the jobs of others are left.                    *)
ServiceJob(r) ==
    CASE child[r] = "none" -> "none"
      [] child[r] = "alive" ->
            IF daemon[conn[r]] \in {"serving", "closed", "unlinked"} THEN "running" ELSE "left"
      [] OTHER -> "ended"

Service == INSTANCE SidecarService WITH job <- [r \in Requests |-> ServiceJob(r)]

(* Gateway, client and daemons do what an orchestrator relies on, whenever *)
(* a daemon is stopped, dies and is followed by another: one job for each  *)
(* call, started while its caller waits and while no other of a daemon in  *)
(* service runs, and a verdict that is final.                              *)
ImplementsService == Service!Spec

(* Every call gets a verdict, the job lock is freed, and the start that    *)
(* waits for the sidecar is let go on or refused.                          *)
CallsReturn ==
    /\ \A r \in Requests : call[r] = "waiting" ~> call[r] \in Statuses
    /\ \A r \in Requests, d \in Daemons : job_lock[d] = r ~> job_lock[d] # r
    /\ gate = "polling" ~> gate \in {"ready", "failed"}
=============================================================================
