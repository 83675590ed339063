----------------------------- MODULE AgySidecar -----------------------------
(***************************************************************************)
(* One call of the agent agy, from AgentGateway.execute_agent_call through *)
(* HostAgyClient and the socket to HostAgyDaemon and its child process     *)
(* (server/infrastructure: agent_gateway.py, host_agy_client.py,           *)
(* host_agy_socket_daemon.py).  The daemon has a thread per connection,    *)
(* one job lock, and two threads per child that read its output.           *)
(*                                                                         *)
(* Time is counted in ticks.  A tick passes only when no thread of the     *)
(* daemon has a step to take: between the expiry of a job and its answer   *)
(* the daemon spends at most two joins of a second, the client adds 30 s   *)
(* (Margin) to the timeout of the job.                                     *)
(***************************************************************************)
EXTENDS Naturals

CONSTANTS
    Requests,    \* the calls of the gateway; a retry is a call like another
    Asked,       \* timeouts a caller may ask for
    MinTimeout, MaxTimeout, DefaultTimeout, \* 5, 1800 and 900 seconds
    Margin,      \* the 30 s the client waits longer than the job may take
    None         \* no result, no holder of the lock

\* "SAYS_TIMEOUT": a failure whose error text has the word timeout: the stderr of
\* the process, or the path of a worktree that was refused or could not be used.
Codes == {"SUCCESS", "FAILED", "SAYS_TIMEOUT"}
Results == Codes \cup {"BUSY", "REFUSED", "EXPIRED", "CAPPED"}

ASSUME AgyAssumption ==
    /\ Asked \subseteq Nat
    /\ MinTimeout \in Nat /\ MaxTimeout \in Nat /\ Margin \in Nat \ {0}
    /\ DefaultTimeout \in MinTimeout..MaxTimeout
    /\ None \notin Requests \cup Results

VARIABLES
    call,         \* the gateway's status of each call, once it has one
    asked,        \* the timeout each call asked for
    handler,      \* where the daemon's thread for each connection is
    job_lock,     \* the request whose thread has the daemon's job lock
    ran,          \* ticks since the job was started (and the request sent)
    child,        \* the agy process of each request
    code,         \* how it ended by itself
    over,         \* it wrote more than MAX_OUTPUT_BYTES
    cap_exceeded, \* a reader thread saw that
    result        \* the answer of the daemon

vars == <<call, asked, handler, job_lock, ran, child, code, over,
          cap_exceeded, result>>

Statuses == {"SUCCESS", "BUSY", "TIME_BUDGET_EXCEEDED", "ERROR"}
Working == {"waiting", "sending"}
HandlerStates == Working \cup {"none", "reading", "closed", "lost"}

TypeOK ==
    /\ call \in [Requests -> Statuses \cup {"unsent", "waiting"}]
    /\ asked \in [Requests -> Asked \cup {0}]
    /\ handler \in [Requests -> HandlerStates]
    /\ job_lock \in Requests \cup {None}
    /\ ran \in [Requests -> Nat]
    /\ child \in [Requests -> {"none", "alive", "killed", "dead"}]
    /\ code \in [Requests -> Codes \cup {None}]
    /\ over \in [Requests -> BOOLEAN]
    /\ cap_exceeded \in [Requests -> BOOLEAN]
    /\ result \in [Requests -> Results \cup {None}]

Init ==
    /\ call = [r \in Requests |-> "unsent"]
    /\ asked = [r \in Requests |-> 0]
    /\ handler = [r \in Requests |-> "none"]
    /\ job_lock = None
    /\ ran = [r \in Requests |-> 0]
    /\ child = [r \in Requests |-> "none"]
    /\ code = [r \in Requests |-> None]
    /\ over = [r \in Requests |-> FALSE]
    /\ cap_exceeded = [r \in Requests |-> FALSE]
    /\ result = [r \in Requests |-> None]

Job == <<child, code, over, cap_exceeded>>

\* The timeout the daemon uses for a request that asked for t.
Timeout(t) == IF t \in MinTimeout..MaxTimeout THEN t ELSE DefaultTimeout

\* Mutant of Patience: the client waits just as long as the job may take.
PatienceOfJob(t) == t

\* How long the client's socket waits for an answer to it.
Patience(t) == t + Margin

\* What send_request_envelope makes of an answer, and the gateway of that: the
\* word timeout in an error is taken for one, wherever it comes from.
GatewayStatus(a) ==
    CASE a = "SUCCESS" -> "SUCCESS"
      [] a = "BUSY" -> "BUSY"
      [] a \in {"EXPIRED", "SAYS_TIMEOUT"} -> "TIME_BUDGET_EXCEEDED"
      [] OTHER -> "ERROR"

\* Mutant of Outcome: the exit code decides alone.
OutcomeByCode(r) == code[r]

\* The answer for a child whose wait returned, after its readers ended.
Outcome(r) == IF cap_exceeded[r] THEN "CAPPED" ELSE code[r]

-----------------------------------------------------------------------------
(* The caller, its gateway and its client.                                 *)

Send(r, t) ==
    /\ call[r] = "unsent"
    /\ call' = [call EXCEPT ![r] = "waiting"]
    /\ asked' = [asked EXCEPT ![r] = t]
    /\ handler' = [handler EXCEPT ![r] = "reading"]
    /\ UNCHANGED <<job_lock, ran, Job, result>>

\* No socket, a refused connection, a token that does not load.
SendFails(r) ==
    /\ call[r] = "unsent"
    /\ call' = [call EXCEPT ![r] = "ERROR"]
    /\ UNCHANGED <<asked, handler, job_lock, ran, Job, result>>

\* Mutant of Receive: the client waits for an answer although the peer closed.
ReceiveAnswer(r) ==
    /\ call[r] = "waiting"
    /\ handler[r] \in {"closed", "lost"} /\ result[r] # None
    /\ call' = [call EXCEPT ![r] = GatewayStatus(result[r])]
    /\ UNCHANGED <<asked, handler, job_lock, ran, Job, result>>

\* The client reads until the daemon has closed the connection.
Receive(r) ==
    /\ call[r] = "waiting"
    /\ handler[r] \in {"closed", "lost"}
    /\ call' = [call EXCEPT ![r] = IF result[r] = None THEN "ERROR" ELSE GatewayStatus(result[r])]
    /\ UNCHANGED <<asked, handler, job_lock, ran, Job, result>>

SocketTimeout(r) ==
    /\ call[r] = "waiting"
    /\ handler[r] = "waiting"
    /\ ran[r] = Patience(asked[r])
    /\ call' = [call EXCEPT ![r] = "TIME_BUDGET_EXCEEDED"]
    /\ UNCHANGED <<asked, handler, job_lock, ran, Job, result>>

-----------------------------------------------------------------------------
(* The daemon's thread for one connection.                                 *)

\* A peer, a request or a token that is not accepted; the client has ended it
\* or reads the answer.
Refuse(r) ==
    /\ handler[r] = "reading"
    /\ handler' = [handler EXCEPT ![r] = "closed"]
    /\ \E a \in {"REFUSED", "SAYS_TIMEOUT"} : result' = [result EXCEPT ![r] = a]
    /\ UNCHANGED <<call, asked, job_lock, ran, Job>>

Busy(r) ==
    /\ handler[r] = "reading"
    /\ job_lock # None
    /\ handler' = [handler EXCEPT ![r] = "closed"]
    /\ result' = [result EXCEPT ![r] = "BUSY"]
    /\ UNCHANGED <<call, asked, job_lock, ran, Job>>

\* Mutant of StartJob: a thread goes on without the lock.
StartJobAnyway(r) ==
    /\ handler[r] = "reading"
    /\ job_lock' = r
    /\ handler' = [handler EXCEPT ![r] = "waiting"]
    /\ child' = [child EXCEPT ![r] = "alive"]
    /\ UNCHANGED <<call, asked, ran, code, over, cap_exceeded, result>>

StartJob(r) ==
    /\ handler[r] = "reading"
    /\ job_lock = None
    /\ job_lock' = r
    /\ handler' = [handler EXCEPT ![r] = "waiting"]
    /\ child' = [child EXCEPT ![r] = "alive"]
    /\ UNCHANGED <<call, asked, ran, code, over, cap_exceeded, result>>

\* Popen raises.
StartJobFails(r) ==
    /\ handler[r] = "reading"
    /\ job_lock = None
    /\ job_lock' = r
    /\ handler' = [handler EXCEPT ![r] = "sending"]
    /\ \E a \in {"FAILED", "SAYS_TIMEOUT"} : result' = [result EXCEPT ![r] = a]
    /\ UNCHANGED <<call, asked, ran, Job>>

\* The child is killed and not waited for.
WaitExpires(r) ==
    /\ handler[r] = "waiting"
    /\ child[r] # "dead"
    /\ ran[r] = Timeout(asked[r])
    /\ child' = [child EXCEPT ![r] = "killed"]
    /\ handler' = [handler EXCEPT ![r] = "sending"]
    /\ result' = [result EXCEPT ![r] = "EXPIRED"]
    /\ UNCHANGED <<call, asked, job_lock, ran, code, over, cap_exceeded>>

\* The wait returns and the readers are joined: they reach the end of what a
\* dead child wrote well within the 2 s they are given.
WaitReturns(r) ==
    /\ handler[r] = "waiting"
    /\ child[r] = "dead"
    /\ over[r] => cap_exceeded[r]
    /\ handler' = [handler EXCEPT ![r] = "sending"]
    /\ result' = [result EXCEPT ![r] = Outcome(r)]
    /\ UNCHANGED <<call, asked, job_lock, ran, Job>>

\* Mutant of Reply: the lock is not released when sendall raises.
ReplyHolding(r) ==
    /\ handler[r] = "sending"
    /\ job_lock' = IF call[r] = "waiting" THEN None ELSE job_lock
    /\ handler' = [handler EXCEPT ![r] = "closed"]
    /\ UNCHANGED <<call, asked, ran, Job, result>>

\* sendall returns, or raises because the client is gone; then the lock is
\* released and after it the connection closed, which is what the client sees.
Reply(r) ==
    /\ handler[r] = "sending"
    /\ job_lock' = None
    /\ handler' = [handler EXCEPT ![r] = "closed"]
    /\ UNCHANGED <<call, asked, ran, Job, result>>

\* A reader thread meets the cap and kills the child.
ExceedCap(r) ==
    /\ over[r] /\ ~cap_exceeded[r]
    /\ handler[r] \in Working
    /\ cap_exceeded' = [cap_exceeded EXCEPT ![r] = TRUE]
    /\ child' = [child EXCEPT ![r] = IF @ = "alive" THEN "killed" ELSE @]
    /\ UNCHANGED <<call, asked, handler, job_lock, ran, code, over, result>>

-----------------------------------------------------------------------------
(* The child, the daemon as a process, time.  What a child does after its  *)
(* daemon died concerns nobody here.                                       *)

WriteTooMuch(r) ==
    /\ child[r] = "alive"
    /\ handler[r] = "waiting"
    /\ ~over[r]
    /\ over' = [over EXCEPT ![r] = TRUE]
    /\ UNCHANGED <<call, asked, handler, job_lock, ran, child, code, cap_exceeded, result>>

Exit(r) ==
    /\ child[r] = "alive"
    /\ handler[r] = "waiting"
    /\ child' = [child EXCEPT ![r] = "dead"]
    /\ \E c \in Codes : code' = [code EXCEPT ![r] = c]
    /\ UNCHANGED <<call, asked, handler, job_lock, ran, over, cap_exceeded, result>>

Die(r) ==
    /\ child[r] = "killed"
    /\ child' = [child EXCEPT ![r] = "dead"]
    /\ code' = [code EXCEPT ![r] = "FAILED"]
    /\ UNCHANGED <<call, asked, handler, job_lock, ran, over, cap_exceeded, result>>

\* The daemon dies with its threads and is started again; a child may outlive
\* it.  A call made in between fails (SendFails).
DaemonRestarts ==
    /\ \E r \in Requests : handler[r] \in Working \cup {"reading"}
    /\ job_lock' = None
    /\ handler' = [r \in Requests |-> IF handler[r] \in Working \cup {"reading"} THEN "lost" ELSE handler[r]]
    /\ result' = [r \in Requests |-> IF handler[r] \in Working THEN None ELSE result[r]]
    /\ UNCHANGED <<call, asked, ran, Job>>

\* A thread of the daemon has something to do at once.
Urgent ==
    \E r \in Requests :
        \/ handler[r] \in {"reading", "sending"}
        \/ handler[r] = "waiting" /\ (child[r] = "dead" \/ ran[r] = Timeout(asked[r]))

Tick ==
    /\ ~Urgent
    /\ \E r \in Requests : handler[r] = "waiting"
    /\ \A r \in Requests :
        call[r] = "waiting" /\ handler[r] = "waiting" => ran[r] < Patience(asked[r])
    /\ ran' = [r \in Requests |-> IF handler[r] = "waiting" THEN ran[r] + 1 ELSE ran[r]]
    /\ UNCHANGED <<call, asked, handler, job_lock, Job, result>>

Thread(r) ==
    \/ Refuse(r) \/ Busy(r) \/ StartJob(r) \/ StartJobFails(r)
    \/ WaitReturns(r) \/ WaitExpires(r) \/ Reply(r)

Client(r) == Receive(r) \/ SocketTimeout(r)

Next ==
    \/ \E r \in Requests :
        \/ \E t \in Asked : Send(r, t)
        \/ SendFails(r) \/ Client(r) \/ Thread(r) \/ ExceedCap(r)
        \/ WriteTooMuch(r) \/ Exit(r) \/ Die(r)
    \/ DaemonRestarts \/ Tick

Spec == Init /\ [][Next]_vars

(* Threads and clients are scheduled and time passes.  A child need never  *)
(* end by itself, nor the daemon come back.                                *)
FairSpec ==
    /\ Spec
    /\ \A r \in Requests : WF_vars(Client(r)) /\ WF_vars(Thread(r)) /\ WF_vars(ExceedCap(r))
    /\ WF_vars(Tick)

-----------------------------------------------------------------------------
(* One job at a time: the lock is held exactly while a thread works for    *)
(* its request, and a child that nobody has killed is the one of the       *)
(* holder, or one left behind by a daemon that died.                       *)
OneJobAtATime ==
    /\ \A r \in Requests : job_lock = r <=> handler[r] \in Working
    /\ \A r \in Requests : child[r] = "alive" => job_lock = r \/ handler[r] = "lost"

(* What the gateway reports is what happened on the host: success is a     *)
(* child that ended with code 0 within the cap; busy, that nothing was     *)
(* started; an exceeded time budget, that the time was used up, the child  *)
(* said so, or none was started and the refusal has the word in its text.  *)
VerdictIsEarned ==
    \A r \in Requests :
        /\ call[r] = "SUCCESS" => code[r] = "SUCCESS" /\ child[r] = "dead" /\ ~over[r]
        /\ call[r] = "BUSY" => child[r] = "none"
        /\ call[r] = "TIME_BUDGET_EXCEEDED" =>
            \/ ran[r] >= IF Timeout(asked[r]) <= Patience(asked[r]) THEN Timeout(asked[r]) ELSE Patience(asked[r])
            \/ code[r] = "SAYS_TIMEOUT"
            \/ result[r] = "SAYS_TIMEOUT" /\ child[r] = "none"

(* A caller that asked for a timeout the daemon accepts and was given a    *)
(* verdict has no job left on the daemon, unless it was killed: a second   *)
(* call is never refused as busy because of its own first one.             *)
VerdictEndsTheJob ==
    \A r \in Requests :
        call[r] \in Statuses /\ asked[r] \in MinTimeout..MaxTimeout =>
            /\ job_lock # r
            /\ handler[r] # "lost" => child[r] # "alive"

(* The call as SidecarService has it: a process that the daemon lost is    *)
(* left, one that was killed has ended.                                    *)
ServiceJob(r) ==
    CASE child[r] = "none" -> "none"
      [] child[r] = "alive" -> IF handler[r] = "lost" THEN "left" ELSE "running"
      [] OTHER -> "ended"

Service == INSTANCE SidecarService WITH job <- [r \in Requests |-> ServiceJob(r)]

(* Gateway, client and daemon do what an orchestrator relies on, whenever  *)
(* jobs expire, readers kill, clients give up and the daemon restarts: one *)
(* job for each call, started while its caller waits and while no other    *)
(* runs, and a verdict that is final.                                      *)
ImplementsService == Service!Spec

(* Every call gets a verdict and the job lock does not stay with a request,*)
(* whatever children, clients and the daemon do.                           *)
CallsReturn ==
    /\ \A r \in Requests : call[r] = "waiting" ~> call[r] \in Statuses
    /\ \A r \in Requests : job_lock = r ~> job_lock # r
=============================================================================
