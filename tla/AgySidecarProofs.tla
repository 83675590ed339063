-------------------------- MODULE AgySidecarProofs --------------------------
(***************************************************************************)
(* Proofs about AgySidecar, for any calls, any timeouts they ask for and   *)
(* any margin.  The result of the daemon is what happened on the host from *)
(* the moment it is set, and a verdict leaves no thread at work because    *)
(* the client waits longer than the daemon does.                           *)
(***************************************************************************)
EXTENDS AgySidecar, TLAPS

\* A request that no thread works for has left no trace.
Untouched ==
    \A r \in Requests :
        /\ call[r] = "unsent" => handler[r] = "none"
        /\ handler[r] \in {"none", "reading"} => child[r] = "none" /\ ran[r] = 0
        /\ handler[r] \in {"none", "reading", "waiting", "lost"} => result[r] = None

\* When a thread has its answer its child is not left to itself.
Stopped == \A r \in Requests : handler[r] = "sending" => child[r] # "alive"

\* The wait of a thread is over in time.
Punctual == \A r \in Requests : handler[r] = "waiting" => ran[r] <= Timeout(asked[r])

\* The result of the daemon is what happened.
ResultIsEarned ==
    \A r \in Requests :
        /\ result[r] = "SUCCESS" => code[r] = "SUCCESS" /\ child[r] = "dead" /\ ~over[r]
        /\ result[r] = "BUSY" => child[r] = "none"
        /\ result[r] = "EXPIRED" => ran[r] >= Timeout(asked[r])
        /\ result[r] = "SAYS_TIMEOUT" =>
              \/ code[r] = "SAYS_TIMEOUT" /\ child[r] = "dead"
              \/ child[r] = "none" /\ handler[r] \in {"sending", "closed", "lost"}

\* The shorter of the times that a job and its client have.
Least(t) == IF Timeout(t) <= Patience(t) THEN Timeout(t) ELSE Patience(t)

\* What a verdict says stays true, as nothing can happen to the call any more.
VerdictStands ==
    \A r \in Requests :
        /\ call[r] = "SUCCESS" => code[r] = "SUCCESS" /\ child[r] = "dead" /\ ~over[r]
        /\ call[r] = "BUSY" => child[r] = "none" /\ handler[r] \in {"closed", "lost"}
        /\ call[r] = "TIME_BUDGET_EXCEEDED" =>
              \/ ran[r] >= Least(asked[r])
              \/ code[r] = "SAYS_TIMEOUT" /\ child[r] = "dead"
              \/ /\ result[r] = "SAYS_TIMEOUT" /\ child[r] = "none"
                 /\ handler[r] \in {"closed", "lost"}
        /\ call[r] \in Statuses /\ asked[r] \in MinTimeout..MaxTimeout
              => handler[r] \in {"none", "closed", "lost"}

AgyInv == TypeOK /\ OneJobAtATime /\ Untouched /\ Stopped /\ Punctual /\ ResultIsEarned /\ VerdictStands

-----------------------------------------------------------------------------
LEMMA TimeoutType ==
    ASSUME NEW t \in Asked \cup {0}
    PROVE  /\ t \in Nat /\ Timeout(t) \in Nat /\ Patience(t) \in Nat
           /\ Least(t) \in Nat /\ Least(t) <= Timeout(t) /\ Least(t) <= Patience(t)
           /\ t \in MinTimeout..MaxTimeout => Timeout(t) < Patience(t)
<1>1. t \in Nat /\ Margin \in Nat \ {0} /\ DefaultTimeout \in Nat
  BY AgyAssumption
<1>2. Timeout(t) \in Nat /\ Patience(t) \in Nat
  BY <1>1 DEF Timeout, Patience
<1>3. t \in MinTimeout..MaxTimeout => Timeout(t) < Patience(t)
  BY <1>1 DEF Timeout, Patience
<1> QED BY <1>1, <1>2, <1>3 DEF Least

LEMMA AgyInit == Init => AgyInv
<1> SUFFICES ASSUME Init PROVE AgyInv
  OBVIOUS
<1> USE AgyAssumption DEF Init
<1>1. TypeOK
  BY DEF TypeOK, Statuses, HandlerStates, Results, Codes
<1>2. OneJobAtATime /\ Untouched /\ Stopped /\ Punctual
  BY DEF OneJobAtATime, Untouched, Stopped, Punctual, Working
<1>3. ResultIsEarned /\ VerdictStands
  BY DEF ResultIsEarned, VerdictStands, Statuses, Results, Codes
<1> QED BY <1>1, <1>2, <1>3 DEF AgyInv

LEMMA AgyNext == AgyInv /\ [Next]_vars => AgyInv'
<1> SUFFICES ASSUME AgyInv, [Next]_vars PROVE AgyInv'
  OBVIOUS
<1> USE AgyAssumption, TimeoutType
    DEF AgyInv, TypeOK, OneJobAtATime, Untouched, Stopped, Punctual, ResultIsEarned, VerdictStands,
        Statuses, HandlerStates, Working, Results, Codes, Job
<1>1. ASSUME NEW r \in Requests, NEW t \in Asked, Send(r, t) PROVE AgyInv'
  <2>1. TypeOK' /\ OneJobAtATime' /\ Untouched' /\ Stopped' /\ Punctual'
    BY <1>1 DEF Send
  <2>2. ResultIsEarned'
    BY <1>1 DEF Send
  <2>3. VerdictStands'
    BY <1>1 DEF Send
  <2> QED BY <2>1, <2>2, <2>3
<1>2. ASSUME NEW r \in Requests, SendFails(r) PROVE AgyInv'
  BY <1>2 DEF SendFails
<1>3. ASSUME NEW r \in Requests, Receive(r) PROVE AgyInv'
  BY <1>3 DEF Receive, GatewayStatus
<1>4. ASSUME NEW r \in Requests, SocketTimeout(r) PROVE AgyInv'
  <2>1. asked[r] \in Asked \cup {0} /\ ran[r] \in Nat /\ ran[r] = Patience(asked[r])
    BY <1>4 DEF SocketTimeout
  <2>2. asked[r] \notin MinTimeout..MaxTimeout
    <3>1. ran[r] <= Timeout(asked[r])
      BY <1>4 DEF SocketTimeout
    <3> QED BY <2>1, <3>1
  <2>3. ran[r] >= Least(asked[r])
    BY <2>1
  <2> QED BY <1>4, <2>2, <2>3 DEF SocketTimeout
<1>5. ASSUME NEW r \in Requests, Refuse(r) PROVE AgyInv'
  BY <1>5 DEF Refuse
<1>6. ASSUME NEW r \in Requests, Busy(r) PROVE AgyInv'
  BY <1>6 DEF Busy
<1>7. ASSUME NEW r \in Requests, StartJob(r) PROVE AgyInv'
  <2>1. 0 <= Timeout(asked[r])
    <3>1. Timeout(asked[r]) \in Nat
      OBVIOUS
    <3> QED BY <3>1
  <2>2. TypeOK' /\ OneJobAtATime' /\ Untouched' /\ Stopped'
    BY <1>7 DEF StartJob
  <2>3. Punctual'
    BY <1>7, <2>1 DEF StartJob
  <2>4. ResultIsEarned' /\ VerdictStands'
    BY <1>7 DEF StartJob
  <2> QED BY <2>2, <2>3, <2>4
<1>8. ASSUME NEW r \in Requests, StartJobFails(r) PROVE AgyInv'
  BY <1>8 DEF StartJobFails
<1>9. ASSUME NEW r \in Requests, WaitExpires(r) PROVE AgyInv'
  BY <1>9 DEF WaitExpires
<1>10. ASSUME NEW r \in Requests, WaitReturns(r) PROVE AgyInv'
  BY <1>10 DEF WaitReturns, Outcome
<1>11. ASSUME NEW r \in Requests, Reply(r) PROVE AgyInv'
  BY <1>11 DEF Reply
<1>12. ASSUME NEW r \in Requests, ExceedCap(r) PROVE AgyInv'
  BY <1>12 DEF ExceedCap
<1>13. ASSUME NEW r \in Requests, WriteTooMuch(r) PROVE AgyInv'
  BY <1>13 DEF WriteTooMuch
<1>14. ASSUME NEW r \in Requests, Exit(r) PROVE AgyInv'
  BY <1>14 DEF Exit
<1>15. ASSUME NEW r \in Requests, Die(r) PROVE AgyInv'
  BY <1>15 DEF Die
<1>16. ASSUME DaemonRestarts PROVE AgyInv'
  <2>1. TypeOK'
    BY <1>16 DEF DaemonRestarts
  <2>2. OneJobAtATime' /\ Untouched' /\ Stopped' /\ Punctual'
    BY <1>16 DEF DaemonRestarts
  <2>3. ResultIsEarned'
    BY <1>16 DEF DaemonRestarts
  <2>4. VerdictStands'
    BY <1>16 DEF DaemonRestarts
  <2> QED BY <2>1, <2>2, <2>3, <2>4
<1>17. ASSUME Tick PROVE AgyInv'
  <2>1. TypeOK' /\ OneJobAtATime' /\ Untouched' /\ Stopped'
    BY <1>17 DEF Tick
  <2>2. \A r \in Requests : ran[r] \in Nat /\ ran'[r] \in Nat /\ ran'[r] >= ran[r]
    BY <1>17 DEF Tick
  <2>3. Punctual'
    <3> SUFFICES ASSUME NEW r \in Requests, handler[r] = "waiting"
                 PROVE  ran'[r] <= Timeout(asked[r])
      BY <1>17 DEF Tick
    <3>1. ran[r] # Timeout(asked[r]) /\ ran'[r] = ran[r] + 1
      BY <1>17 DEF Tick, Urgent
    <3>2. ran[r] <= Timeout(asked[r])
      OBVIOUS
    <3>3. Timeout(asked[r]) \in Nat /\ ran[r] \in Nat
      OBVIOUS
    <3> QED BY <3>1, <3>2, <3>3
  <2>4. \A r \in Requests : Timeout(asked[r]) \in Nat /\ Least(asked[r]) \in Nat
    OBVIOUS
  <2>5. ResultIsEarned'
    BY <1>17, <2>2, <2>4 DEF Tick
  <2>6. VerdictStands'
    BY <1>17, <2>2, <2>4 DEF Tick
  <2> QED BY <2>1, <2>3, <2>5, <2>6
<1>18. ASSUME UNCHANGED vars PROVE AgyInv'
  BY <1>18 DEF vars
<1> QED BY <1>1, <1>2, <1>3, <1>4, <1>5, <1>6, <1>7, <1>8, <1>9, <1>10, <1>11, <1>12, <1>13,
           <1>14, <1>15, <1>16, <1>17, <1>18 DEF Next, Client, Thread

LEMMA AgyInvHolds == Spec => []AgyInv
  BY AgyInit, AgyNext, PTL DEF Spec

-----------------------------------------------------------------------------
\* The variables of gateway, client, daemon and child keep their types.
THEOREM AgyTypes == Spec => []TypeOK
<1>1. AgyInv => TypeOK
  BY DEF AgyInv
<1> QED BY <1>1, AgyInvHolds, PTL

\* The job lock of HostAgyDaemon is held exactly while a thread works, and no
\* living child is left that is not its holder's, but for one whose daemon died.
THEOREM JobsExclude == Spec => []OneJobAtATime
<1>1. AgyInv => OneJobAtATime
  BY DEF AgyInv
<1> QED BY <1>1, AgyInvHolds, PTL

\* The status of the gateway is what happened to the process on the host.
THEOREM VerdictsAreEarned == Spec => []VerdictIsEarned
<1>1. AgyInv => VerdictIsEarned
  BY DEF AgyInv, VerdictStands, VerdictIsEarned, Least
<1> QED BY <1>1, AgyInvHolds, PTL

\* A verdict on a call with a timeout the daemon accepts leaves no job behind:
\* the client's 30 s are for that.
THEOREM VerdictsEndJobs == Spec => []VerdictEndsTheJob
<1>1. AgyInv => VerdictEndsTheJob
  BY DEF AgyInv, VerdictStands, VerdictEndsTheJob, OneJobAtATime, Working
<1> QED BY <1>1, AgyInvHolds, PTL
-----------------------------------------------------------------------------
(* What an orchestrator relies on                                          *)

\* A connection that is being read has a caller who waits, a wait has a child.
Awaited ==
    \A r \in Requests :
        /\ handler[r] = "reading" => call[r] = "waiting"
        /\ handler[r] = "waiting" => child[r] # "none"

LEMMA AwaitedNext == AgyInv /\ Awaited /\ [Next]_vars => Awaited'
<1> SUFFICES ASSUME AgyInv, Awaited, [Next]_vars PROVE Awaited'
  OBVIOUS
<1> USE DEF AgyInv, TypeOK, Awaited, Job
<1>1. ASSUME NEW r \in Requests, NEW t \in Asked, Send(r, t) PROVE Awaited'
  BY <1>1 DEF Send
<1>2. ASSUME NEW r \in Requests, SendFails(r) \/ Client(r) PROVE Awaited'
  BY <1>2 DEF SendFails, Client, Receive, SocketTimeout, Untouched
<1>3. ASSUME NEW r \in Requests, Thread(r) PROVE Awaited'
  BY <1>3 DEF Thread, Refuse, Busy, StartJob, StartJobFails, WaitReturns, WaitExpires, Reply
<1>4. ASSUME NEW r \in Requests, ExceedCap(r) \/ WriteTooMuch(r) \/ Exit(r) \/ Die(r) PROVE Awaited'
  BY <1>4 DEF ExceedCap, WriteTooMuch, Exit, Die
<1>5. ASSUME DaemonRestarts \/ Tick \/ UNCHANGED vars PROVE Awaited'
  BY <1>5 DEF DaemonRestarts, Tick, vars
<1> QED BY <1>1, <1>2, <1>3, <1>4, <1>5 DEF Next

\* How a step is seen by the orchestrator: no job changes, or the one of a call.
LEMMA SameJobs ==
  ASSUME \A s \in Requests : ServiceJob(s)' = ServiceJob(s)
  PROVE  [s \in Requests |-> ServiceJob(s)]' = [s \in Requests |-> ServiceJob(s)]
OBVIOUS

LEMMA OneJobChanges ==
  ASSUME NEW r \in Requests, \A s \in Requests \ {r} : ServiceJob(s)' = ServiceJob(s)
  PROVE  [s \in Requests |-> ServiceJob(s)]' =
           [[s \in Requests |-> ServiceJob(s)] EXCEPT ![r] = ServiceJob(r)']
OBVIOUS

LEMMA ServiceInit == Init => Service!Init
BY DEF Init, Service!Init, ServiceJob

LEMMA ServiceNext ==
  ASSUME AgyInv, Awaited, [Next]_vars
  PROVE  [Service!Next]_(Service!vars)
<1> USE AgyAssumption DEF AgyInv, TypeOK, Job
<1>1. ASSUME NEW r \in Requests, NEW t \in Asked, Send(r, t) PROVE Service!Ask(r)
  <2>1. \A s \in Requests : ServiceJob(s)' = ServiceJob(s)
    BY <1>1 DEF Send, ServiceJob, Untouched
  <2> QED BY <1>1, <2>1, SameJobs DEF Send, Service!Ask
<1>2. ASSUME NEW r \in Requests, SendFails(r) PROVE Service!Fail(r)
  <2>1. \A s \in Requests : ServiceJob(s)' = ServiceJob(s)
    BY <1>2 DEF SendFails, ServiceJob
  <2> QED BY <1>2, <2>1, SameJobs DEF SendFails, Service!Fail
<1>3. ASSUME NEW r \in Requests, Client(r)
      PROVE  \E verdict \in Service!Statuses : Service!Return(r, verdict)
  <2>1. call[r] = "waiting" /\ UNCHANGED <<child, handler>>
    BY <1>3 DEF Client, Receive, SocketTimeout
  <2>2. UNCHANGED [s \in Requests |-> ServiceJob(s)]
    BY <2>1, SameJobs DEF ServiceJob
  <2>3. PICK verdict \in Service!Statuses :
            /\ call' = [call EXCEPT ![r] = verdict]
            /\ verdict = "SUCCESS" => result[r] = "SUCCESS"
            /\ verdict = "BUSY" => result[r] = "BUSY"
    BY <1>3 DEF Client, Receive, SocketTimeout, GatewayStatus, Service!Statuses
  <2>4. /\ verdict = "SUCCESS" => ServiceJob(r) = "ended"
        /\ verdict = "BUSY" => ServiceJob(r) = "none"
    BY <2>3 DEF ResultIsEarned, ServiceJob
  <2> QED BY <2>1, <2>2, <2>3, <2>4 DEF Service!Return
<1>4. ASSUME NEW r \in Requests, Refuse(r) \/ Busy(r) \/ StartJobFails(r) \/ WaitReturns(r) \/ Reply(r)
      PROVE  UNCHANGED Service!vars
  <2>1. \A s \in Requests : ServiceJob(s)' = ServiceJob(s)
    BY <1>4 DEF Refuse, Busy, StartJobFails, WaitReturns, Reply, ServiceJob
  <2> QED BY <1>4, <2>1, SameJobs DEF Refuse, Busy, StartJobFails, WaitReturns, Reply, Service!vars
<1>5. ASSUME NEW r \in Requests, StartJob(r) PROVE Service!Start(r)
  <2>1. call[r] = "waiting" /\ UNCHANGED call
    BY <1>5 DEF StartJob, Awaited
  <2>2. ServiceJob(r) = "none" /\ ServiceJob(r)' = "running"
    BY <1>5 DEF StartJob, ServiceJob, Untouched
  <2>3. \A s \in Requests : ServiceJob(s) # "running"
    BY <1>5 DEF StartJob, ServiceJob, OneJobAtATime
  <2>4. \A s \in Requests \ {r} : ServiceJob(s)' = ServiceJob(s)
    BY <1>5 DEF StartJob, ServiceJob
  <2> QED BY <2>1, <2>2, <2>3, <2>4, OneJobChanges DEF Service!Start
<1>6. ASSUME NEW r \in Requests, WaitExpires(r) \/ ExceedCap(r) \/ Exit(r) \/ Die(r)
      PROVE  Service!End(r) \/ UNCHANGED Service!vars
  <2>1. UNCHANGED call /\ \A s \in Requests \ {r} : ServiceJob(s)' = ServiceJob(s)
    BY <1>6 DEF WaitExpires, ExceedCap, Exit, Die, ServiceJob
  <2>2. ServiceJob(r)' = ServiceJob(r) \/ (ServiceJob(r) \in {"running", "left"} /\ ServiceJob(r)' = "ended")
    BY <1>6 DEF WaitExpires, ExceedCap, Exit, Die, ServiceJob, OneJobAtATime, Working, Awaited
  <2>3. CASE ServiceJob(r)' = ServiceJob(r)
    BY <2>1, <2>3, SameJobs DEF Service!vars
  <2>4. CASE ServiceJob(r) \in {"running", "left"} /\ ServiceJob(r)' = "ended"
    BY <2>1, <2>4, OneJobChanges DEF Service!End
  <2> QED BY <2>2, <2>3, <2>4
<1>7. ASSUME NEW r \in Requests, WriteTooMuch(r) PROVE UNCHANGED Service!vars
  <2>1. \A s \in Requests : ServiceJob(s)' = ServiceJob(s)
    BY <1>7 DEF WriteTooMuch, ServiceJob
  <2> QED BY <1>7, <2>1, SameJobs DEF WriteTooMuch, Service!vars
<1>8. ASSUME DaemonRestarts PROVE Service!Leave
  <2>1. \A s \in Requests :
            ServiceJob(s)' = IF ServiceJob(s) = "running" THEN "left" ELSE ServiceJob(s)
    BY <1>8 DEF DaemonRestarts, ServiceJob, OneJobAtATime
  <2> QED BY <1>8, <2>1 DEF DaemonRestarts, Service!Leave
<1>9. ASSUME Tick \/ UNCHANGED vars PROVE UNCHANGED Service!vars
  <2>1. \A s \in Requests : ServiceJob(s)' = ServiceJob(s)
    BY <1>9 DEF Tick, vars, ServiceJob
  <2> QED BY <1>9, <2>1, SameJobs DEF Tick, vars, Service!vars
<1> QED BY <1>1, <1>2, <1>3, <1>4, <1>5, <1>6, <1>7, <1>8, <1>9 DEF Next, Thread, Service!Next

\* Gateway, client and daemon of AGY implement what an orchestrator relies on:
\* at most one job for a call, started while its caller waits and no other runs,
\* and a verdict that is final, for any timeouts and any margin of the client.
THEOREM AgyImplementsService == Spec => ImplementsService
<1>1. Init => Awaited
  BY DEF Init, Awaited
<1>2. AgyInv /\ Awaited /\ [Next]_vars => [Service!Next]_(Service!vars)
  BY ServiceNext
<1> QED BY <1>1, <1>2, AgyInvHolds, AwaitedNext, ServiceInit, PTL DEF Spec, ImplementsService, Service!Spec
=============================================================================
