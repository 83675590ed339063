----------------------------- MODULE SessionLock -----------------------------
(***************************************************************************)
(* SessionFileLock (server/brainstorm_manager.py): the lock of one session *)
(* across the threads of several processes.  In a process the threads      *)
(* share an RLock, a descriptor of the lock file and a depth; between      *)
(* processes the kernel's flock decides.  A descriptor is named by the     *)
(* thread that opened it.                                                  *)
(***************************************************************************)
EXTENDS Naturals

CONSTANTS
    Threads,    \* the threads that use the session
    ProcessOf,  \* the process each thread belongs to
    None,       \* no thread
    MaxNest     \* bound on the with-blocks a thread is inside at once

ASSUME SessionLockAssumption ==
    /\ None \notin Threads
    /\ DOMAIN ProcessOf = Threads
    /\ MaxNest \in Nat

Processes == {ProcessOf[t] : t \in Threads}

VARIABLES
    owner, count,   \* the RLock of each process
    depth, fd,      \* _shared_state of each process: the depth, the descriptor
    files,          \* the open descriptors of the lock file
    flock,          \* the descriptor that has the kernel's exclusive lock
    at,             \* where each thread is
    nest            \* the with-blocks each thread is inside

vars == <<owner, count, depth, fd, files, flock, at, nest>>

Places == {"idle", "want", "entered", "opened", "in", "release", "failed"}

TypeOK ==
    /\ owner \in [Processes -> Threads \cup {None}]
    /\ count \in [Processes -> Nat]
    /\ depth \in [Processes -> Nat]
    /\ fd \in [Processes -> Threads \cup {None}]
    /\ files \subseteq Threads
    /\ flock \in Threads \cup {None}
    /\ at \in [Threads -> Places]
    /\ nest \in [Threads -> Nat]

Init ==
    /\ owner = [p \in Processes |-> None]
    /\ count = [p \in Processes |-> 0]
    /\ depth = [p \in Processes |-> 0]
    /\ fd = [p \in Processes |-> None]
    /\ files = {}
    /\ flock = None
    /\ at = [t \in Threads |-> "idle"]
    /\ nest = [t \in Threads |-> 0]

Goes(t, place) == at' = [at EXCEPT ![t] = place]

\* RLock.release by its owner.
ReleaseRLock(p) ==
    /\ count' = [count EXCEPT ![p] = @ - 1]
    /\ owner' = [owner EXCEPT ![p] = IF count[p] = 1 THEN None ELSE @]

\* A with statement is reached, possibly inside another one.
Want(t) ==
    /\ \/ at[t] = "idle"
       \/ at[t] = "in" /\ nest[t] < MaxNest
    /\ Goes(t, "want")
    /\ UNCHANGED <<owner, count, depth, fd, files, flock, nest>>

\* rlock.acquire(): at once for the owner, else when nobody has it.
AcquireRLock(t) ==
    LET p == ProcessOf[t]
    IN  /\ at[t] = "want"
        /\ owner[p] \in {None, t}
        /\ owner' = [owner EXCEPT ![p] = t]
        /\ count' = [count EXCEPT ![p] = @ + 1]
        /\ Goes(t, "entered")
        /\ UNCHANGED <<depth, fd, files, flock, nest>>

\* The thread is inside already: only the depth counts it.
Reenter(t) ==
    /\ at[t] = "entered"
    /\ depth[ProcessOf[t]] > 0
    /\ depth' = [depth EXCEPT ![ProcessOf[t]] = @ + 1]
    /\ nest' = [nest EXCEPT ![t] = @ + 1]
    /\ Goes(t, "in")
    /\ UNCHANGED <<owner, count, fd, files, flock>>

\* os.open of the lock file.
Open(t) ==
    /\ at[t] = "entered"
    /\ depth[ProcessOf[t]] = 0
    /\ files' = files \cup {t}
    /\ Goes(t, "opened")
    /\ UNCHANGED <<owner, count, depth, fd, flock, nest>>

\* flock(LOCK_EX) returns; the shared state is filled in under the RLock.
Flock(t) ==
    LET p == ProcessOf[t]
    IN  /\ at[t] = "opened"
        /\ flock = None
        /\ flock' = t
        /\ fd' = [fd EXCEPT ![p] = t]
        /\ depth' = [depth EXCEPT ![p] = 1]
        /\ nest' = [nest EXCEPT ![t] = @ + 1]
        /\ Goes(t, "in")
        /\ UNCHANGED <<owner, count, files>>

\* Where os.open or flock may raise.
Opening(t) ==
    \/ at[t] = "entered" /\ depth[ProcessOf[t]] = 0
    \/ at[t] = "opened"

\* Mutant of EnterFails: the descriptor stays open.
EnterFailsOpen(t) ==
    /\ Opening(t)
    /\ ReleaseRLock(ProcessOf[t])
    /\ Goes(t, "failed")
    /\ UNCHANGED <<depth, fd, files, flock, nest>>

\* Mutant of EnterFails: the RLock stays taken.
EnterFailsLocked(t) ==
    /\ Opening(t)
    /\ files' = files \ {t}
    /\ Goes(t, "failed")
    /\ UNCHANGED <<owner, count, depth, fd, flock, nest>>

\* open or flock raises: the descriptor, if any, is closed, the RLock released.
EnterFails(t) ==
    /\ Opening(t)
    /\ files' = files \ {t}
    /\ ReleaseRLock(ProcessOf[t])
    /\ Goes(t, "failed")
    /\ UNCHANGED <<depth, fd, flock, nest>>

\* The caller gets the exception.
Raises(t) ==
    /\ at[t] = "failed"
    /\ Goes(t, "idle")
    /\ UNCHANGED <<owner, count, depth, fd, files, flock, nest>>

\* Mutant of Leave: every exit closes the descriptor, an inner one too.
LeaveEach(t) ==
    LET p == ProcessOf[t]
    IN  /\ at[t] = "in"
        /\ depth' = [depth EXCEPT ![p] = IF @ > 0 THEN @ - 1 ELSE @]
        /\ nest' = [nest EXCEPT ![t] = @ - 1]
        /\ flock' = IF flock = fd[p] THEN None ELSE flock
        /\ files' = files \ {fd[p]}
        /\ fd' = [fd EXCEPT ![p] = None]
        /\ Goes(t, "release")
        /\ UNCHANGED <<owner, count>>

\* The first half of __exit__: only the outermost exit gives up the file lock.
Leave(t) ==
    LET p == ProcessOf[t]
    IN  /\ at[t] = "in"
        /\ depth' = [depth EXCEPT ![p] = IF @ > 0 THEN @ - 1 ELSE @]
        /\ nest' = [nest EXCEPT ![t] = @ - 1]
        /\ IF depth[p] = 1
           THEN /\ flock' = IF flock = fd[p] THEN None ELSE flock
                /\ files' = files \ {fd[p]}
                /\ fd' = [fd EXCEPT ![p] = None]
           ELSE UNCHANGED <<flock, files, fd>>
        /\ Goes(t, "release")
        /\ UNCHANGED <<owner, count>>

\* The second half of __exit__.
Release(t) ==
    /\ at[t] = "release"
    /\ ReleaseRLock(ProcessOf[t])
    /\ Goes(t, IF nest[t] > 0 THEN "in" ELSE "idle")
    /\ UNCHANGED <<depth, fd, files, flock, nest>>

\* A process dies and may start again; the kernel closes its descriptors.
Dies(p) ==
    LET mine == {t \in Threads : ProcessOf[t] = p}
    IN  /\ owner' = [owner EXCEPT ![p] = None]
        /\ count' = [count EXCEPT ![p] = 0]
        /\ depth' = [depth EXCEPT ![p] = 0]
        /\ fd' = [fd EXCEPT ![p] = None]
        /\ files' = files \ mine
        /\ flock' = IF flock \in mine THEN None ELSE flock
        /\ at' = [t \in Threads |-> IF t \in mine THEN "idle" ELSE at[t]]
        /\ nest' = [t \in Threads |-> IF t \in mine THEN 0 ELSE nest[t]]

\* What a thread does by itself once it has reached a with statement.
Proceeds(t) ==
    \/ AcquireRLock(t) \/ Reenter(t) \/ Open(t) \/ Flock(t)
    \/ Leave(t) \/ Release(t) \/ Raises(t)

Next ==
    \/ \E t \in Threads : Want(t) \/ Proceeds(t) \/ EnterFails(t)
    \/ \E p \in Processes : Dies(p)

Spec == Init /\ [][Next]_vars

-----------------------------------------------------------------------------
\* The body of a with statement on the session is executed by one thread at a
\* time, in all processes, through nested blocks, failing calls and deaths.
MutualExclusion ==
    \A t, u \in Threads : nest[t] > 0 /\ nest[u] > 0 => t = u

\* No descriptor leaks: each one open belongs to the thread that has the RLock
\* of its process, and the shared state knows it once the lock is held.
DescriptorsAreOwned ==
    \A t \in files :
        /\ owner[ProcessOf[t]] = t
        /\ nest[t] > 0 => fd[ProcessOf[t]] = t

-----------------------------------------------------------------------------
(* Fairness: a thread that can go on does, and with-bodies end.  Neither   *)
(* RLock nor flock is fair to one waiter, so no thread is promised its     *)
(* turn.                                                                   *)
FairSpec == Spec /\ \A t \in Threads : WF_vars(Proceeds(t))

Waits(t) == at[t] \in {"want", "entered", "opened"}

\* Unless processes keep dying, while threads wait some thread gets in or is
\* told of a failure, again and again: no exception, nesting or death leaves
\* the lock taken for good.
SomeoneGetsIn ==
    \/ []<><<\E p \in Processes : Dies(p)>>_vars
    \/ []<>(\/ \A t \in Threads : ~Waits(t)
            \/ \E t \in Threads : at[t] \in {"in", "failed"})
=============================================================================
