-------------------------- MODULE SessionLockProofs --------------------------
(***************************************************************************)
(* Proofs about SessionLock, for any threads in any processes.  Exclusion  *)
(* follows from what a body of a with statement implies: the shared state  *)
(* of its process and the kernel both name the thread it runs in.          *)
(***************************************************************************)
EXTENDS SessionLock, TLAPS

\* Between rlock.acquire() and rlock.release(), bodies excepted.
Crossing(t) == at[t] \in {"entered", "opened", "release"}

\* Whoever is past rlock.acquire() owns the RLock of its process.
Owned ==
    \A t \in Threads : Crossing(t) \/ nest[t] > 0 => owner[ProcessOf[t]] = t

\* Where a thread is and how deep it is agree.
Nested ==
    \A t \in Threads :
        /\ at[t] = "in" => nest[t] > 0
        /\ at[t] \in {"opened", "idle", "failed"} => nest[t] = 0

\* The RLock counts its owner's blocks and the one it is crossing the edge of;
\* the depth counts the blocks.
Counted ==
    \A t \in Threads : owner[ProcessOf[t]] = t =>
        /\ count[ProcessOf[t]] = nest[t] + (IF Crossing(t) THEN 1 ELSE 0)
        /\ count[ProcessOf[t]] > 0
        /\ depth[ProcessOf[t]] = nest[t]

\* An RLock without owner is unused; an owner is a thread of the process.
Unowned ==
    \A p \in Processes :
        /\ owner[p] = None => depth[p] = 0 /\ count[p] = 0
        /\ owner[p] \in Threads => ProcessOf[owner[p]] = p

\* A thread in a body is the one whose descriptor has the lock of the kernel.
Held ==
    \A t \in Threads : nest[t] > 0 => fd[ProcessOf[t]] = t /\ flock = t

\* A descriptor is open from os.open to the outermost exit.
Opened ==
    \A t \in files : owner[ProcessOf[t]] = t /\ (at[t] = "opened" \/ nest[t] > 0)

LockInv == TypeOK /\ Owned /\ Nested /\ Counted /\ Unowned /\ Held /\ Opened

-----------------------------------------------------------------------------

LEMMA ProcessType == \A t \in Threads : ProcessOf[t] \in Processes
  BY DEF Processes

LEMMA NoneType == None \notin Threads
  BY SessionLockAssumption

LEMMA LockInit == Init => LockInv
<1> SUFFICES ASSUME Init PROVE LockInv
  OBVIOUS
<1> USE ProcessType, NoneType DEF Init
<1>1. TypeOK
  BY DEF TypeOK, Places
<1>2. Owned /\ Nested /\ Held
  BY DEF Owned, Nested, Held, Crossing
<1>3. Counted /\ Unowned /\ Opened
  BY DEF Counted, Unowned, Opened
<1> QED BY <1>1, <1>2, <1>3 DEF LockInv

LEMMA LockNext == LockInv /\ [Next]_vars => LockInv'
<1> SUFFICES ASSUME LockInv, [Next]_vars PROVE LockInv'
  OBVIOUS
<1> USE ProcessType, NoneType DEF LockInv, TypeOK, Places
<1>1. ASSUME NEW t \in Threads, Want(t) PROVE LockInv'
  BY <1>1 DEF Want, Goes, Owned, Nested, Counted, Unowned, Held, Opened, Crossing
<1>2. ASSUME NEW t \in Threads, AcquireRLock(t) PROVE LockInv'
  BY <1>2 DEF AcquireRLock, Goes, Owned, Nested, Counted, Unowned, Held, Opened, Crossing
<1>3. ASSUME NEW t \in Threads, Reenter(t) PROVE LockInv'
  BY <1>3 DEF Reenter, Goes, Owned, Nested, Counted, Unowned, Held, Opened, Crossing
<1>4. ASSUME NEW t \in Threads, Open(t) PROVE LockInv'
  BY <1>4 DEF Open, Goes, Owned, Nested, Counted, Unowned, Held, Opened, Crossing
<1>5. ASSUME NEW t \in Threads, Flock(t) PROVE LockInv'
  BY <1>5 DEF Flock, Goes, Owned, Nested, Counted, Unowned, Held, Opened, Crossing
<1>6. ASSUME NEW t \in Threads, EnterFails(t) PROVE LockInv'
  BY <1>6 DEF EnterFails, Opening, ReleaseRLock, Goes, Owned, Nested, Counted, Unowned, Held,
              Opened, Crossing
<1>7. ASSUME NEW t \in Threads, Raises(t) PROVE LockInv'
  BY <1>7 DEF Raises, Goes, Owned, Nested, Counted, Unowned, Held, Opened, Crossing
<1>8. ASSUME NEW t \in Threads, Leave(t) PROVE LockInv'
  BY <1>8 DEF Leave, Goes, Owned, Nested, Counted, Unowned, Held, Opened, Crossing
<1>9. ASSUME NEW t \in Threads, Release(t) PROVE LockInv'
  BY <1>9 DEF Release, ReleaseRLock, Goes, Owned, Nested, Counted, Unowned, Held, Opened, Crossing
<1>10. ASSUME NEW p \in Processes, Dies(p) PROVE LockInv'
  BY <1>10 DEF Dies, Owned, Nested, Counted, Unowned, Held, Opened, Crossing
<1>11. CASE UNCHANGED vars
  BY <1>11 DEF vars, Owned, Nested, Counted, Unowned, Held, Opened, Crossing
<1> QED
  BY <1>1, <1>2, <1>3, <1>4, <1>5, <1>6, <1>7, <1>8, <1>9, <1>10, <1>11 DEF Next, Proceeds

\* The inductive invariant holds in every reachable state.
THEOREM LockInvariance == Spec => []LockInv
  BY LockInit, LockNext, PTL DEF Spec

\* Threads, processes and the lock keep their types: depth and count stay within
\* the nesting, the owner of a lock is a thread of its process.
THEOREM LockTypes == Spec => []TypeOK
<1>1. LockInv => TypeOK
  BY DEF LockInv
<1> QED BY <1>1, LockInvariance, PTL

\* Two threads of the system, of one process or of two, are never both in the
\* body of a with statement on the session: SessionFileLock excludes, whatever
\* nests, fails or dies.
THEOREM Exclusion == Spec => []MutualExclusion
<1>1. LockInv => MutualExclusion
  BY DEF LockInv, Held, MutualExclusion
<1> QED BY <1>1, LockInvariance, PTL

\* No descriptor of the lock file outlives its use, on any path.
THEOREM NoDescriptorLeaks == Spec => []DescriptorsAreOwned
<1>1. LockInv => DescriptorsAreOwned
  BY DEF LockInv, TypeOK, Held, Opened, DescriptorsAreOwned
<1> QED BY <1>1, LockInvariance, PTL
=============================================================================
