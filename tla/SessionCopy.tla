----------------------------- MODULE SessionCopy -----------------------------
(***************************************************************************)
(* The three places a brainstorming session of one chat lives in, and the  *)
(* processes that change them: the file of the session (BrainstormManager, *)
(* under the lock of the session), the mapping file that names the active  *)
(* session of the chat (written under no lock), and the row of the session *)
(* in SQLite, a copy that BrainstormStateAdapter writes after the file and *)
(* whose failure nobody hears of.                                          *)
(*                                                                         *)
(* What a session says is abstracted to its status; every save is a new    *)
(* version.  A process is a run of the orchestrator or a request to the    *)
(* dashboard.  Files are stamped in local time, which the readers of the   *)
(* table take for UTC; the adapter itself stamps in UTC.                   *)
(***************************************************************************)
EXTENDS Integers, Sequences

CONSTANTS
    Procs,     \* the processes
    Sessions,  \* ids that _generate_id may return
    None,      \* no session, no mapping
    Offset,    \* local time minus UTC
    MaxStamps  \* bound on the number of time stamps taken

ASSUME SessionCopyAssumption ==
    /\ None \notin Sessions
    /\ Offset \in Int
    /\ MaxStamps \in Nat

VARIABLES
    clock,    \* UTC, in stamps taken
    versions, \* versions[s]: what the file of s has held, oldest first
    mapping,  \* the mapping file of the chat, or None
    row,      \* row[s]: the row of s in the table "sessions"
    op,       \* op[p]: the operation p is in
    missed    \* the sessions whose last save did not reach the table

copyVars == <<clock, versions, mapping, row, op, missed>>

\* "closed" stands for rejected, executed and ARCHIVED_CLEARED.
Statuses == {"active", "approved", "closed"}

Versions == [status : Statuses, at : Int]

Mappings == [session : Sessions, at : Int]

\* rev = 0: the table has no row of the session.
Rows == [rev : Nat, status : Statuses, at : Int]

NoRow == [rev |-> 0, status |-> "active", at |-> 0]

\* "shadow": the lock of the session is held, the file is written, the table
\* is next; the others hold no lock.
Places == {"idle", "archive", "create", "shadow", "map", "activate", "unmap"}

\* rev is the version that an operation at "shadow" has in hand.
Ops == [at : Places, session : Sessions \cup {None}, rev : Nat,
        next : {"idle", "map", "create", "unmap"}]

Idle == [at |-> "idle", session |-> None, rev |-> 0, next |-> "idle"]

SessionCopyTypeOK ==
    /\ clock \in Nat
    /\ versions \in [Sessions -> Seq(Versions)]
    /\ mapping \in Mappings \cup {None}
    /\ row \in [Sessions -> Rows]
    /\ op \in [Procs -> Ops]
    /\ missed \subseteq Sessions

CopyInit ==
    /\ clock = 0
    /\ versions = [s \in Sessions |-> <<>>]
    /\ mapping = None
    /\ row = [s \in Sessions |-> NoRow]
    /\ op = [p \in Procs |-> Idle]
    /\ missed = {}

-----------------------------------------------------------------------------
Revision(s) == Len(versions[s])

HasFile(s) == Revision(s) > 0

\* SessionFileLock: of all operations only a save holds it across two steps.
Locked(s) == \E p \in Procs : op[p].at = "shadow" /\ op[p].session = s

Fresh(s) ==
    /\ ~HasFile(s)
    /\ ~(mapping # None /\ mapping.session = s)
    /\ \A p \in Procs : op[p].session # s

\* utc_now_iso and datetime.now: every stamp is a later one.
Stamp == clock < MaxStamps /\ clock' = clock + 1

Utc == clock + 1

Local == clock + 1 + Offset

At(p, place) == op[p].at = place

\* What an operation still does after a save of s; only a mapping needs s.
After(next, s) ==
    [at |-> next, session |-> IF next = "map" THEN s ELSE None, rev |-> 0, next |-> "idle"]

\* Mutant of Save: the lock is given up before the copy is written.
SaveUnlocked(p, s, status, next) ==
    /\ Stamp
    /\ versions' = [versions EXCEPT ![s] = Append(@, [status |-> status, at |-> Local])]
    /\ op' = [op EXCEPT ![p] = [at |-> "shadow", session |-> s, rev |-> Revision(s) + 1, next |-> next]]

\* The block under the lock up to the new file: load, change, save_brainstorm.
Save(p, s, status, next) ==
    /\ ~Locked(s)
    /\ Stamp
    /\ versions' = [versions EXCEPT ![s] = Append(@, [status |-> status, at |-> Local])]
    /\ op' = [op EXCEPT ![p] = [at |-> "shadow", session |-> s, rev |-> Revision(s) + 1, next |-> next]]

\* The write failed: the file is as it was, the caller does not look and goes on.
SaveFails(p, s, next) ==
    /\ ~Locked(s)
    /\ op' = [op EXCEPT ![p] = After(next, s)]
    /\ UNCHANGED <<clock, versions>>

SaveOrFail(p, s, status, next) == Save(p, s, status, next) \/ SaveFails(p, s, next)

\* create_brainstorm, for a new chat or after an archiving.
Create(p) ==
    /\ At(p, "idle") \/ At(p, "create")
    /\ \E s \in Sessions : Fresh(s) /\ SaveOrFail(p, s, "active", "map")
    /\ UNCHANGED <<mapping, row, missed>>

\* Messages, replies, rounds and compactions: the status stays.
Continue(p) ==
    /\ At(p, "idle")
    /\ \E s \in Sessions :
          HasFile(s) /\ SaveOrFail(p, s, versions[s][Revision(s)].status, "idle")
    /\ UNCHANGED <<mapping, row, missed>>

Approve(p) ==
    /\ At(p, "idle")
    /\ \E s \in Sessions : HasFile(s) /\ SaveOrFail(p, s, "approved", "idle")
    /\ UNCHANGED <<mapping, row, missed>>

\* reject and mark_executed: the mapping is cleared when the lock is released.
Close(p) ==
    /\ At(p, "idle")
    /\ \E s \in Sessions : HasFile(s) /\ SaveOrFail(p, s, "closed", "unmap")
    /\ UNCHANGED <<mapping, row, missed>>

\* clear_active_session: whose session it is is read before the lock is taken.
ReadActive(p) ==
    /\ At(p, "idle")
    /\ mapping # None
    /\ op' = [op EXCEPT ![p] = [at |-> "archive", session |-> mapping.session,
                                rev |-> 0, next |-> "idle"]]
    /\ UNCHANGED <<clock, versions, mapping, row, missed>>

Archive(p) ==
    /\ At(p, "archive")
    /\ HasFile(op[p].session)
    /\ SaveOrFail(p, op[p].session, "closed", "create")
    /\ UNCHANGED <<mapping, row, missed>>

\* The mapping named a session that has no file.
NothingToArchive(p) ==
    /\ At(p, "archive")
    /\ ~HasFile(op[p].session)
    /\ op' = [op EXCEPT ![p] = After("create", None)]
    /\ UNCHANGED <<clock, versions, mapping, row, missed>>

-----------------------------------------------------------------------------
Released(p) ==
    op' = [op EXCEPT ![p] = After(@.next, @.session)]

\* Mutant of ShadowSave: a row that exists keeps its status.
ShadowSaveKeepingStatus(p) ==
    /\ At(p, "shadow")
    /\ LET s == op[p].session
           n == op[p].rev
           v == versions[s][n]
       IN  /\ row' = [row EXCEPT ![s] = [rev |-> n,
                                         status |-> IF @.rev = 0 THEN v.status ELSE @.status,
                                         at |-> v.at]]
           /\ missed' = missed \ {s}
    /\ Released(p)
    /\ UNCHANGED <<clock, versions, mapping>>

\* shadow_save: one transaction replaces the row and its messages.
ShadowSave(p) ==
    /\ At(p, "shadow")
    /\ LET s == op[p].session
           n == op[p].rev
           v == versions[s][n]
       IN  /\ row' = [row EXCEPT ![s] = [rev |-> n, status |-> v.status, at |-> v.at]]
           /\ missed' = missed \ {s}
    /\ Released(p)
    /\ UNCHANGED <<clock, versions, mapping>>

ShadowSaveFails(p) ==
    /\ At(p, "shadow")
    /\ missed' = missed \cup {op[p].session}
    /\ Released(p)
    /\ UNCHANGED <<clock, versions, mapping, row>>

\* set_active_brainstorm; the new mapping replaces any other.
SetMapping(p) ==
    /\ At(p, "map")
    /\ Stamp
    /\ mapping' = [session |-> op[p].session, at |-> Local]
    /\ op' = [op EXCEPT ![p].at = "activate"]
    /\ UNCHANGED <<versions, row, missed>>

\* shadow_set_active: an UPDATE in UTC, without effect when there is no row.
ShadowSetActive(p) ==
    /\ At(p, "activate")
    /\ Stamp
    /\ row' = [row EXCEPT ![op[p].session] =
                  IF @.rev = 0 THEN @ ELSE [@ EXCEPT !.status = "active", !.at = Utc]]
    /\ op' = [op EXCEPT ![p] = Idle]
    /\ UNCHANGED <<versions, mapping, missed>>

\* The mapping cannot be written, or the table is locked.
ActivationFails(p) ==
    /\ At(p, "map") \/ At(p, "activate")
    /\ op' = [op EXCEPT ![p] = Idle]
    /\ UNCHANGED <<clock, versions, mapping, row, missed>>

\* clear_active_brainstorm unlinks the mapping whatever it names.
ClearMapping(p) ==
    /\ At(p, "unmap")
    /\ mapping' = None
    /\ op' = [op EXCEPT ![p] = Idle]
    /\ UNCHANGED <<clock, versions, row, missed>>

\* The process dies; the lock goes with its descriptors.
Crash(p) ==
    /\ ~At(p, "idle")
    /\ missed' = IF At(p, "shadow") THEN missed \cup {op[p].session} ELSE missed
    /\ op' = [op EXCEPT ![p] = Idle]
    /\ UNCHANGED <<clock, versions, mapping, row>>

CopyNext ==
    \E p \in Procs :
        \/ Create(p) \/ Continue(p) \/ Approve(p) \/ Close(p)
        \/ ReadActive(p) \/ Archive(p) \/ NothingToArchive(p)
        \/ ShadowSave(p) \/ ShadowSaveFails(p)
        \/ SetMapping(p) \/ ShadowSetActive(p) \/ ActivationFails(p)
        \/ ClearMapping(p) \/ Crash(p)

-----------------------------------------------------------------------------
(* Between two saves the row of a session holds its last version, unless   *)
(* that very save did not reach the table (a locked database, the death of *)
(* the process): no older save and no import gets between                  *)
(* (save_brainstorm, shadow_save, _process_brainstorm_file).               *)
RowIsCurrent ==
    \A s \in Sessions :
        ~Locked(s) /\ s \notin missed => row[s].rev = Revision(s)

(* A row says what the file of its session said in the version the row is  *)
(* a copy of, or that the session is active, as whoever made it the active *)
(* one of a chat wrote into it (shadow_save, shadow_set_active).           *)
RowStatusIsEarned ==
    \A s \in Sessions :
        row[s].rev > 0 =>
            /\ row[s].rev <= Revision(s)
            /\ row[s].status \in {versions[s][row[s].rev].status, "active"}
=============================================================================
