------------------------- MODULE LegacyImportProofs --------------------------
(***************************************************************************)
(* Proofs about LegacyImport, for any processes, sessions and files: what  *)
(* the table says of sessions and runs only gets newer, a row is current   *)
(* unless its own save was lost, and a recorded hash is of something the   *)
(* table has.  The inductive invariant has two parts: the lock of a session*)
(* is held with its last version in hand, whatever the time zone; and      *)
(* stamps grow with the versions, and no row is stamped before the version *)
(* it holds, which needs local time not to be ahead of UTC.                *)
(***************************************************************************)
EXTENDS LegacyImport, TLAPS

\* Who saves, makes active or archives knows the session.
Sound(o) ==
    /\ o \in Ops
    /\ o.at \in {"shadow", "map", "activate", "archive"} => o.session \in Sessions

OpsAreSound == \A p \in Procs : Sound(op[p])

\* The lock of a session is held by one process, which has its last version.
HeldByOne ==
    \A p \in Procs : At(p, "shadow") =>
        /\ op[p].rev = Revision(op[p].session)
        /\ op[p].rev >= 1
        /\ \A q \in Procs : At(q, "shadow") /\ op[q].session = op[p].session => q = p

\* Stamps grow with the versions and do not lie in the future.
VersionsAreDated ==
    \A s \in Sessions : \A n \in 1..Revision(s) :
        /\ versions[s][n].at <= clock + Offset
        /\ \A m \in 1..(n - 1) : versions[s][m].at < versions[s][n].at

RunFilesAreDated ==
    \A k \in RunFiles : \A n \in 1..Len(runFile[k]) :
        /\ runFile[k][n] <= clock + Offset
        /\ \A m \in 1..(n - 1) : runFile[k][m] < runFile[k][n]

\* A row is a copy of a version and its stamp is not an earlier one.
RowsAreDated ==
    \A s \in Sessions : row[s].rev > 0 =>
        /\ row[s].rev <= Revision(s)
        /\ row[s].at >= versions[s][row[s].rev].at

RunRowsAreDated ==
    \A k \in RunFiles : runRow[k].rev > 0 =>
        /\ runRow[k].rev <= Len(runFile[k])
        /\ runRow[k].at >= runFile[k][runRow[k].rev]

\* What the importer has listed or read has been there.
ListedIsThere ==
    /\ \A s \in Sessions : s \in left => HasFile(s)
    /\ \A k \in RunFiles : k \in left => runFile[k] # <<>>

HeldIsThere ==
    /\ pass = "session" => held.rev \in 1..Revision(held.session)
    /\ pass = "run" => held.rev \in 1..Len(runFile[held.run])

Typed == LegacyTypeOK /\ OpsAreSound

\* What holds whatever the offset of local time is.
BasicInv ==
    /\ Typed
    /\ HeldByOne
    /\ ListedIsThere
    /\ HeldIsThere
    /\ RowStatusIsEarned
    /\ RecordedIsImported

\* What needs local time not to be ahead of UTC.
DatedInv ==
    /\ VersionsAreDated
    /\ RowsAreDated
    /\ RunFilesAreDated
    /\ RunRowsAreDated
    /\ RowIsCurrent

-----------------------------------------------------------------------------
(* The steps of processes fall into four kinds.                            *)

Saves(p, s, status, next) ==
    /\ ~Locked(s)
    /\ ~At(p, "shadow")
    /\ clock' = clock + 1
    /\ versions' = [versions EXCEPT ![s] = Append(@, [status |-> status, at |-> Local])]
    /\ op' = [op EXCEPT ![p] = [at |-> "shadow", session |-> s, rev |-> Revision(s) + 1, next |-> next]]
    /\ UNCHANGED <<mapping, row, missed>>

MovesOn(p, o) ==
    /\ Sound(o)
    /\ o.at # "shadow"
    /\ op' = [op EXCEPT ![p] = o]

LeavesTheTable(p, o) ==
    /\ MovesOn(p, o)
    /\ clock' \in {clock, clock + 1}
    /\ mapping' \in Mappings \cup {None}
    /\ missed' = missed \cup (IF At(p, "shadow") THEN {op[p].session} ELSE {})
    /\ UNCHANGED <<versions, row>>

Copies(p, o) ==
    /\ MovesOn(p, o)
    /\ At(p, "shadow")
    /\ row' = [row EXCEPT ![op[p].session] =
                  [rev |-> op[p].rev, status |-> versions[op[p].session][op[p].rev].status,
                   at |-> versions[op[p].session][op[p].rev].at]]
    /\ missed' = missed \ {op[p].session}
    /\ UNCHANGED <<clock, versions, mapping>>

Activates(p) ==
    /\ MovesOn(p, Idle)
    /\ At(p, "activate")
    /\ clock' = clock + 1
    /\ row' = [row EXCEPT ![op[p].session] =
                  IF @.rev = 0 THEN @ ELSE [@ EXCEPT !.status = "active", !.at = Utc]]
    /\ UNCHANGED <<versions, mapping, missed>>

Nexts == {"idle", "map", "create", "unmap"}

LEMMA SaveOrFailKinds ==
  ASSUME Typed, NEW p \in Procs, NEW s \in Sessions, NEW status \in Statuses, NEW next \in Nexts,
         SaveOrFail(p, s, status, next), UNCHANGED <<mapping, row, missed>>, ~At(p, "shadow")
  PROVE  Saves(p, s, status, next) \/ \E o \in Ops : LeavesTheTable(p, o)
<1>1. CASE Save(p, s, status, next)
  BY <1>1 DEF Save, Saves, Stamp
<1>2. CASE SaveFails(p, s, next)
  <2>1. After(next, s) \in Ops /\ Sound(After(next, s)) /\ After(next, s).at # "shadow"
    BY DEF After, Sound, Ops, Places, Nexts
  <2>2. LeavesTheTable(p, After(next, s))
    <3>1. mapping' \in Mappings \cup {None}
      BY DEF Typed, LegacyTypeOK, SessionCopyTypeOK
    <3>2. missed' = missed \cup (IF At(p, "shadow") THEN {op[p].session} ELSE {})
      OBVIOUS
    <3> QED BY <1>2, <2>1, <3>1, <3>2 DEF SaveFails, LeavesTheTable, MovesOn
  <2> QED BY <2>1, <2>2
<1> QED BY <1>1, <1>2 DEF SaveOrFail

LEMMA IdleIsSound == Idle \in Ops /\ Sound(Idle) /\ Idle.at # "shadow"
  BY DEF Idle, Ops, Places, Sound

LEMMA StepKinds ==
  ASSUME Typed, CopyNext
  PROVE  \E p \in Procs :
            \/ \E s \in Sessions, status \in Statuses, next \in Nexts : Saves(p, s, status, next)
            \/ \E o \in Ops : LeavesTheTable(p, o) \/ Copies(p, o)
            \/ Activates(p)
<1>0. PICK p \in Procs :
        \/ Create(p) \/ Continue(p) \/ Approve(p) \/ Close(p)
        \/ ReadActive(p) \/ Archive(p) \/ NothingToArchive(p)
        \/ ShadowSave(p) \/ ShadowSaveFails(p)
        \/ SetMapping(p) \/ ShadowSetActive(p) \/ ActivationFails(p)
        \/ ClearMapping(p) \/ Crash(p)
  BY DEF CopyNext
<1> DEFINE Goal == \/ \E s \in Sessions, status \in Statuses, next \in Nexts : Saves(p, s, status, next)
                   \/ \E o \in Ops : LeavesTheTable(p, o) \/ Copies(p, o)
                   \/ Activates(p)
<1>t. /\ Sound(op[p]) /\ op[p] \in Ops
      /\ mapping \in Mappings \cup {None}
      /\ op \in [Procs -> Ops]
      /\ \A s \in Sessions : HasFile(s) => versions[s][Revision(s)].status \in Statuses
  <2>1. ASSUME NEW s \in Sessions, HasFile(s) PROVE versions[s][Revision(s)].status \in Statuses
    <3>1. versions[s] \in Seq(Versions) /\ Len(versions[s]) \in 1..Len(versions[s])
      BY <2>1 DEF Typed, LegacyTypeOK, SessionCopyTypeOK, HasFile, Revision
    <3>2. versions[s][Len(versions[s])] \in Versions
      BY <3>1
    <3> QED BY <3>2 DEF Versions, Revision
  <2> QED BY <2>1 DEF Typed, LegacyTypeOK, SessionCopyTypeOK, OpsAreSound, Sound
<1>1. CASE Create(p)
  <2>1. PICK s \in Sessions : SaveOrFail(p, s, "active", "map")
    BY <1>1 DEF Create
  <2> QED BY <1>1, <2>1, SaveOrFailKinds DEF Create, At, Statuses, Nexts
<1>2. CASE Continue(p)
  <2>1. PICK s \in Sessions :
           HasFile(s) /\ SaveOrFail(p, s, versions[s][Revision(s)].status, "idle")
    BY <1>2 DEF Continue
  <2>2. versions[s][Revision(s)].status \in Statuses
    BY <1>t, <2>1
  <2> QED BY <1>2, <2>1, <2>2, SaveOrFailKinds DEF Continue, At, Nexts
<1>3. CASE Approve(p)
  <2>1. PICK s \in Sessions : SaveOrFail(p, s, "approved", "idle")
    BY <1>3 DEF Approve
  <2> QED BY <1>3, <2>1, SaveOrFailKinds DEF Approve, At, Statuses, Nexts
<1>4. CASE Close(p)
  <2>1. PICK s \in Sessions : SaveOrFail(p, s, "closed", "unmap")
    BY <1>4 DEF Close
  <2> QED BY <1>4, <2>1, SaveOrFailKinds DEF Close, At, Statuses, Nexts
<1>5. CASE Archive(p)
  <2>1. op[p].session \in Sessions
    BY <1>5, <1>t DEF Archive, At, Sound
  <2> QED BY <1>5, <2>1, SaveOrFailKinds DEF Archive, At, Statuses, Nexts
<1>6. CASE ReadActive(p)
  <2> DEFINE o == [at |-> "archive", session |-> mapping.session, rev |-> 0, next |-> "idle"]
  <2>1. mapping \in Mappings
    BY <1>6, <1>t DEF ReadActive
  <2>2. o \in Ops /\ Sound(o) /\ o.at # "shadow"
    BY <2>1 DEF Mappings, Ops, Places, Sound
  <2>3. LeavesTheTable(p, o)
    BY <1>6, <1>t, <2>2 DEF ReadActive, LeavesTheTable, MovesOn, At
  <2> QED BY <2>2, <2>3
<1>7. CASE NothingToArchive(p)
  <2>1. After("create", None) \in Ops /\ Sound(After("create", None)) /\ After("create", None).at # "shadow"
    BY DEF After, Ops, Places, Sound
  <2>2. LeavesTheTable(p, After("create", None))
    BY <1>7, <1>t, <2>1 DEF NothingToArchive, LeavesTheTable, MovesOn, At
  <2> QED BY <2>1, <2>2
<1>8. CASE ShadowSave(p) \/ ShadowSaveFails(p)
  <2> DEFINE o == After(op[p].next, op[p].session)
  <2>1. op[p].session \in Sessions /\ op[p].next \in Nexts
    BY <1>8, <1>t DEF ShadowSave, ShadowSaveFails, At, Sound, Ops, Nexts
  <2>2. o \in Ops /\ Sound(o) /\ o.at # "shadow"
    BY <2>1 DEF After, Ops, Places, Sound, Nexts
  <2>3. op' = [op EXCEPT ![p] = o]
    BY <1>8, <1>t DEF ShadowSave, ShadowSaveFails, Released
  <2>4. CASE ShadowSave(p)
    <3>1. Copies(p, o)
      BY <2>2, <2>3, <2>4 DEF ShadowSave, Copies, MovesOn
    <3> QED BY <2>2, <3>1
  <2>5. CASE ShadowSaveFails(p)
    <3>1. LeavesTheTable(p, o)
      BY <2>2, <2>3, <2>5, <1>t DEF ShadowSaveFails, LeavesTheTable, MovesOn
    <3> QED BY <2>2, <3>1
  <2> QED BY <1>8, <2>4, <2>5
<1>9. CASE SetMapping(p)
  <2> DEFINE o == [op[p] EXCEPT !.at = "activate"]
  <2>1. op[p].session \in Sessions
    BY <1>9, <1>t DEF SetMapping, At, Sound
  <2>2. o \in Ops /\ Sound(o) /\ o.at # "shadow"
    BY <2>1, <1>t DEF Ops, Places, Sound
  <2>3. mapping' \in Mappings
    BY <1>9, <2>1, SessionCopyAssumption DEF SetMapping, Mappings, Local, Typed, LegacyTypeOK, SessionCopyTypeOK
  <2>4. LeavesTheTable(p, o)
    BY <1>9, <1>t, <2>2, <2>3 DEF SetMapping, LeavesTheTable, MovesOn, At, Stamp
  <2> QED BY <2>2, <2>4
<1>10. CASE ShadowSetActive(p)
  <2>1. Activates(p)
    BY <1>10, IdleIsSound DEF ShadowSetActive, Activates, MovesOn, Stamp
  <2> QED BY <2>1
<1>11. CASE ActivationFails(p)
  <2>1. LeavesTheTable(p, Idle)
    BY <1>11, <1>t, IdleIsSound DEF ActivationFails, LeavesTheTable, MovesOn, At
  <2> QED BY <2>1, IdleIsSound
<1>12. CASE ClearMapping(p)
  <2>1. LeavesTheTable(p, Idle)
    BY <1>12, <1>t, IdleIsSound DEF ClearMapping, LeavesTheTable, MovesOn, At
  <2> QED BY <2>1, IdleIsSound
<1>13. CASE Crash(p)
  <2>1. LeavesTheTable(p, Idle)
    BY <1>13, <1>t, IdleIsSound DEF Crash, LeavesTheTable, MovesOn, At
  <2> QED BY <2>1, IdleIsSound
<1> QED
  BY <1>0, <1>1, <1>2, <1>3, <1>4, <1>5, <1>6, <1>7, <1>8, <1>9, <1>10, <1>11, <1>12, <1>13

-----------------------------------------------------------------------------
(* Types, and what the lock and the order of the pass guarantee            *)

LEMMA VersionType ==
  ASSUME Typed, NEW s \in Sessions, NEW n \in 1..Revision(s)
  PROVE  versions[s][n] \in Versions
<1>1. versions[s] \in Seq(Versions)
  BY DEF Typed, LegacyTypeOK, SessionCopyTypeOK
<1> QED BY <1>1 DEF Revision

LEMMA RevisionType ==
  ASSUME Typed, NEW s \in Sessions
  PROVE  Revision(s) \in Nat
<1>1. versions[s] \in Seq(Versions)
  BY DEF Typed, LegacyTypeOK, SessionCopyTypeOK
<1> QED BY <1>1 DEF Revision

\* A save appends a version, and changes no file of another session.
LEMMA SavedVersions ==
  ASSUME Typed, NEW p \in Procs, NEW s \in Sessions, NEW status \in Statuses, NEW next \in Nexts,
         Saves(p, s, status, next)
  PROVE  /\ versions' \in [Sessions -> Seq(Versions)]
         /\ Revision(s)' = Revision(s) + 1
         /\ versions'[s][Revision(s) + 1] = [status |-> status, at |-> Local]
         /\ \A n \in 1..Revision(s) : versions'[s][n] = versions[s][n]
         /\ \A t \in Sessions \ {s} : versions'[t] = versions[t] /\ Revision(t)' = Revision(t)
<1> DEFINE v == [status |-> status, at |-> Local]
<1>1. versions \in [Sessions -> Seq(Versions)] /\ versions[s] \in Seq(Versions)
  BY DEF Typed, LegacyTypeOK, SessionCopyTypeOK
<1>2. v \in Versions
  BY SessionCopyAssumption DEF Versions, Local, Typed, LegacyTypeOK, SessionCopyTypeOK
<1>3. Append(versions[s], v) \in Seq(Versions)
  BY <1>1, <1>2
<1>4. versions' = [versions EXCEPT ![s] = Append(versions[s], v)]
  BY DEF Saves
<1>5. versions'[s] = Append(versions[s], v) /\ \A t \in Sessions \ {s} : versions'[t] = versions[t]
  BY <1>1, <1>4
<1>6. /\ Len(Append(versions[s], v)) = Len(versions[s]) + 1
      /\ Append(versions[s], v)[Len(versions[s]) + 1] = v
      /\ \A n \in 1..Len(versions[s]) : Append(versions[s], v)[n] = versions[s][n]
  BY <1>1
<1>7. versions' \in [Sessions -> Seq(Versions)]
  BY <1>1, <1>3, <1>4
<1> QED BY <1>5, <1>6, <1>7 DEF Revision

LEMMA ActivatedRow ==
  ASSUME NEW r \in Rows, NEW t \in Int
  PROVE  [r EXCEPT !.status = "active", !.at = t] \in Rows
<1>1. r = [rev |-> r.rev, status |-> r.status, at |-> r.at]
  BY DEF Rows
<1>2. r.rev \in Nat
  BY DEF Rows
<1> QED BY <1>1, <1>2 DEF Rows, Statuses

LEMMA CopyStepTypes ==
  ASSUME Typed, HeldByOne, CopyNext
  PROVE  SessionCopyTypeOK' /\ OpsAreSound'
<1> USE DEF Typed, LegacyTypeOK, SessionCopyTypeOK
<1>0. PICK p \in Procs :
        \/ \E s \in Sessions, status \in Statuses, next \in Nexts : Saves(p, s, status, next)
        \/ \E o \in Ops : LeavesTheTable(p, o) \/ Copies(p, o)
        \/ Activates(p)
  BY StepKinds
<1>1. CASE \E s \in Sessions, status \in Statuses, next \in Nexts : Saves(p, s, status, next)
  <2>1. PICK s \in Sessions, status \in Statuses, next \in Nexts : Saves(p, s, status, next)
    BY <1>1
  <2> DEFINE o == [at |-> "shadow", session |-> s, rev |-> Revision(s) + 1, next |-> next]
  <2>2. versions' \in [Sessions -> Seq(Versions)]
    BY <2>1, SavedVersions
  <2>3. o \in Ops /\ Sound(o)
    BY RevisionType DEF Ops, Places, Sound, Nexts
  <2>4. op' \in [Procs -> Ops] /\ OpsAreSound'
    BY <2>1, <2>3 DEF Saves, OpsAreSound
  <2> QED BY <2>1, <2>2, <2>4 DEF Saves
<1>2. CASE \E o \in Ops : LeavesTheTable(p, o)
  <2>1. PICK o \in Ops : LeavesTheTable(p, o)
    BY <1>2
  <2>2. op' \in [Procs -> Ops] /\ OpsAreSound'
    BY <2>1 DEF LeavesTheTable, MovesOn, OpsAreSound
  <2>3. At(p, "shadow") => op[p].session \in Sessions
    BY DEF At, OpsAreSound, Sound
  <2>4. missed' \subseteq Sessions
    BY <2>1, <2>3 DEF LeavesTheTable
  <2> QED BY <2>1, <2>2, <2>4 DEF LeavesTheTable
<1>3. CASE \E o \in Ops : Copies(p, o)
  <2>1. PICK o \in Ops : Copies(p, o)
    BY <1>3
  <2> DEFINE s == op[p].session
             v == versions[s][op[p].rev]
  <2>2. op' \in [Procs -> Ops] /\ OpsAreSound'
    BY <2>1 DEF Copies, MovesOn, OpsAreSound
  <2>3. missed' \subseteq Sessions
    BY <2>1 DEF Copies
  <2>4. s \in Sessions /\ op[p].rev \in 1..Revision(s)
    BY <2>1, RevisionType DEF Copies, HeldByOne, OpsAreSound, Sound, At
  <2>5. v \in Versions
    BY <2>4, VersionType
  <2>6. [rev |-> op[p].rev, status |-> v.status, at |-> v.at] \in Rows
    BY <2>4, <2>5, RevisionType DEF Versions, Rows
  <2>7. row' \in [Sessions -> Rows]
    BY <2>1, <2>4, <2>6 DEF Copies
  <2> QED BY <2>1, <2>2, <2>3, <2>7 DEF Copies
<1>4. CASE Activates(p)
  <2>1. op' \in [Procs -> Ops] /\ OpsAreSound'
    BY <1>4, IdleIsSound DEF Activates, MovesOn, OpsAreSound
  <2> DEFINE s == op[p].session
             r == [row[s] EXCEPT !.status = "active", !.at = Utc]
  <2>s. s \in Sessions
    BY <1>4 DEF Activates, At, OpsAreSound, Sound
  <2>r. row[s] \in Rows /\ r \in Rows
    <3>1. row[s] \in Rows /\ Utc \in Int
      BY <2>s DEF Utc
    <3> QED BY <3>1, ActivatedRow
  <2>e. row' = [row EXCEPT ![s] = IF row[s].rev = 0 THEN row[s] ELSE r]
    BY <1>4, <2>s DEF Activates
  <2>2. row' \in [Sessions -> Rows]
    BY <2>r, <2>e
  <2> QED BY <1>4, <2>1, <2>2 DEF Activates
<1> QED BY <1>0, <1>1, <1>2, <1>3, <1>4

\* A process that saves is the only one at the lock, with the version it wrote.
LEMMA CopyStepLock ==
  ASSUME Typed, HeldByOne, CopyNext
  PROVE  HeldByOne'
<1>t. op \in [Procs -> Ops] /\ versions \in [Sessions -> Seq(Versions)]
  BY DEF Typed, LegacyTypeOK, SessionCopyTypeOK
<1>0. PICK p \in Procs :
        \/ \E s \in Sessions, status \in Statuses, next \in Nexts : Saves(p, s, status, next)
        \/ \E o \in Ops : LeavesTheTable(p, o) \/ Copies(p, o)
        \/ Activates(p)
  BY StepKinds
<1>1. CASE \E s \in Sessions, status \in Statuses, next \in Nexts : Saves(p, s, status, next)
  <2>1. PICK s \in Sessions, status \in Statuses, next \in Nexts : Saves(p, s, status, next)
    BY <1>1
  <2> DEFINE o == [at |-> "shadow", session |-> s, rev |-> Revision(s) + 1, next |-> next]
  <2>2. op'[p] = o /\ \A q \in Procs \ {p} : op'[q] = op[q]
    BY <1>t, <2>1 DEF Saves
  <2>3. /\ Revision(s)' = Revision(s) + 1
        /\ \A t \in Sessions \ {s} : Revision(t)' = Revision(t)
    BY <2>1, SavedVersions
  <2>4. \A q \in Procs : op[q].at = "shadow" => op[q].session # s
    BY <2>1 DEF Saves, Locked
  <2>5. Revision(s) \in Nat
    BY RevisionType
  <2>6. ASSUME NEW q \in Procs, op'[q].at = "shadow"
        PROVE  /\ op'[q].rev >= 1
               /\ op'[q].session = s => q = p
    <3>1. CASE q = p
      BY <2>2, <2>5, <3>1
    <3>2. CASE q # p
      <4>1. op'[q] = op[q] /\ op[q].session # s /\ op[q].session \in Sessions
        BY <2>2, <2>4, <2>6, <3>2 DEF Typed, OpsAreSound, Sound
      <4>2. op[q].rev = Revision(op[q].session) /\ op[q].rev >= 1
        BY <2>6, <4>1 DEF HeldByOne, At
      <4> QED BY <2>3, <4>1, <4>2
    <3> QED BY <3>1, <3>2
  <2>7. ASSUME NEW q \in Procs, op'[q].at = "shadow"
        PROVE  op'[q].rev = Len(versions'[op'[q].session])
    <3>1. CASE q = p
      BY <2>2, <2>3, <3>1 DEF Revision
    <3>2. CASE q # p
      <4>1. op'[q] = op[q] /\ op[q].session \in Sessions \ {s}
        BY <2>2, <2>4, <2>7, <3>2 DEF Typed, OpsAreSound, Sound
      <4>2. op[q].rev = Revision(op[q].session)
        BY <2>7, <4>1 DEF HeldByOne, At
      <4>3. versions'[op[q].session] = versions[op[q].session]
        BY <2>1, <4>1, SavedVersions
      <4> QED BY <4>1, <4>2, <4>3 DEF Revision
    <3> QED BY <3>1, <3>2
  <2>8. ASSUME NEW q \in Procs, NEW r \in Procs, op'[q].at = "shadow", op'[r].at = "shadow",
               op'[r].session = op'[q].session
        PROVE  r = q
    <3>1. CASE q = p
      BY <2>2, <2>6, <2>8, <3>1
    <3>2. CASE q # p /\ r = p
      BY <2>2, <2>6, <2>8, <3>2
    <3>3. CASE q # p /\ r # p
      BY <2>2, <2>8, <3>3 DEF HeldByOne, At
    <3> QED BY <3>1, <3>2, <3>3
  <2> QED BY <2>6, <2>7, <2>8 DEF HeldByOne, At, Revision
<1>2. ASSUME NEW o \in Ops, MovesOn(p, o), UNCHANGED versions PROVE HeldByOne'
  <2>1. op'[p] = o /\ o.at # "shadow" /\ \A q \in Procs \ {p} : op'[q] = op[q]
    BY <1>t, <1>2 DEF MovesOn
  <2> QED BY <1>2, <2>1 DEF HeldByOne, At, Revision
<1>3. CASE \E o \in Ops : LeavesTheTable(p, o) \/ Copies(p, o)
  BY <1>2, <1>3 DEF LeavesTheTable, Copies
<1>4. CASE Activates(p)
  BY <1>2, <1>4, IdleIsSound DEF Activates
<1> QED BY <1>0, <1>1, <1>3, <1>4

\* The revision of a session never goes back, and its versions stay.
LEMMA CopyStepVersions ==
  ASSUME Typed, CopyNext
  PROVE  \A s \in Sessions :
            /\ Revision(s)' \in Nat
            /\ Revision(s)' >= Revision(s)
            /\ \A n \in 1..Revision(s) : versions'[s][n] = versions[s][n]
<1>0. PICK p \in Procs :
        \/ \E s \in Sessions, status \in Statuses, next \in Nexts : Saves(p, s, status, next)
        \/ \E o \in Ops : LeavesTheTable(p, o) \/ Copies(p, o)
        \/ Activates(p)
  BY StepKinds
<1>r. \A s \in Sessions : Revision(s) \in Nat
  BY RevisionType
<1>1. CASE \E s \in Sessions, status \in Statuses, next \in Nexts : Saves(p, s, status, next)
  <2>1. PICK s \in Sessions, status \in Statuses, next \in Nexts : Saves(p, s, status, next)
    BY <1>1
  <2>2. /\ Revision(s)' = Revision(s) + 1
        /\ \A n \in 1..Revision(s) : versions'[s][n] = versions[s][n]
        /\ \A t \in Sessions \ {s} : versions'[t] = versions[t] /\ Revision(t)' = Revision(t)
    BY <2>1, SavedVersions
  <2>3. ASSUME NEW t \in Sessions
        PROVE  /\ Revision(t)' \in Nat
               /\ Revision(t)' >= Revision(t)
               /\ \A n \in 1..Revision(t) : versions'[t][n] = versions[t][n]
    <3>1. CASE t = s
      <4>1. Revision(t)' = Revision(t) + 1
        BY <2>2, <3>1 DEF Revision
      <4> QED BY <1>r, <2>2, <3>1, <4>1
    <3>2. CASE t # s
      <4>1. t \in Sessions \ {s}
        BY <3>2
      <4>2. versions'[t] = versions[t] /\ Revision(t)' = Revision(t)
        BY <2>2, <4>1
      <4>3. Revision(t) \in Nat
        BY <1>r
      <4> QED BY <4>2, <4>3
    <3> QED BY <3>1, <3>2
  <2> QED BY <2>3
<1>2. CASE ~ \E s \in Sessions, status \in Statuses, next \in Nexts : Saves(p, s, status, next)
  <2>1. versions' = versions
    BY <1>0, <1>2 DEF LeavesTheTable, Copies, Activates
  <2> QED BY <1>r, <2>1 DEF Revision
<1> QED BY <1>1, <1>2

\* No process takes a row back, and what a row says stays earned.
LEMMA CopyStepRows ==
  ASSUME Typed, HeldByOne, RowStatusIsEarned, CopyNext
  PROVE  /\ RowStatusIsEarned'
         /\ \A s \in Sessions : row'[s].rev >= row[s].rev
<1>t. /\ op \in [Procs -> Ops] /\ versions \in [Sessions -> Seq(Versions)]
      /\ row \in [Sessions -> Rows]
      /\ \A s \in Sessions : row[s].rev \in Nat
  BY DEF Typed, LegacyTypeOK, SessionCopyTypeOK, Rows
<1>0. PICK p \in Procs :
        \/ \E s \in Sessions, status \in Statuses, next \in Nexts : Saves(p, s, status, next)
        \/ \E o \in Ops : LeavesTheTable(p, o) \/ Copies(p, o)
        \/ Activates(p)
  BY StepKinds
<1>v. \A s \in Sessions :
         /\ Len(versions'[s]) \in Nat /\ Len(versions'[s]) >= Len(versions[s])
         /\ \A n \in 1..Len(versions[s]) : versions'[s][n] = versions[s][n]
         /\ Len(versions[s]) \in Nat
  BY CopyStepVersions, RevisionType DEF Revision
<1>1. CASE UNCHANGED row
  <2>1. ASSUME NEW s \in Sessions, row[s].rev > 0
        PROVE  /\ row[s].rev <= Len(versions'[s])
               /\ row[s].status \in {versions'[s][row[s].rev].status, "active"}
    <3>1. row[s].rev \in 1..Len(versions[s])
      BY <1>t, <1>v, <2>1 DEF RowStatusIsEarned, Revision
    <3> QED BY <1>t, <1>v, <2>1, <3>1 DEF RowStatusIsEarned
  <2> QED BY <1>1, <1>t, <2>1 DEF RowStatusIsEarned, Revision
<1>2. CASE \E o \in Ops : Copies(p, o)
  <2>1. PICK o \in Ops : Copies(p, o)
    BY <1>2
  <2> DEFINE s == op[p].session
             n == op[p].rev
  <2>2. s \in Sessions /\ n = Revision(s) /\ n >= 1
    BY <2>1 DEF Copies, HeldByOne, Typed, OpsAreSound, Sound, At
  <2>3. row'[s].rev = n /\ row'[s].status = versions[s][n].status
    BY <1>t, <2>1, <2>2 DEF Copies
  <2>4. \A t \in Sessions \ {s} : row'[t] = row[t]
    BY <1>t, <2>1, <2>2 DEF Copies
  <2>5. versions' = versions
    BY <2>1 DEF Copies
  <2>6. row[s].rev <= n
    BY <1>t, <1>v, <2>2 DEF RowStatusIsEarned, Revision
  <2>7. ASSUME NEW t \in Sessions PROVE row'[t].rev >= row[t].rev
    BY <1>t, <2>2, <2>3, <2>4, <2>6
  <2>8. RowStatusIsEarned'
    <3> SUFFICES ASSUME NEW t \in Sessions, row'[t].rev > 0
                 PROVE  /\ row'[t].rev <= Len(versions'[t])
                        /\ row'[t].status \in {versions'[t][row'[t].rev].status, "active"}
      BY DEF RowStatusIsEarned, Revision
    <3>1. CASE t = s
      BY <1>v, <2>2, <2>3, <2>5, <3>1 DEF Revision
    <3>2. CASE t # s
      BY <2>4, <2>5, <3>2 DEF RowStatusIsEarned, Revision
    <3> QED BY <3>1, <3>2
  <2> QED BY <2>7, <2>8
<1>3. CASE Activates(p)
  <2> DEFINE s == op[p].session
  <2>1. s \in Sessions
    BY <1>3 DEF Activates, At, Typed, OpsAreSound, Sound
  <2>2. \A t \in Sessions \ {s} : row'[t] = row[t]
    BY <1>3, <1>t, <2>1 DEF Activates
  <2>3. row'[s] = IF row[s].rev = 0 THEN row[s] ELSE [row[s] EXCEPT !.status = "active", !.at = Utc]
    BY <1>3, <1>t, <2>1 DEF Activates
  <2>4. row'[s].rev = row[s].rev /\ (row[s].rev = 0 \/ row'[s].status = "active")
    <3>1. row[s] \in Rows
      BY <1>t, <2>1
    <3> QED BY <2>3, <3>1 DEF Rows
  <2>5. versions' = versions
    BY <1>3 DEF Activates
  <2>6. ASSUME NEW t \in Sessions PROVE row'[t].rev >= row[t].rev
    <3>1. row[t].rev \in Nat
      BY <1>t
    <3>2. row'[t].rev = row[t].rev
      BY <2>2, <2>4
    <3> QED BY <3>1, <3>2
  <2>7. RowStatusIsEarned'
    <3> SUFFICES ASSUME NEW t \in Sessions, row'[t].rev > 0
                 PROVE  /\ row'[t].rev <= Len(versions[t])
                        /\ row'[t].status \in {versions[t][row'[t].rev].status, "active"}
      BY <2>5 DEF RowStatusIsEarned, Revision
    <3>1. CASE t = s
      BY <1>t, <2>4, <3>1 DEF RowStatusIsEarned, Revision
    <3>2. CASE t # s
      BY <2>2, <3>2 DEF RowStatusIsEarned, Revision
    <3> QED BY <3>1, <3>2
  <2> QED BY <2>6, <2>7
<1>4. CASE (\E s \in Sessions, status \in Statuses, next \in Nexts : Saves(p, s, status, next))
           \/ (\E o \in Ops : LeavesTheTable(p, o))
  <2>1. UNCHANGED row
    BY <1>4 DEF Saves, LeavesTheTable
  <2> QED BY <1>1, <2>1
<1> QED BY <1>0, <1>2, <1>3, <1>4

-----------------------------------------------------------------------------
(* The steps of the importer, of the writers of the files of runs and of   *)
(* the recovery of a server                                                *)

\* Steps that only move the pass on.
MovesThePass == UNCHANGED <<copyVars, runFile, runRow, imported>>

LEMMA PassSteps ==
  ASSUME BasicInv,
         \/ StartPass \/ EndPass \/ ReadMapping \/ ImportFails
         \/ \E s \in Sessions : ReadSession(s)
         \/ \E k \in RunFiles : ReadRun(k)
         \/ \E key \in Keys : ReadFails(key)
  PROVE  MovesThePass /\ BasicInv'
<1> USE DEF MovesThePass
<1>t. /\ LegacyTypeOK /\ left \subseteq Keys /\ ListedIsThere /\ HeldIsThere
      /\ mapping \in Mappings \cup {None}
      /\ runFile \in [RunFiles -> Seq(Int)]
  BY DEF BasicInv, Typed, LegacyTypeOK, SessionCopyTypeOK
<1>u. ASSUME MovesThePass,
             left' \subseteq Keys, ListedIsThere', HeldIsThere',
             \/ pass' \in {"idle", "reading"} /\ held' = None
             \/ pass' = "session" /\ held' \in HeldSessions
             \/ pass' = "mapping" /\ held' \in Mappings
             \/ pass' = "run" /\ held' \in HeldRuns
      PROVE  BasicInv'
  <2>1. LegacyTypeOK' /\ OpsAreSound'
    BY <1>u DEF BasicInv, Typed, LegacyTypeOK, SessionCopyTypeOK, OpsAreSound, copyVars
  <2>2. HeldByOne' /\ RowStatusIsEarned' /\ RecordedIsImported'
    BY <1>u DEF BasicInv, HeldByOne, RowStatusIsEarned, RecordedIsImported, copyVars, At, Revision
  <2> QED BY <1>u, <2>1, <2>2 DEF BasicInv, Typed
<1>1. CASE StartPass
  <2>1. MovesThePass /\ pass' = "reading" /\ held' = held
    BY <1>1 DEF StartPass
  <2>2. held' = None
    BY <1>1, <1>t DEF StartPass, LegacyTypeOK
  <2>3. left' \subseteq Keys
    BY <1>1 DEF StartPass, Keys
  <2>4. ListedIsThere'
    <3>1. \A s \in Sessions : s \in left' => HasFile(s)
      BY <1>1, LegacyImportAssumption DEF StartPass
    <3>2. \A k \in RunFiles : k \in left' => runFile[k] # <<>>
      BY <1>1, LegacyImportAssumption DEF StartPass
    <3> QED BY <2>1, <3>1, <3>2 DEF ListedIsThere, HasFile, Revision, copyVars
  <2>5. HeldIsThere'
    BY <2>1 DEF HeldIsThere
  <2> QED BY <1>u, <2>1, <2>2, <2>3, <2>4, <2>5
<1>2. CASE EndPass
  <2>1. MovesThePass /\ pass' = "idle" /\ held' = None /\ left' = {}
    BY <1>2 DEF EndPass
  <2>2. left' \subseteq Keys /\ ListedIsThere' /\ HeldIsThere'
    BY <2>1 DEF ListedIsThere, HeldIsThere
  <2> QED BY <1>u, <2>1, <2>2
<1>3. CASE ImportFails
  <2>1. MovesThePass /\ pass' = "reading" /\ held' = None /\ left' = left
    BY <1>3 DEF ImportFails, Written
  <2>2. ListedIsThere' /\ HeldIsThere'
    BY <1>t, <2>1 DEF ListedIsThere, HeldIsThere, HasFile, Revision, copyVars
  <2> QED BY <1>u, <1>t, <2>1, <2>2
<1>4. ASSUME NEW key \in Keys, MovesThePass, pass = "reading", left' = left \ {key},
             pass' = pass /\ held' = held
      PROVE  BasicInv'
  <2>1. held' = None
    BY <1>4, <1>t DEF LegacyTypeOK
  <2>2. ListedIsThere' /\ HeldIsThere'
    BY <1>4, <1>t DEF ListedIsThere, HeldIsThere, HasFile, Revision, copyVars
  <2> QED BY <1>u, <1>4, <1>t, <2>1, <2>2
<1>5. CASE \E key \in Keys : ReadFails(key)
  BY <1>4, <1>5 DEF ReadFails
<1>6. CASE \E s \in Sessions : ReadSession(s)
  <2>1. PICK s \in Sessions : ReadSession(s)
    BY <1>6
  <2>2. /\ MovesThePass /\ pass = "reading" /\ s \in left /\ left' = left \ {s}
        /\ \/ pass' = pass /\ held' = held
           \/ pass' = "session" /\ held' = [session |-> s, rev |-> Revision(s)]
    BY <2>1 DEF ReadSession, Read
  <2>3. CASE pass' = pass /\ held' = held
    <3>1. s \in Keys
      BY DEF Keys
    <3> QED BY <1>4, <2>2, <2>3, <3>1
  <2>4. CASE pass' = "session" /\ held' = [session |-> s, rev |-> Revision(s)]
    <3>1. Revision(s) \in Nat /\ Revision(s) > 0
      BY <1>t, <2>2, RevisionType DEF ListedIsThere, HasFile, BasicInv
    <3>2. held' \in HeldSessions
      BY <2>4, <3>1 DEF HeldSessions
    <3>3. HeldIsThere'
      BY <2>2, <2>4, <3>1 DEF HeldIsThere, Revision, copyVars
    <3>4. ListedIsThere'
      BY <1>t, <2>2 DEF ListedIsThere, HasFile, Revision, copyVars
    <3> QED BY <1>u, <1>t, <2>2, <2>4, <3>2, <3>3, <3>4
  <2> QED BY <2>2, <2>3, <2>4
<1>7. CASE ReadMapping
  <2>1. /\ MovesThePass /\ pass = "reading" /\ left' = left \ {"mapping"} /\ mapping # None
        /\ \/ pass' = pass /\ held' = held
           \/ pass' = "mapping" /\ held' = mapping
    BY <1>7 DEF ReadMapping, Read
  <2>2. CASE pass' = pass /\ held' = held
    <3>1. "mapping" \in Keys
      BY DEF Keys
    <3> QED BY <1>4, <2>1, <2>2, <3>1
  <2>3. CASE pass' = "mapping" /\ held' = mapping
    <3>1. ListedIsThere' /\ HeldIsThere'
      BY <1>t, <2>1, <2>3 DEF ListedIsThere, HeldIsThere, HasFile, Revision, copyVars
    <3> QED BY <1>u, <1>t, <2>1, <2>3, <3>1
  <2> QED BY <2>1, <2>2, <2>3
<1>8. CASE \E k \in RunFiles : ReadRun(k)
  <2>1. PICK k \in RunFiles : ReadRun(k)
    BY <1>8
  <2>2. /\ MovesThePass /\ pass = "reading" /\ k \in left /\ left' = left \ {k}
        /\ \/ pass' = pass /\ held' = held
           \/ pass' = "run" /\ held' = [run |-> k, rev |-> Len(runFile[k])]
    BY <2>1 DEF ReadRun, Read
  <2>3. CASE pass' = pass /\ held' = held
    <3>1. k \in Keys
      BY DEF Keys
    <3> QED BY <1>4, <2>2, <2>3, <3>1
  <2>4. CASE pass' = "run" /\ held' = [run |-> k, rev |-> Len(runFile[k])]
    <3>1. runFile[k] \in Seq(Int) /\ runFile[k] # <<>>
      BY <1>t, <2>2 DEF ListedIsThere
    <3>2. Len(runFile[k]) \in Nat /\ Len(runFile[k]) > 0
      BY <3>1
    <3>3. held' \in HeldRuns
      BY <2>4, <3>2 DEF HeldRuns
    <3>4. ListedIsThere' /\ HeldIsThere'
      BY <1>t, <2>2, <2>4, <3>2 DEF ListedIsThere, HeldIsThere, HasFile, Revision, copyVars
    <3> QED BY <1>u, <1>t, <2>2, <2>4, <3>3, <3>4
  <2> QED BY <2>2, <2>3, <2>4
<1>9. MovesThePass
  BY DEF StartPass, EndPass, ReadMapping, ImportFails, ReadSession, ReadRun, ReadFails, Read
<1> QED BY <1>1, <1>2, <1>3, <1>5, <1>6, <1>7, <1>8, <1>9

\* The transactions of the importer, on what it holds.
LEMMA RecordedSession ==
  ASSUME imported \in Hashes, NEW s \in Sessions, NEW n \in Nat
  PROVE  [imported EXCEPT !.sessions[s] = n] \in Hashes
<1>1. [imported.sessions EXCEPT ![s] = n] \in [Sessions -> Nat]
  BY DEF Hashes
<1> QED BY <1>1 DEF Hashes

LEMMA ImportSessionStep ==
  ASSUME BasicInv, ImportSession
  PROVE  BasicInv'
<1> DEFINE s == held.session
           n == held.rev
           v == versions[s][n]
           r == [rev |-> n, status |-> v.status, at |-> v.at]
<1>t. /\ LegacyTypeOK /\ SessionCopyTypeOK /\ OpsAreSound
      /\ row \in [Sessions -> Rows] /\ imported \in Hashes
      /\ versions \in [Sessions -> Seq(Versions)]
  BY DEF BasicInv, Typed, LegacyTypeOK, SessionCopyTypeOK
<1>1. s \in Sessions /\ n \in 1..Revision(s) /\ Revision(s) \in Nat
  <2>1. held \in HeldSessions
    BY <1>t DEF ImportSession, LegacyTypeOK
  <2>2. s \in Sessions
    BY <2>1 DEF HeldSessions
  <2> QED BY <2>2, RevisionType DEF BasicInv, HeldIsThere, ImportSession
<1>2. v \in Versions /\ r \in Rows
  <2>1. v \in Versions
    BY <1>1, VersionType DEF BasicInv
  <2> QED BY <1>1, <2>1 DEF Versions, Rows
<1>3. \/ row' = row /\ imported' = imported
      \/ row' = [row EXCEPT ![s] = r] /\ imported' = [imported EXCEPT !.sessions[s] = n]
  BY DEF ImportSession
<1>4. /\ pass' = "reading" /\ held' = None
      /\ UNCHANGED <<clock, versions, mapping, op, missed, runFile, runRow, left>>
  BY DEF ImportSession, Written
<1>5. row' \in [Sessions -> Rows] /\ imported' \in Hashes
  <2>1. n \in Nat
    BY <1>1
  <2>2. [imported EXCEPT !.sessions[s] = n] \in Hashes
    BY <1>t, <1>1, <2>1, RecordedSession
  <2> QED BY <1>t, <1>2, <1>3, <2>2
<1>6. LegacyTypeOK' /\ OpsAreSound'
  BY <1>t, <1>4, <1>5 DEF LegacyTypeOK, SessionCopyTypeOK, OpsAreSound
<1>7. HeldByOne' /\ ListedIsThere' /\ HeldIsThere'
  BY <1>4 DEF BasicInv, HeldByOne, ListedIsThere, HeldIsThere, HasFile, Revision, At
<1>8. CASE row' = row /\ imported' = imported
  <2>1. RowStatusIsEarned' /\ RecordedIsImported'
    BY <1>4, <1>8 DEF BasicInv, RowStatusIsEarned, RecordedIsImported, Revision
  <2> QED BY <1>6, <1>7, <2>1 DEF BasicInv, Typed
<1>9. CASE row' = [row EXCEPT ![s] = r] /\ imported' = [imported EXCEPT !.sessions[s] = n]
  <2>1. row'[s] = r /\ \A t \in Sessions \ {s} : row'[t] = row[t]
    BY <1>t, <1>1, <1>9
  <2>2. /\ imported'.sessions[s] = n
        /\ \A t \in Sessions \ {s} : imported'.sessions[t] = imported.sessions[t]
        /\ imported'.mapping = imported.mapping /\ imported'.runs = imported.runs
    BY <1>t, <1>1, <1>9 DEF Hashes
  <2>3. RowStatusIsEarned'
    <3> SUFFICES ASSUME NEW t \in Sessions, row'[t].rev > 0
                 PROVE  /\ row'[t].rev <= Revision(t)
                        /\ row'[t].status \in {versions[t][row'[t].rev].status, "active"}
      BY <1>4 DEF RowStatusIsEarned, Revision
    <3>1. CASE t = s
      BY <1>1, <2>1, <3>1
    <3>2. CASE t # s
      BY <2>1, <3>2 DEF BasicInv, RowStatusIsEarned
    <3> QED BY <3>1, <3>2
  <2>4. \A t \in Sessions : imported'.sessions[t] <= row'[t].rev
    <3> SUFFICES ASSUME NEW t \in Sessions PROVE imported'.sessions[t] <= row'[t].rev
      OBVIOUS
    <3>1. CASE t = s
      BY <1>1, <2>1, <2>2, <3>1
    <3>2. CASE t # s
      BY <2>1, <2>2, <3>2 DEF BasicInv, RecordedIsImported
    <3> QED BY <3>1, <3>2
  <2>5. imported'.mapping # None => row'[imported'.mapping.session].rev > 0
    <3> SUFFICES ASSUME imported.mapping # None PROVE row'[imported.mapping.session].rev > 0
      BY <2>2
    <3> DEFINE t == imported.mapping.session
    <3>1. t \in Sessions /\ row[t].rev > 0
      BY <1>t DEF Hashes, Mappings, BasicInv, RecordedIsImported
    <3>2. CASE t = s
      BY <1>1, <2>1, <3>2
    <3>3. CASE t # s
      BY <2>1, <3>1, <3>3
    <3> QED BY <3>2, <3>3
  <2>6. RecordedIsImported'
    BY <1>4, <2>2, <2>4, <2>5 DEF BasicInv, RecordedIsImported
  <2> QED BY <1>6, <1>7, <2>3, <2>6 DEF BasicInv, Typed
<1> QED BY <1>3, <1>8, <1>9

LEMMA ImportMappingStep ==
  ASSUME BasicInv, ImportMapping
  PROVE  BasicInv'
<1> DEFINE s == held.session
           r == [row[s] EXCEPT !.status = "active", !.at = held.at]
<1>t. /\ LegacyTypeOK /\ SessionCopyTypeOK /\ OpsAreSound
      /\ row \in [Sessions -> Rows] /\ imported \in Hashes
  BY DEF BasicInv, Typed, LegacyTypeOK, SessionCopyTypeOK
<1>1. held \in Mappings /\ s \in Sessions /\ held.at \in Int
  BY <1>t DEF ImportMapping, LegacyTypeOK, Mappings
<1>2. \/ row' = row /\ imported' = imported
      \/ /\ row[s].rev # 0
         /\ row' = [row EXCEPT ![s] = r]
         /\ imported' = [imported EXCEPT !.mapping = held]
  BY <1>t, <1>1 DEF ImportMapping
<1>3. /\ pass' = "reading" /\ held' = None
      /\ UNCHANGED <<clock, versions, mapping, op, missed, runFile, runRow, left>>
  BY DEF ImportMapping, Written
<1>4. row[s] \in Rows /\ r \in Rows /\ r.rev = row[s].rev /\ r.status = "active" /\ row[s].rev \in Nat
  <2>1. row[s] \in Rows
    BY <1>t, <1>1
  <2>2. r \in Rows
    BY <1>1, <2>1, ActivatedRow
  <2> QED BY <2>1, <2>2 DEF Rows
<1> HIDE DEF r
<1>5. row' \in [Sessions -> Rows] /\ imported' \in Hashes
  <2>1. [imported EXCEPT !.mapping = held] \in Hashes
    BY <1>t, <1>1 DEF Hashes
  <2> QED BY <1>t, <1>2, <1>4, <2>1
<1>6. LegacyTypeOK' /\ OpsAreSound'
  BY <1>t, <1>3, <1>5 DEF LegacyTypeOK, SessionCopyTypeOK, OpsAreSound
<1>7. HeldByOne' /\ ListedIsThere' /\ HeldIsThere'
  BY <1>3 DEF BasicInv, HeldByOne, ListedIsThere, HeldIsThere, HasFile, Revision, At
<1>8. CASE row' = row /\ imported' = imported
  <2>1. RowStatusIsEarned' /\ RecordedIsImported'
    BY <1>3, <1>8 DEF BasicInv, RowStatusIsEarned, RecordedIsImported, Revision
  <2> QED BY <1>6, <1>7, <2>1 DEF BasicInv, Typed
<1>9. CASE /\ row[s].rev # 0
           /\ row' = [row EXCEPT ![s] = r]
           /\ imported' = [imported EXCEPT !.mapping = held]
  <2>1. row'[s] = r /\ \A t \in Sessions \ {s} : row'[t] = row[t]
    BY <1>t, <1>1, <1>9
  <2>2. \A t \in Sessions : row'[t].rev = row[t].rev
    BY <1>4, <2>1
  <2>3. /\ imported'.sessions = imported.sessions /\ imported'.runs = imported.runs
        /\ imported'.mapping = held
    BY <1>t, <1>9 DEF Hashes
  <2>4. RowStatusIsEarned'
    <3> SUFFICES ASSUME NEW t \in Sessions, row[t].rev > 0
                 PROVE  /\ row[t].rev <= Revision(t)
                        /\ row'[t].status \in {versions[t][row[t].rev].status, "active"}
      BY <1>3, <2>2 DEF RowStatusIsEarned, Revision
    <3>1. CASE t = s
      BY <1>4, <2>1, <3>1 DEF BasicInv, RowStatusIsEarned
    <3>2. CASE t # s
      BY <2>1, <3>2 DEF BasicInv, RowStatusIsEarned
    <3> QED BY <3>1, <3>2
  <2>5. row'[held.session].rev > 0
    BY <1>1, <1>4, <1>9, <2>2
  <2>6. RecordedIsImported'
    BY <1>3, <2>2, <2>3, <2>5 DEF BasicInv, RecordedIsImported
  <2> QED BY <1>6, <1>7, <2>4, <2>6 DEF BasicInv, Typed
<1> QED BY <1>2, <1>8, <1>9

LEMMA RunStep ==
  ASSUME BasicInv, ImportRun \/ Recover \/ \E k \in RunFiles : WriteRunFile(k)
  PROVE  BasicInv'
<1>t. /\ LegacyTypeOK /\ SessionCopyTypeOK /\ OpsAreSound
      /\ runRow \in [RunFiles -> RunRows] /\ imported \in Hashes
      /\ runFile \in [RunFiles -> Seq(Int)] /\ clock \in Nat
      /\ left \subseteq Keys
  BY DEF BasicInv, Typed, LegacyTypeOK, SessionCopyTypeOK
<1>1. CASE ImportRun
  <2> DEFINE k == held.run
             n == held.rev
             r == [rev |-> n, at |-> runFile[k][n], status |-> ImportedStatus[k]]
  <2>1. held \in HeldRuns /\ k \in RunFiles /\ n \in 1..Len(runFile[k])
    BY <1>t, <1>1 DEF ImportRun, LegacyTypeOK, HeldRuns, BasicInv, HeldIsThere
  <2>2. r \in RunRows
    <3>1. runFile[k] \in Seq(Int) /\ n \in 1..Len(runFile[k]) /\ Len(runFile[k]) \in Nat
      BY <1>t, <2>1
    <3>2. runFile[k][n] \in Int /\ n \in Nat
      BY <3>1
    <3>3. ImportedStatus[k] \in {"waiting_for_approval", "completed", "running"}
      BY <2>1, LegacyImportAssumption
    <3> QED BY <3>2, <3>3 DEF RunRows
  <2>3. \/ runRow' = runRow /\ imported' = imported
        \/ runRow' = [runRow EXCEPT ![k] = r] /\ imported' = [imported EXCEPT !.runs[k] = n]
    BY <1>1 DEF ImportRun
  <2>4. UNCHANGED <<copyVars, runFile, left>> /\ pass' = "reading" /\ held' = None
    BY <1>1 DEF ImportRun, Written
  <2>5. n \in Nat
    <3>1. runFile[k] \in Seq(Int)
      BY <1>t, <2>1
    <3> QED BY <2>1, <3>1
  <2>6. runRow' \in [RunFiles -> RunRows] /\ imported' \in Hashes
    <3>1. [imported EXCEPT !.runs[k] = n] \in Hashes
      BY <1>t, <2>1, <2>5 DEF Hashes
    <3> QED BY <1>t, <2>2, <2>3, <3>1
  <2>7. LegacyTypeOK' /\ OpsAreSound'
    BY <1>t, <2>4, <2>6 DEF LegacyTypeOK, SessionCopyTypeOK, OpsAreSound, copyVars
  <2>8. HeldByOne' /\ ListedIsThere' /\ HeldIsThere' /\ RowStatusIsEarned'
    BY <2>4 DEF BasicInv, HeldByOne, ListedIsThere, HeldIsThere, RowStatusIsEarned,
                HasFile, Revision, At, copyVars
  <2>9. RecordedIsImported'
    <3>1. CASE runRow' = runRow /\ imported' = imported
      BY <2>4, <3>1 DEF BasicInv, RecordedIsImported, copyVars
    <3>2. CASE runRow' = [runRow EXCEPT ![k] = r] /\ imported' = [imported EXCEPT !.runs[k] = n]
      <4>1. imported'.sessions = imported.sessions /\ imported'.mapping = imported.mapping
        BY <1>t, <3>2 DEF Hashes
      <4>2. /\ imported'.runs[k] = n /\ runRow'[k].rev = n
            /\ \A j \in RunFiles \ {k} : imported'.runs[j] = imported.runs[j] /\ runRow'[j] = runRow[j]
        BY <1>t, <2>1, <3>2 DEF Hashes
      <4>3. \A j \in RunFiles : imported'.runs[j] <= runRow'[j].rev
        <5> SUFFICES ASSUME NEW j \in RunFiles PROVE imported'.runs[j] <= runRow'[j].rev
          OBVIOUS
        <5>1. CASE j = k
          BY <2>5, <4>2, <5>1
        <5>2. CASE j # k
          BY <4>2, <5>2 DEF BasicInv, RecordedIsImported
        <5> QED BY <5>1, <5>2
      <4> QED BY <2>4, <4>1, <4>3 DEF BasicInv, RecordedIsImported, copyVars
    <3> QED BY <2>3, <3>1, <3>2
  <2> QED BY <2>7, <2>8, <2>9 DEF BasicInv, Typed
<1>2. CASE Recover
  <2>0. /\ UNCHANGED <<versions, mapping, row, op, missed>>
        /\ UNCHANGED <<runFile, imported, pass, left, held>>
        /\ clock' = clock + 1
    BY <1>2 DEF Recover, Stamp
  <2>1. /\ UNCHANGED <<versions, mapping, row, op, missed, runFile, imported, pass, left, held>>
        /\ clock' = clock + 1
        /\ runRow' = [k \in RunFiles |->
                     IF runRow[k].rev > 0 /\ runRow[k].status = "running"
                     THEN [runRow[k] EXCEPT !.status = "failed", !.at = Utc]
                     ELSE runRow[k]]
    BY <1>2 DEF Recover, Stamp
  <2>2. ASSUME NEW k \in RunFiles
        PROVE  runRow'[k] \in RunRows /\ runRow'[k].rev = runRow[k].rev
    <3>1. runRow[k] \in RunRows /\ Utc \in Int
      BY <1>t DEF Utc
    <3>2. runRow[k] = [rev |-> runRow[k].rev, at |-> runRow[k].at, status |-> runRow[k].status]
      BY <3>1 DEF RunRows
    <3>3. [runRow[k] EXCEPT !.status = "failed", !.at = Utc] \in RunRows
          /\ [runRow[k] EXCEPT !.status = "failed", !.at = Utc].rev = runRow[k].rev
      BY <3>1, <3>2 DEF RunRows
    <3> QED BY <2>1, <3>1, <3>3
  <2>3. runRow' \in [RunFiles -> RunRows]
    BY <2>1, <2>2
  <2>4. LegacyTypeOK' /\ OpsAreSound'
    <3>1. clock' \in Nat
      BY <1>t, <2>0
    <3>2. SessionCopyTypeOK'
      BY <1>t, <3>1, <2>0 DEF SessionCopyTypeOK
    <3>3. OpsAreSound'
      BY <1>t, <2>0 DEF OpsAreSound
    <3>4. LegacyTypeOK'
      BY <1>t, <2>0, <2>3, <3>2 DEF LegacyTypeOK
    <3> QED BY <3>3, <3>4
  <2>5. HeldByOne' /\ ListedIsThere' /\ HeldIsThere' /\ RowStatusIsEarned'
    BY <2>1 DEF BasicInv, HeldByOne, ListedIsThere, HeldIsThere, RowStatusIsEarned,
                HasFile, Revision, At
  <2>6. RecordedIsImported'
    BY <2>1, <2>2 DEF BasicInv, RecordedIsImported
  <2> QED BY <2>4, <2>5, <2>6 DEF BasicInv, Typed
<1>3. CASE \E k \in RunFiles : WriteRunFile(k)
  <2>1. PICK k \in RunFiles : WriteRunFile(k)
    BY <1>3
  <2>2. /\ UNCHANGED <<versions, mapping, row, op, missed, runRow, imported, pass, left, held>>
        /\ clock' = clock + 1
        /\ runFile' = [runFile EXCEPT ![k] = Append(runFile[k], Local)]
    BY <1>t, <2>1 DEF WriteRunFile, Stamp
  <2>3. /\ runFile[k] \in Seq(Int) /\ Local \in Int
        /\ Append(runFile[k], Local) \in Seq(Int)
        /\ Len(Append(runFile[k], Local)) = Len(runFile[k]) + 1
    <3>1. runFile[k] \in Seq(Int) /\ Local \in Int
      BY <1>t, SessionCopyAssumption DEF Local
    <3> QED BY <3>1
  <2>4. runFile' \in [RunFiles -> Seq(Int)]
    BY <1>t, <2>2, <2>3
  <2>5. LegacyTypeOK' /\ OpsAreSound'
    BY <1>t, <2>2, <2>4 DEF LegacyTypeOK, SessionCopyTypeOK, OpsAreSound
  <2>6. HeldByOne' /\ RowStatusIsEarned' /\ RecordedIsImported'
    BY <2>2 DEF BasicInv, HeldByOne, RowStatusIsEarned, RecordedIsImported, HasFile, Revision, At
  <2>7. \A j \in RunFiles : /\ Len(runFile[j]) \in Nat /\ Len(runFile'[j]) \in Nat
                            /\ Len(runFile'[j]) >= Len(runFile[j])
                            /\ (runFile[j] # <<>> => runFile'[j] # <<>>)
    <3> SUFFICES ASSUME NEW j \in RunFiles
                 PROVE /\ Len(runFile[j]) \in Nat /\ Len(runFile'[j]) \in Nat
                       /\ Len(runFile'[j]) >= Len(runFile[j])
                       /\ (runFile[j] # <<>> => runFile'[j] # <<>>)
      OBVIOUS
    <3>1. runFile[j] \in Seq(Int) /\ runFile'[j] \in Seq(Int)
      BY <1>t, <2>4
    <3>2. CASE j = k
      <4>1. runFile'[j] = Append(runFile[k], Local)
        BY <1>t, <2>2, <3>2
      <4>2. Len(runFile'[j]) = Len(runFile[j]) + 1 /\ Len(runFile[j]) \in Nat
        BY <2>3, <3>1, <3>2, <4>1
      <4> QED BY <3>1, <4>2
    <3>3. CASE j # k
      <4>1. runFile'[j] = runFile[j]
        BY <1>t, <2>2, <3>3
      <4> QED BY <3>1, <4>1
    <3> QED BY <3>2, <3>3
  <2>8. ListedIsThere'
    BY <2>2, <2>7 DEF BasicInv, ListedIsThere, HasFile, Revision
  <2>9. HeldIsThere'
    <3>1. pass = "session" => held.rev \in 1..Len(versions[held.session])
      BY DEF BasicInv, HeldIsThere, Revision
    <3>2. pass = "run" => held.run \in RunFiles /\ held.rev \in 1..Len(runFile[held.run])
      BY <1>t DEF BasicInv, HeldIsThere, LegacyTypeOK, HeldRuns
    <3>3. pass = "run" => held.rev \in 1..Len(runFile'[held.run])
      BY <2>7, <3>2
    <3> QED BY <2>2, <3>1, <3>3 DEF HeldIsThere, Revision
  <2> QED BY <2>5, <2>6, <2>8, <2>9 DEF BasicInv, Typed
<1> QED BY <1>1, <1>2, <1>3

LEMMA CopyStep ==
  ASSUME BasicInv, CopyNext, UNCHANGED importVars
  PROVE  BasicInv'
<1>1. Typed /\ HeldByOne /\ RowStatusIsEarned
  BY DEF BasicInv
<1>2. SessionCopyTypeOK' /\ OpsAreSound'
  BY <1>1, CopyStepTypes
<1>3. LegacyTypeOK'
  BY <1>1, <1>2 DEF Typed, LegacyTypeOK, importVars
<1>4. HeldByOne' /\ RowStatusIsEarned'
  BY <1>1, CopyStepLock, CopyStepRows
<1>5. \A s \in Sessions :
         /\ Len(versions[s]) \in Nat /\ Len(versions'[s]) \in Nat
         /\ Len(versions'[s]) >= Len(versions[s])
  BY <1>1, CopyStepVersions, RevisionType DEF Revision
<1>6. ListedIsThere'
  BY <1>5 DEF BasicInv, ListedIsThere, HasFile, Revision, importVars
<1>7. HeldIsThere'
  <2>1. pass = "session" => held.session \in Sessions /\ held.rev \in 1..Len(versions[held.session])
    BY <1>1 DEF BasicInv, HeldIsThere, Revision, Typed, LegacyTypeOK, HeldSessions
  <2>2. pass = "session" => held.rev \in 1..Len(versions'[held.session])
    BY <1>5, <2>1
  <2> QED BY <2>2 DEF BasicInv, HeldIsThere, Revision, importVars
<1>8. RecordedIsImported'
  <2>1. \A s \in Sessions : /\ row'[s].rev \in Nat /\ row[s].rev \in Nat
                            /\ row'[s].rev >= row[s].rev
    BY <1>1, <1>2, CopyStepRows DEF Typed, LegacyTypeOK, SessionCopyTypeOK, Rows
  <2>2. /\ \A s \in Sessions : imported.sessions[s] \in Nat
        /\ imported.mapping # None => imported.mapping.session \in Sessions
    BY <1>1 DEF Typed, LegacyTypeOK, Hashes, Mappings
  <2>3. \A s \in Sessions : imported.sessions[s] <= row'[s].rev
    BY <2>1, <2>2 DEF BasicInv, RecordedIsImported
  <2>4. imported.mapping # None => row'[imported.mapping.session].rev > 0
    BY <2>1, <2>2 DEF BasicInv, RecordedIsImported
  <2> QED BY <2>3, <2>4 DEF BasicInv, RecordedIsImported, importVars
<1> QED BY <1>2, <1>3, <1>4, <1>6, <1>7, <1>8 DEF BasicInv, Typed

LEMMA BasicInit == Init => BasicInv
<1> SUFFICES ASSUME Init PROVE BasicInv
  OBVIOUS
<1> USE DEF Init, CopyInit
<1>1. SessionCopyTypeOK
  <2>1. versions \in [Sessions -> Seq(Versions)]
    OBVIOUS
  <2>2. NoRow \in Rows
    BY DEF NoRow, Rows, Statuses
  <2> QED BY <2>1, <2>2, IdleIsSound DEF SessionCopyTypeOK
<1>2. LegacyTypeOK
  <2>1. NoRunRow \in RunRows
    BY DEF NoRunRow, RunRows
  <2>2. NothingImported \in Hashes
    BY DEF NothingImported, Hashes
  <2>3. runFile \in [RunFiles -> Seq(Int)]
    OBVIOUS
  <2> QED BY <1>1, <2>1, <2>2, <2>3 DEF LegacyTypeOK
<1>3. OpsAreSound
  BY IdleIsSound DEF OpsAreSound
<1>4. HeldByOne /\ ListedIsThere /\ HeldIsThere
  BY DEF HeldByOne, ListedIsThere, HeldIsThere, At, Idle
<1>5. RowStatusIsEarned /\ RecordedIsImported
  BY DEF RowStatusIsEarned, RecordedIsImported, NoRow, NoRunRow, NothingImported
<1> QED BY <1>2, <1>3, <1>4, <1>5 DEF BasicInv, Typed

\* What Next may be, in the groups the lemmas are about.
LEMMA NextKinds ==
  ASSUME Next
  PROVE  \/ CopyNext /\ UNCHANGED importVars
         \/ \/ StartPass \/ EndPass \/ ReadMapping \/ ImportFails
            \/ \E s \in Sessions : ReadSession(s)
            \/ \E k \in RunFiles : ReadRun(k)
            \/ \E key \in Keys : ReadFails(key)
         \/ ImportSession
         \/ ImportMapping
         \/ ImportRun \/ Recover \/ \E k \in RunFiles : WriteRunFile(k)
  BY DEF Next

LEMMA BasicStep == BasicInv /\ [Next]_vars => BasicInv'
<1> SUFFICES ASSUME BasicInv, [Next]_vars PROVE BasicInv'
  OBVIOUS
<1>1. CASE Next
  BY <1>1, NextKinds, CopyStep, PassSteps, ImportSessionStep, ImportMappingStep, RunStep
<1>2. CASE UNCHANGED vars
  <2>1. LegacyTypeOK' /\ OpsAreSound'
    BY <1>2 DEF BasicInv, Typed, LegacyTypeOK, SessionCopyTypeOK, OpsAreSound,
                vars, copyVars, importVars
  <2>2. HeldByOne' /\ ListedIsThere' /\ HeldIsThere' /\ RowStatusIsEarned' /\ RecordedIsImported'
    BY <1>2 DEF BasicInv, HeldByOne, ListedIsThere, HeldIsThere, RowStatusIsEarned,
                RecordedIsImported, HasFile, Revision, At, vars, copyVars, importVars
  <2> QED BY <2>1, <2>2 DEF BasicInv, Typed
<1> QED BY <1>1, <1>2

THEOREM BasicInvariant == Spec => []BasicInv
<1> QED BY BasicInit, BasicStep, PTL DEF Spec

(* The types of the files, the table, the operations and the pass: what an *)
(* operation has in hand is always a session that exists for it, and what  *)
(* the importer holds is what its place in the pass says.                  *)
THEOREM LegacyTypes == Spec => []LegacyTypeOK
<1>1. BasicInv => LegacyTypeOK
  BY DEF BasicInv, Typed
<1> QED BY <1>1, BasicInvariant, PTL

(* A row never claims a status its session did not have in the version the *)
(* row is a copy of (shadow_save, shadow_set_active, the importer).        *)
THEOREM RowStatusHolds == Spec => []RowStatusIsEarned
<1>1. BasicInv => RowStatusIsEarned
  BY DEF BasicInv
<1> QED BY <1>1, BasicInvariant, PTL

(* A recorded hash never hides content the table does not have.            *)
THEOREM RecordedHolds == Spec => []RecordedIsImported
<1>1. BasicInv => RecordedIsImported
  BY DEF BasicInv
<1> QED BY <1>1, BasicInvariant, PTL

-----------------------------------------------------------------------------
(* Stamps, where local time is not ahead of UTC                            *)

SessionsAreDated == VersionsAreDated /\ RowsAreDated /\ RowIsCurrent

RunsAreDated == RunFilesAreDated /\ RunRowsAreDated

LEMMA DatedParts == DatedInv <=> SessionsAreDated /\ RunsAreDated
  BY DEF DatedInv, SessionsAreDated, RunsAreDated

LEMMA SessionTypes ==
  ASSUME Typed
  PROVE  /\ clock \in Nat
         /\ op \in [Procs -> Ops]
         /\ row \in [Sessions -> Rows]
         /\ \A s \in Sessions :
               /\ row[s] \in Rows /\ row[s].rev \in Nat /\ row[s].at \in Int
               /\ Len(versions[s]) \in Nat
               /\ \A n \in 1..Len(versions[s]) : versions[s][n].at \in Int
<1>1. ASSUME NEW s \in Sessions, NEW n \in 1..Len(versions[s]) PROVE versions[s][n].at \in Int
  BY VersionType DEF Revision, Versions
<1>2. ASSUME NEW s \in Sessions PROVE Len(versions[s]) \in Nat
  BY RevisionType DEF Revision
<1>3. clock \in Nat /\ op \in [Procs -> Ops] /\ row \in [Sessions -> Rows]
  BY DEF Typed, LegacyTypeOK, SessionCopyTypeOK
<1> QED BY <1>1, <1>2, <1>3 DEF Rows

\* Whatever leaves the files alone keeps their stamps in the past.
LEMMA TimePasses ==
  ASSUME Typed, clock' \in {clock, clock + 1}
  PROVE  /\ VersionsAreDated /\ UNCHANGED versions => VersionsAreDated'
         /\ RunFilesAreDated /\ UNCHANGED runFile => RunFilesAreDated'
<1>1. clock \in Nat /\ Offset \in Int /\ clock + Offset <= clock' + Offset /\ clock' \in Nat
  BY SessionTypes, SessionCopyAssumption
<1>2. ASSUME VersionsAreDated, UNCHANGED versions PROVE VersionsAreDated'
  <2> SUFFICES ASSUME NEW s \in Sessions, NEW n \in 1..Len(versions[s])
               PROVE  /\ versions[s][n].at <= clock' + Offset
                      /\ \A m \in 1..(n - 1) : versions[s][m].at < versions[s][n].at
    BY <1>2 DEF VersionsAreDated, Revision
  <2>1. versions[s][n].at \in Int
    BY SessionTypes
  <2>2. /\ versions[s][n].at <= clock + Offset
        /\ \A m \in 1..(n - 1) : versions[s][m].at < versions[s][n].at
    BY <1>2 DEF VersionsAreDated, Revision
  <2> QED BY <1>1, <2>1, <2>2
<1>3. ASSUME RunFilesAreDated, UNCHANGED runFile PROVE RunFilesAreDated'
  <2> SUFFICES ASSUME NEW k \in RunFiles, NEW n \in 1..Len(runFile[k])
               PROVE  /\ runFile[k][n] <= clock' + Offset
                      /\ \A m \in 1..(n - 1) : runFile[k][m] < runFile[k][n]
    BY <1>3 DEF RunFilesAreDated
  <2>1. runFile[k] \in Seq(Int)
    BY DEF Typed, LegacyTypeOK
  <2>2. runFile[k][n] \in Int
    BY <2>1
  <2>3. /\ runFile[k][n] <= clock + Offset
        /\ \A m \in 1..(n - 1) : runFile[k][m] < runFile[k][n]
    BY <1>3 DEF RunFilesAreDated
  <2> QED BY <1>1, <2>2, <2>3
<1> QED BY <1>2, <1>3

LEMMA SavesStep ==
  ASSUME BasicInv, SessionsAreDated,
         NEW p \in Procs, NEW s \in Sessions, NEW status \in Statuses, NEW next \in Nexts,
         Saves(p, s, status, next)
  PROVE  SessionsAreDated'
<1> DEFINE v == [status |-> status, at |-> Local]
           o == [at |-> "shadow", session |-> s, rev |-> Revision(s) + 1, next |-> next]
<1>t. /\ Typed /\ clock \in Nat /\ Offset \in Int /\ op \in [Procs -> Ops]
      /\ clock' = clock + 1 /\ clock' \in Nat
  BY SessionTypes, SessionCopyAssumption DEF BasicInv, Saves
<1>1. /\ Len(versions'[s]) = Len(versions[s]) + 1
      /\ versions'[s][Len(versions[s]) + 1] = v
      /\ \A n \in 1..Len(versions[s]) : versions'[s][n] = versions[s][n]
      /\ \A t \in Sessions \ {s} : versions'[t] = versions[t]
  BY <1>t, SavedVersions DEF Revision
<1>2. Len(versions[s]) \in Nat /\ v.at = clock + 1 + Offset
  BY <1>t, SessionTypes DEF Local
<1>3. ASSUME NEW t \in Sessions, NEW n \in 1..Len(versions[t])
      PROVE  /\ versions[t][n].at \in Int
             /\ versions[t][n].at <= clock + Offset
             /\ \A m \in 1..(n - 1) : versions[t][m].at < versions[t][n].at
  BY <1>t, SessionTypes DEF SessionsAreDated, VersionsAreDated, Revision
<1>4. VersionsAreDated'
  <2> SUFFICES ASSUME NEW t \in Sessions, NEW n \in 1..Len(versions'[t])
               PROVE  /\ versions'[t][n].at <= clock' + Offset
                      /\ \A m \in 1..(n - 1) : versions'[t][m].at < versions'[t][n].at
    BY DEF VersionsAreDated, Revision
  <2>1. CASE t # s
    <3>1. versions'[t] = versions[t] /\ n \in 1..Len(versions[t])
      BY <1>1, <2>1
    <3>2. versions[t][n].at <= clock' + Offset
      BY <1>t, <1>3, <3>1
    <3> QED BY <1>3, <3>1, <3>2
  <2>2. CASE t = s /\ n # Len(versions[s]) + 1
    <3>1. n \in 1..Len(versions[s])
      BY <1>1, <1>2, <2>2
    <3>2. versions'[s][n] = versions[s][n] /\ \A m \in 1..(n - 1) : versions'[s][m] = versions[s][m]
      BY <1>1, <1>2, <3>1
    <3>3. /\ versions[s][n].at <= clock' + Offset
          /\ \A m \in 1..(n - 1) : versions[s][m].at < versions[s][n].at
      BY <1>t, <1>3, <3>1
    <3> QED BY <2>2, <3>2, <3>3
  <2>3. CASE t = s /\ n = Len(versions[s]) + 1
    <3>1. \A m \in 1..(n - 1) : m \in 1..Len(versions[s])
      BY <1>2, <2>3
    <3>2. versions'[s][n].at = clock + 1 + Offset
      BY <1>1, <1>2, <2>3
    <3>3. ASSUME NEW m \in 1..(n - 1) PROVE versions'[s][m].at < versions'[s][n].at
      <4>1. versions'[s][m] = versions[s][m]
        BY <1>1, <3>1
      <4>2. versions[s][m].at \in Int /\ versions[s][m].at <= clock + Offset
        BY <1>3, <3>1
      <4> QED BY <1>t, <3>2, <4>1, <4>2
    <3> QED BY <1>t, <2>3, <3>2, <3>3
  <2> QED BY <2>1, <2>2, <2>3
<1>5. row' = row /\ missed' = missed /\ op' = [op EXCEPT ![p] = o] /\ ~At(p, "shadow")
  BY DEF Saves
<1>6. RowsAreDated'
  <2> SUFFICES ASSUME NEW t \in Sessions, row[t].rev > 0
               PROVE  /\ row[t].rev <= Len(versions'[t])
                      /\ row[t].at >= versions'[t][row[t].rev].at
    BY <1>5 DEF RowsAreDated, Revision
  <2>1. /\ row[t].rev \in 1..Len(versions[t]) /\ Len(versions[t]) \in Nat
        /\ row[t].at >= versions[t][row[t].rev].at
    BY <1>t, SessionTypes DEF SessionsAreDated, RowsAreDated, Revision
  <2>2. CASE t = s
    <3>1. versions'[s][row[t].rev] = versions[s][row[t].rev]
      BY <1>1, <2>1, <2>2
    <3> QED BY <1>1, <1>2, <2>1, <2>2, <3>1
  <2>3. CASE t # s
    BY <1>1, <2>1, <2>3
  <2> QED BY <2>2, <2>3
<1>7. RowIsCurrent'
  <2>1. op'[p] = o /\ \A q \in Procs \ {p} : op'[q] = op[q]
    BY <1>t, <1>5
  <2> SUFFICES ASSUME NEW t \in Sessions, t \notin missed,
                      ~ \E q \in Procs : op'[q].at = "shadow" /\ op'[q].session = t
               PROVE  row[t].rev = Len(versions'[t])
    BY <1>5 DEF RowIsCurrent, Locked, At, Revision
  <2>2. t # s
    BY <2>1
  <2>3. ~Locked(t)
    BY <1>5, <2>1 DEF Locked, At
  <2>4. row[t].rev = Len(versions[t])
    BY <2>3 DEF SessionsAreDated, RowIsCurrent, Revision
  <2> QED BY <1>1, <2>2, <2>4
<1> QED BY <1>4, <1>6, <1>7 DEF SessionsAreDated

\* A process that does not save keeps the lock of every session but its own.
LEMMA OtherLocks ==
  ASSUME Typed, NEW p \in Procs, NEW o \in Ops, MovesOn(p, o),
         NEW s \in Sessions, ~Locked(s)', ~(At(p, "shadow") /\ op[p].session = s)
  PROVE  ~Locked(s)
<1>1. op'[p] = o /\ \A q \in Procs \ {p} : op'[q] = op[q]
  BY SessionTypes DEF MovesOn
<1> QED BY <1>1 DEF Locked, At

LEMMA CopyStepDated ==
  ASSUME BasicInv, SessionsAreDated, CopyNext, Offset <= 0
  PROVE  SessionsAreDated'
<1>t. /\ Typed /\ HeldByOne /\ clock \in Nat /\ Offset \in Int
      /\ VersionsAreDated /\ RowsAreDated /\ RowIsCurrent
  BY SessionTypes, SessionCopyAssumption DEF BasicInv, SessionsAreDated
<1>0. PICK p \in Procs :
        \/ \E s \in Sessions, status \in Statuses, next \in Nexts : Saves(p, s, status, next)
        \/ \E o \in Ops : LeavesTheTable(p, o) \/ Copies(p, o)
        \/ Activates(p)
  BY <1>t, StepKinds
<1>1. CASE \E s \in Sessions, status \in Statuses, next \in Nexts : Saves(p, s, status, next)
  BY <1>1, SavesStep
<1>2. CASE \E o \in Ops : LeavesTheTable(p, o)
  <2>1. PICK o \in Ops : LeavesTheTable(p, o)
    BY <1>2
  <2>2. /\ UNCHANGED <<versions, row>> /\ MovesOn(p, o) /\ clock' \in {clock, clock + 1}
        /\ missed' = missed \cup (IF At(p, "shadow") THEN {op[p].session} ELSE {})
    BY <2>1 DEF LeavesTheTable
  <2>3. VersionsAreDated'
    BY <1>t, <2>2, TimePasses
  <2>4. RowsAreDated'
    BY <1>t, <2>2 DEF RowsAreDated, Revision
  <2>5. RowIsCurrent'
    <3> SUFFICES ASSUME NEW s \in Sessions, ~Locked(s)', s \notin missed'
                 PROVE  row[s].rev = Revision(s)
      BY <2>2 DEF RowIsCurrent, Revision
    <3>1. ~(At(p, "shadow") /\ op[p].session = s) /\ s \notin missed
      BY <2>2
    <3>2. ~Locked(s)
      BY <1>t, <2>2, <3>1, OtherLocks
    <3> QED BY <1>t, <3>1, <3>2 DEF RowIsCurrent
  <2> QED BY <2>3, <2>4, <2>5 DEF SessionsAreDated
<1>3. CASE \E o \in Ops : Copies(p, o)
  <2>1. PICK o \in Ops : Copies(p, o)
    BY <1>3
  <2> DEFINE s == op[p].session
             n == op[p].rev
             r == [rev |-> n, status |-> versions[s][n].status, at |-> versions[s][n].at]
  <2>2. /\ UNCHANGED <<clock, versions>> /\ MovesOn(p, o)
        /\ row' = [row EXCEPT ![s] = r] /\ missed' = missed \ {s}
    BY <2>1 DEF Copies
  <2>3. s \in Sessions /\ n = Len(versions[s]) /\ Len(versions[s]) \in Nat /\ n >= 1
    BY <1>t, <2>1, SessionTypes DEF Copies, HeldByOne, Typed, OpsAreSound, Sound, At, Revision
  <2>4. row'[s] = r /\ \A t \in Sessions \ {s} : row'[t] = row[t]
    BY <1>t, <2>2, <2>3, SessionTypes
  <2>5. VersionsAreDated'
    BY <1>t, <2>2, TimePasses
  <2>6. versions[s][n].at \in Int
    BY <1>t, <2>3, SessionTypes
  <2>7. RowsAreDated'
    <3> SUFFICES ASSUME NEW t \in Sessions, row'[t].rev > 0
                 PROVE  /\ row'[t].rev <= Len(versions[t])
                        /\ row'[t].at >= versions[t][row'[t].rev].at
      BY <2>2 DEF RowsAreDated, Revision
    <3>1. CASE t = s
      BY <2>3, <2>4, <2>6, <3>1
    <3>2. CASE t # s
      BY <1>t, <2>4, <3>2 DEF RowsAreDated, Revision
    <3> QED BY <3>1, <3>2
  <2>8. RowIsCurrent'
    <3> SUFFICES ASSUME NEW t \in Sessions, ~Locked(t)', t \notin missed'
                 PROVE  row'[t].rev = Len(versions[t])
      BY <2>2 DEF RowIsCurrent, Revision
    <3>1. CASE t = s
      BY <2>3, <2>4, <3>1
    <3>2. CASE t # s
      <4>1. ~Locked(t)
        BY <1>t, <2>2, <3>2, OtherLocks
      <4>2. t \notin missed
        BY <2>2, <3>2
      <4> QED BY <1>t, <2>4, <3>2, <4>1, <4>2 DEF RowIsCurrent, Revision
    <3> QED BY <3>1, <3>2
  <2> QED BY <2>5, <2>7, <2>8 DEF SessionsAreDated
<1>4. CASE Activates(p)
  <2> DEFINE s == op[p].session
  <2>1. /\ UNCHANGED <<versions, missed>> /\ MovesOn(p, Idle) /\ clock' = clock + 1
        /\ row' = [row EXCEPT ![s] =
                     IF row[s].rev = 0 THEN row[s] ELSE [row[s] EXCEPT !.status = "active", !.at = clock + 1]]
        /\ ~At(p, "shadow") /\ s \in Sessions
    BY <1>4, <1>t DEF Activates, Utc, At, Typed, OpsAreSound, Sound
  <2>2. /\ \A t \in Sessions \ {s} : row'[t] = row[t]
        /\ row'[s] = IF row[s].rev = 0 THEN row[s]
                     ELSE [row[s] EXCEPT !.status = "active", !.at = clock + 1]
    BY <1>t, <2>1, SessionTypes
  <2>3. row'[s].rev = row[s].rev /\ (row[s].rev = 0 \/ row'[s].at = clock + 1)
    <3>1. row[s] \in Rows
      BY <1>t, <2>1, SessionTypes
    <3> QED BY <2>2, <3>1 DEF Rows
  <2>4. \A t \in Sessions : row'[t].rev = row[t].rev
    BY <2>2, <2>3
  <2>5. VersionsAreDated'
    BY <1>t, <2>1, TimePasses
  <2>6. RowsAreDated'
    <3> SUFFICES ASSUME NEW t \in Sessions, row[t].rev > 0
                 PROVE  /\ row[t].rev <= Len(versions[t])
                        /\ row'[t].at >= versions[t][row[t].rev].at
      BY <2>1, <2>4 DEF RowsAreDated, Revision
    <3>1. /\ row[t].rev \in 1..Len(versions[t])
          /\ row[t].at >= versions[t][row[t].rev].at
      BY <1>t, SessionTypes DEF RowsAreDated, Revision
    <3>2. CASE t = s
      <4>1. versions[t][row[t].rev].at \in Int /\ versions[t][row[t].rev].at <= clock + Offset
        BY <1>t, <3>1, SessionTypes DEF VersionsAreDated, Revision
      <4>2. row'[t].at = clock + 1
        BY <1>t, <2>3, <3>2, SessionTypes
      <4> QED BY <1>t, <3>1, <4>1, <4>2
    <3>3. CASE t # s
      BY <2>2, <3>1, <3>3
    <3> QED BY <3>2, <3>3
  <2>7. RowIsCurrent'
    <3> SUFFICES ASSUME NEW t \in Sessions, ~Locked(t)', t \notin missed
                 PROVE  row[t].rev = Revision(t)
      BY <2>1, <2>4 DEF RowIsCurrent, Revision
    <3>1. ~Locked(t)
      BY <1>t, <2>1, OtherLocks, IdleIsSound
    <3> QED BY <1>t, <3>1 DEF RowIsCurrent
  <2> QED BY <2>5, <2>6, <2>7 DEF SessionsAreDated
<1> QED BY <1>0, <1>1, <1>2, <1>3, <1>4

\* What the importer read before the row was written is newer for the table.
LEMMA ImportSessionDated ==
  ASSUME BasicInv, SessionsAreDated, ImportSession
  PROVE  SessionsAreDated' /\ \A t \in Sessions : row'[t].rev >= row[t].rev
<1> DEFINE s == held.session
           n == held.rev
           v == versions[s][n]
           r == [rev |-> n, status |-> v.status, at |-> v.at]
<1>t. /\ Typed /\ row \in [Sessions -> Rows]
      /\ VersionsAreDated /\ RowsAreDated /\ RowIsCurrent
      /\ \A t \in Sessions : row[t].rev \in Nat
  BY SessionTypes DEF BasicInv, SessionsAreDated
<1>1. s \in Sessions /\ n \in 1..Len(versions[s]) /\ Len(versions[s]) \in Nat
  <2>1. held \in HeldSessions
    BY <1>t DEF ImportSession, Typed, LegacyTypeOK
  <2>2. s \in Sessions
    BY <2>1 DEF HeldSessions
  <2> QED BY <1>t, <2>2, SessionTypes DEF BasicInv, HeldIsThere, ImportSession, Revision
<1>2. UNCHANGED <<clock, versions, op, missed>>
  BY DEF ImportSession
<1>3. VersionsAreDated'
  BY <1>t, <1>2, TimePasses
<1>4. CASE row' = row
  <2>1. RowsAreDated' /\ RowIsCurrent'
    BY <1>t, <1>2, <1>4 DEF RowsAreDated, RowIsCurrent, Revision, Locked, At
  <2> QED BY <1>t, <1>3, <1>4, <2>1 DEF SessionsAreDated
<1>5. CASE ~IsNewer(row[s], v.at) /\ row' = [row EXCEPT ![s] = r]
  <2>1. row'[s] = r /\ \A t \in Sessions \ {s} : row'[t] = row[t]
    BY <1>t, <1>1, <1>5
  <2>2. v.at \in Int /\ row[s].at \in Int
    BY <1>t, <1>1, SessionTypes
  <2>3. row[s].rev <= n
    <3> SUFFICES ASSUME row[s].rev > n PROVE FALSE
      BY <1>t, <1>1
    <3> DEFINE m == row[s].rev
    <3>1. m > 0 /\ m \in 1..Len(versions[s]) /\ n \in 1..(m - 1)
      BY <1>t, <1>1 DEF RowsAreDated, Revision
    <3>2. v.at < versions[s][m].at
      BY <1>t, <1>1, <3>1 DEF VersionsAreDated, Revision
    <3>3. row[s].at >= versions[s][m].at
      BY <1>t, <1>1, <3>1 DEF RowsAreDated
    <3>4. versions[s][m].at \in Int
      BY <1>t, <1>1, <3>1, SessionTypes
    <3>5. row[s].at > v.at
      BY <2>2, <3>2, <3>3, <3>4
    <3> QED BY <1>5, <3>1, <3>5 DEF IsNewer
  <2>4. RowsAreDated'
    <3> SUFFICES ASSUME NEW t \in Sessions, row'[t].rev > 0
                 PROVE  /\ row'[t].rev <= Len(versions[t])
                        /\ row'[t].at >= versions[t][row'[t].rev].at
      BY <1>2 DEF RowsAreDated, Revision
    <3>1. CASE t = s
      BY <1>1, <2>1, <2>2, <3>1
    <3>2. CASE t # s
      BY <1>t, <2>1, <3>2 DEF RowsAreDated, Revision
    <3> QED BY <3>1, <3>2
  <2>5. RowIsCurrent'
    <3> SUFFICES ASSUME NEW t \in Sessions, ~Locked(t), t \notin missed
                 PROVE  row'[t].rev = Len(versions[t])
      BY <1>2 DEF RowIsCurrent, Revision, Locked, At
    <3>1. row[t].rev = Len(versions[t])
      BY <1>t DEF RowIsCurrent, Revision
    <3>2. CASE t = s
      BY <1>1, <2>1, <2>3, <3>1, <3>2
    <3>3. CASE t # s
      BY <2>1, <3>1, <3>3
    <3> QED BY <3>2, <3>3
  <2>6. \A t \in Sessions : row'[t].rev >= row[t].rev
    <3> SUFFICES ASSUME NEW t \in Sessions PROVE row'[t].rev >= row[t].rev
      OBVIOUS
    <3>1. CASE t = s
      BY <1>1, <1>t, <2>1, <2>3, <3>1
    <3>2. CASE t # s
      BY <1>t, <2>1, <3>2
    <3> QED BY <3>1, <3>2
  <2> QED BY <1>3, <2>4, <2>5, <2>6 DEF SessionsAreDated
<1>6. row' = row \/ (~IsNewer(row[s], v.at) /\ row' = [row EXCEPT ![s] = r])
  BY DEF ImportSession
<1> QED BY <1>4, <1>5, <1>6

LEMMA ImportMappingDated ==
  ASSUME BasicInv, SessionsAreDated, ImportMapping
  PROVE  SessionsAreDated' /\ \A t \in Sessions : row'[t].rev >= row[t].rev
<1> DEFINE s == held.session
           r == [row[s] EXCEPT !.status = "active", !.at = held.at]
<1>t. /\ Typed /\ row \in [Sessions -> Rows]
      /\ VersionsAreDated /\ RowsAreDated /\ RowIsCurrent
      /\ \A t \in Sessions : row[t].rev \in Nat
  BY SessionTypes DEF BasicInv, SessionsAreDated
<1>1. s \in Sessions /\ held.at \in Int
  BY <1>t DEF ImportMapping, Typed, LegacyTypeOK, Mappings
<1>2. UNCHANGED <<clock, versions, op, missed>>
  BY DEF ImportMapping
<1>3. \/ row' = row
      \/ /\ ~(row[s].rev = 0) /\ ~IsNewer(row[s], held.at)
         /\ row' = [row EXCEPT ![s] = r]
  BY <1>t, <1>1 DEF ImportMapping
<1>4. r.rev = row[s].rev /\ r.at = held.at
  <2>1. row[s] \in Rows
    BY <1>t, <1>1
  <2> QED BY <2>1 DEF Rows
<1> HIDE DEF r
<1>5. \A t \in Sessions : row'[t].rev = row[t].rev
  BY <1>t, <1>1, <1>3, <1>4
<1>6. \A t \in Sessions : row[t].rev > 0 => row'[t].at >= row[t].at
  <2> SUFFICES ASSUME NEW t \in Sessions, row[t].rev > 0 PROVE row'[t].at >= row[t].at
    OBVIOUS
  <2>1. row[t].at \in Int
    BY <1>t, SessionTypes
  <2>2. CASE row' = row
    BY <2>1, <2>2
  <2>3. CASE ~(row[s].rev = 0) /\ ~IsNewer(row[s], held.at) /\ row' = [row EXCEPT ![s] = r]
    <3>1. CASE t = s
      <4>1. ~(row[t].at > held.at)
        BY <2>3, <3>1 DEF IsNewer
      <4>2. row'[t] = r
        BY <1>t, <1>1, <2>3, <3>1
      <4> QED BY <1>1, <1>4, <2>1, <4>1, <4>2
    <3>2. CASE t # s
      BY <1>t, <1>1, <2>1, <2>3, <3>2
    <3> QED BY <3>1, <3>2
  <2> QED BY <1>3, <2>2, <2>3
<1>7. VersionsAreDated'
  BY <1>t, <1>2, TimePasses
<1>8. RowsAreDated'
  <2> SUFFICES ASSUME NEW t \in Sessions, row[t].rev > 0
               PROVE  /\ row[t].rev <= Len(versions[t])
                      /\ row'[t].at >= versions[t][row[t].rev].at
    BY <1>2, <1>5 DEF RowsAreDated, Revision
  <2>1. /\ row[t].rev \in 1..Len(versions[t])
        /\ row[t].at >= versions[t][row[t].rev].at
    BY <1>t, SessionTypes DEF RowsAreDated, Revision
  <2>2. row[t].at \in Int /\ versions[t][row[t].rev].at \in Int /\ row'[t].at >= row[t].at
    BY <1>t, <1>6, <2>1, SessionTypes
  <2>3. row'[t].at \in Int
    <3>1. SessionCopyTypeOK'
      BY ImportMappingStep DEF BasicInv, Typed, LegacyTypeOK
    <3> QED BY <3>1 DEF SessionCopyTypeOK, Rows
  <2> QED BY <2>1, <2>2, <2>3
<1>9. RowIsCurrent'
  BY <1>t, <1>2, <1>5 DEF RowIsCurrent, Revision, Locked, At
<1>10. \A t \in Sessions : row'[t].rev >= row[t].rev
  BY <1>t, <1>5
<1> QED BY <1>7, <1>8, <1>9, <1>10 DEF SessionsAreDated

LEMMA RunTypes ==
  ASSUME Typed
  PROVE  /\ runFile \in [RunFiles -> Seq(Int)]
         /\ runRow \in [RunFiles -> RunRows]
         /\ \A k \in RunFiles :
               /\ runRow[k] \in RunRows /\ runRow[k].rev \in Nat /\ runRow[k].at \in Int
               /\ runFile[k] \in Seq(Int) /\ Len(runFile[k]) \in Nat
               /\ \A n \in 1..Len(runFile[k]) : runFile[k][n] \in Int
<1>1. runFile \in [RunFiles -> Seq(Int)] /\ runRow \in [RunFiles -> RunRows]
  BY DEF Typed, LegacyTypeOK
<1>2. ASSUME NEW k \in RunFiles
      PROVE  /\ runFile[k] \in Seq(Int) /\ Len(runFile[k]) \in Nat
             /\ \A n \in 1..Len(runFile[k]) : runFile[k][n] \in Int
  BY <1>1
<1> QED BY <1>1, <1>2 DEF RunRows

LEMMA ImportRunDated ==
  ASSUME BasicInv, RunsAreDated, ImportRun
  PROVE  RunsAreDated' /\ \A k \in RunFiles : runRow'[k].rev >= runRow[k].rev
<1> DEFINE k == held.run
           n == held.rev
           at == runFile[k][n]
           r == [rev |-> n, at |-> at, status |-> ImportedStatus[k]]
<1>t. Typed /\ RunFilesAreDated /\ RunRowsAreDated
  BY DEF BasicInv, RunsAreDated
<1>1. k \in RunFiles /\ n \in 1..Len(runFile[k]) /\ Len(runFile[k]) \in Nat
  <2>1. held \in HeldRuns
    BY <1>t DEF ImportRun, Typed, LegacyTypeOK
  <2>2. k \in RunFiles
    BY <2>1 DEF HeldRuns
  <2> QED BY <1>t, <2>2, RunTypes DEF BasicInv, HeldIsThere, ImportRun
<1>2. UNCHANGED <<clock, runFile>>
  BY DEF ImportRun, copyVars
<1>3. RunFilesAreDated'
  BY <1>t, <1>2, TimePasses
<1>4. CASE runRow' = runRow
  BY <1>t, <1>2, <1>3, <1>4, RunTypes DEF RunRowsAreDated, RunsAreDated
<1>5. CASE ~IsNewer(runRow[k], at) /\ runRow' = [runRow EXCEPT ![k] = r]
  <2>1. runRow'[k] = r /\ \A j \in RunFiles \ {k} : runRow'[j] = runRow[j]
    BY <1>t, <1>1, <1>5, RunTypes
  <2>2. at \in Int /\ runRow[k].at \in Int /\ runRow[k].rev \in Nat
    BY <1>t, <1>1, RunTypes
  <2>3. runRow[k].rev <= n
    <3> SUFFICES ASSUME runRow[k].rev > n PROVE FALSE
      BY <1>1, <2>2
    <3> DEFINE m == runRow[k].rev
    <3>1. m > 0 /\ m \in 1..Len(runFile[k]) /\ n \in 1..(m - 1)
      BY <1>t, <1>1, <2>2 DEF RunRowsAreDated
    <3>2. at < runFile[k][m]
      BY <1>t, <1>1, <3>1 DEF RunFilesAreDated
    <3>3. runRow[k].at >= runFile[k][m]
      BY <1>t, <1>1, <3>1 DEF RunRowsAreDated
    <3>4. runFile[k][m] \in Int
      BY <1>t, <1>1, <3>1, RunTypes
    <3>5. runRow[k].at > at
      BY <2>2, <3>2, <3>3, <3>4
    <3> QED BY <1>5, <3>1, <3>5 DEF IsNewer
  <2>4. RunRowsAreDated'
    <3> SUFFICES ASSUME NEW j \in RunFiles, runRow'[j].rev > 0
                 PROVE  /\ runRow'[j].rev <= Len(runFile[j])
                        /\ runRow'[j].at >= runFile[j][runRow'[j].rev]
      BY <1>2 DEF RunRowsAreDated
    <3>1. CASE j = k
      BY <1>1, <2>1, <2>2, <3>1
    <3>2. CASE j # k
      BY <1>t, <2>1, <3>2 DEF RunRowsAreDated
    <3> QED BY <3>1, <3>2
  <2>5. ASSUME NEW j \in RunFiles PROVE runRow'[j].rev >= runRow[j].rev
    <3>1. CASE j = k
      BY <1>1, <2>1, <2>2, <2>3, <3>1
    <3>2. CASE j # k
      BY <1>t, <2>1, <3>2, RunTypes
    <3> QED BY <3>1, <3>2
  <2> QED BY <1>3, <2>4, <2>5 DEF RunsAreDated
<1>6. runRow' = runRow \/ (~IsNewer(runRow[k], at) /\ runRow' = [runRow EXCEPT ![k] = r])
  BY DEF ImportRun
<1> QED BY <1>4, <1>5, <1>6

LEMMA RecoverDated ==
  ASSUME BasicInv, RunsAreDated, Recover, Offset <= 0
  PROVE  RunsAreDated' /\ \A k \in RunFiles : runRow'[k].rev >= runRow[k].rev
<1>t. Typed /\ RunFilesAreDated /\ RunRowsAreDated /\ Offset \in Int /\ clock \in Nat
  BY SessionTypes, SessionCopyAssumption DEF BasicInv, RunsAreDated
<1>1. runFile' = runFile /\ clock' = clock + 1
  BY DEF Recover, Stamp
<1>2. RunFilesAreDated'
  BY <1>t, <1>1, TimePasses
<1>3. ASSUME NEW k \in RunFiles
      PROVE  runRow'[k].rev = runRow[k].rev /\ runRow'[k].at \in {runRow[k].at, clock + 1}
  <2>1. runRow'[k] = IF runRow[k].rev > 0 /\ runRow[k].status = "running"
                     THEN [runRow[k] EXCEPT !.status = "failed", !.at = clock + 1]
                     ELSE runRow[k]
    BY DEF Recover, Utc
  <2>2. runRow[k] \in RunRows
    BY <1>t, RunTypes
  <2> QED BY <2>1, <2>2 DEF RunRows
<1>4. RunRowsAreDated'
  <2> SUFFICES ASSUME NEW k \in RunFiles, runRow[k].rev > 0
               PROVE  /\ runRow[k].rev <= Len(runFile[k])
                      /\ runRow'[k].at >= runFile[k][runRow[k].rev]
    BY <1>1, <1>3 DEF RunRowsAreDated
  <2>1. /\ runRow[k].rev \in 1..Len(runFile[k])
        /\ runRow[k].at >= runFile[k][runRow[k].rev]
    BY <1>t, RunTypes DEF RunRowsAreDated
  <2>2. /\ runFile[k][runRow[k].rev] \in Int
        /\ runFile[k][runRow[k].rev] <= clock + Offset
    BY <1>t, <2>1, RunTypes DEF RunFilesAreDated
  <2>3. CASE runRow'[k].at = runRow[k].at
    BY <2>1, <2>3
  <2>4. CASE runRow'[k].at = clock + 1
    BY <1>t, <2>1, <2>2, <2>4
  <2> QED BY <1>3, <2>3, <2>4
<1>5. \A k \in RunFiles : runRow'[k].rev >= runRow[k].rev
  BY <1>t, <1>3, RunTypes
<1> QED BY <1>2, <1>4, <1>5 DEF RunsAreDated

LEMMA WriteRunFileDated ==
  ASSUME BasicInv, RunsAreDated, NEW k \in RunFiles, WriteRunFile(k)
  PROVE  RunsAreDated' /\ \A j \in RunFiles : runRow'[j].rev >= runRow[j].rev
<1>t. Typed /\ RunFilesAreDated /\ RunRowsAreDated /\ Offset \in Int /\ clock \in Nat
  BY SessionTypes, SessionCopyAssumption DEF BasicInv, RunsAreDated
<1>1. /\ runRow' = runRow /\ clock' = clock + 1
      /\ runFile' = [runFile EXCEPT ![k] = Append(runFile[k], Local)]
  BY DEF WriteRunFile, Stamp
<1>2. runFile[k] \in Seq(Int) /\ Local \in Int /\ Local = clock + 1 + Offset /\ Len(runFile[k]) \in Nat
  BY <1>t, RunTypes DEF Local
<1>3. /\ runFile'[k] = Append(runFile[k], Local)
      /\ \A j \in RunFiles \ {k} : runFile'[j] = runFile[j]
  BY <1>t, <1>1, RunTypes
<1>4. /\ Len(runFile'[k]) = Len(runFile[k]) + 1
      /\ runFile'[k][Len(runFile[k]) + 1] = Local
      /\ \A n \in 1..Len(runFile[k]) : runFile'[k][n] = runFile[k][n]
  BY <1>2, <1>3
<1>5. ASSUME NEW j \in RunFiles, NEW n \in 1..Len(runFile[j])
      PROVE  /\ runFile[j][n] \in Int /\ runFile[j][n] <= clock + Offset
             /\ \A m \in 1..(n - 1) : runFile[j][m] < runFile[j][n]
  BY <1>t, RunTypes DEF RunFilesAreDated
<1>6. RunFilesAreDated'
  <2> SUFFICES ASSUME NEW j \in RunFiles, NEW n \in 1..Len(runFile'[j])
               PROVE  /\ runFile'[j][n] <= clock' + Offset
                      /\ \A m \in 1..(n - 1) : runFile'[j][m] < runFile'[j][n]
    BY DEF RunFilesAreDated
  <2>1. CASE j # k
    <3>1. runFile'[j] = runFile[j] /\ n \in 1..Len(runFile[j])
      BY <1>3, <2>1
    <3>2. runFile[j][n] <= clock' + Offset
      BY <1>t, <1>1, <1>5, <3>1
    <3> QED BY <1>5, <3>1, <3>2
  <2>2. CASE j = k /\ n # Len(runFile[k]) + 1
    <3>1. n \in 1..Len(runFile[k])
      BY <1>2, <1>4, <2>2
    <3>2. runFile'[k][n] = runFile[k][n] /\ \A m \in 1..(n - 1) : runFile'[k][m] = runFile[k][m]
      BY <1>2, <1>4, <3>1
    <3>3. /\ runFile[k][n] <= clock' + Offset
          /\ \A m \in 1..(n - 1) : runFile[k][m] < runFile[k][n]
      BY <1>t, <1>1, <1>5, <3>1
    <3> QED BY <2>2, <3>2, <3>3
  <2>3. CASE j = k /\ n = Len(runFile[k]) + 1
    <3>1. runFile'[k][n] = clock + 1 + Offset
      BY <1>2, <1>4, <2>3
    <3>2. ASSUME NEW m \in 1..(n - 1) PROVE runFile'[k][m] < runFile'[k][n]
      <4>1. m \in 1..Len(runFile[k])
        BY <1>2, <2>3
      <4>2. runFile'[k][m] = runFile[k][m]
        BY <1>4, <4>1
      <4>3. runFile[k][m] \in Int /\ runFile[k][m] <= clock + Offset
        BY <1>5, <4>1
      <4> QED BY <1>t, <3>1, <4>2, <4>3
    <3> QED BY <1>t, <1>1, <2>3, <3>1, <3>2
  <2> QED BY <2>1, <2>2, <2>3
<1>7. RunRowsAreDated'
  <2> SUFFICES ASSUME NEW j \in RunFiles, runRow[j].rev > 0
               PROVE  /\ runRow[j].rev <= Len(runFile'[j])
                      /\ runRow[j].at >= runFile'[j][runRow[j].rev]
    BY <1>1 DEF RunRowsAreDated
  <2>1. /\ runRow[j].rev \in 1..Len(runFile[j])
        /\ runRow[j].at >= runFile[j][runRow[j].rev]
    BY <1>t, RunTypes DEF RunRowsAreDated
  <2>2. CASE j = k
    <3>1. runFile'[k][runRow[j].rev] = runFile[k][runRow[j].rev]
      BY <1>4, <2>1, <2>2
    <3> QED BY <1>2, <1>4, <2>1, <2>2, <3>1
  <2>3. CASE j # k
    BY <1>3, <2>1, <2>3
  <2> QED BY <2>2, <2>3
<1>8. \A j \in RunFiles : runRow'[j].rev >= runRow[j].rev
  BY <1>t, <1>1, RunTypes
<1> QED BY <1>6, <1>7, <1>8 DEF RunsAreDated

\* Each part of the invariant under the steps that are not its own.
LEMMA PartsAlone ==
  ASSUME BasicInv, clock' \in {clock, clock + 1}
  PROVE  /\ RunsAreDated /\ UNCHANGED <<runFile, runRow>> =>
              RunsAreDated' /\ \A k \in RunFiles : runRow'[k].rev >= runRow[k].rev
         /\ SessionsAreDated /\ UNCHANGED <<versions, row, op, missed>> =>
              SessionsAreDated' /\ \A s \in Sessions : row'[s].rev >= row[s].rev
<1>t. Typed
  BY DEF BasicInv
<1>1. ASSUME RunsAreDated, UNCHANGED <<runFile, runRow>>
      PROVE  RunsAreDated' /\ \A k \in RunFiles : runRow'[k].rev >= runRow[k].rev
  <2>1. RunFilesAreDated'
    BY <1>1, <1>t, TimePasses DEF RunsAreDated
  <2> QED BY <1>1, <1>t, <2>1, RunTypes DEF RunsAreDated, RunRowsAreDated
<1>2. ASSUME SessionsAreDated, UNCHANGED <<versions, row, op, missed>>
      PROVE  SessionsAreDated' /\ \A s \in Sessions : row'[s].rev >= row[s].rev
  <2>1. VersionsAreDated'
    BY <1>2, <1>t, TimePasses DEF SessionsAreDated
  <2>2. RowsAreDated' /\ RowIsCurrent'
    BY <1>2 DEF SessionsAreDated, RowsAreDated, RowIsCurrent, Revision, Locked, At
  <2>3. \A s \in Sessions : row'[s].rev >= row[s].rev
    BY <1>2, <1>t, SessionTypes
  <2> QED BY <2>1, <2>2, <2>3 DEF SessionsAreDated
<1> QED BY <1>1, <1>2

NothingGoesBack ==
    /\ \A s \in Sessions : row'[s].rev >= row[s].rev
    /\ \A k \in RunFiles : runRow'[k].rev >= runRow[k].rev

LEMMA DatedStep ==
  ASSUME BasicInv, DatedInv, [Next]_vars, Offset <= 0
  PROVE  DatedInv' /\ NothingGoesBack
<1>t. Typed /\ HeldByOne /\ RowStatusIsEarned /\ SessionsAreDated /\ RunsAreDated
  BY DatedParts DEF BasicInv
<1>q. ASSUME SessionsAreDated', RunsAreDated' PROVE DatedInv'
  BY <1>q DEF DatedInv, SessionsAreDated, RunsAreDated
<1>1. CASE CopyNext /\ UNCHANGED importVars
  <2>1. PICK p \in Procs :
          \/ \E s \in Sessions, status \in Statuses, next \in Nexts : Saves(p, s, status, next)
          \/ \E o \in Ops : LeavesTheTable(p, o) \/ Copies(p, o)
          \/ Activates(p)
    BY <1>1, <1>t, StepKinds
  <2>2. clock' \in {clock, clock + 1}
    BY <2>1 DEF Saves, LeavesTheTable, Copies, Activates
  <2>3. SessionsAreDated' /\ \A s \in Sessions : row'[s].rev >= row[s].rev
    BY <1>1, <1>t, CopyStepDated, CopyStepRows
  <2>4. RunsAreDated' /\ \A k \in RunFiles : runRow'[k].rev >= runRow[k].rev
    BY <1>1, <1>t, <2>2, PartsAlone DEF importVars
  <2> QED BY <1>q, <2>3, <2>4 DEF NothingGoesBack
<1>2. CASE ImportSession \/ ImportMapping
  <2>1. SessionsAreDated' /\ \A s \in Sessions : row'[s].rev >= row[s].rev
    BY <1>2, <1>t, ImportSessionDated, ImportMappingDated
  <2>2. clock' = clock /\ UNCHANGED <<runFile, runRow>>
    BY <1>2 DEF ImportSession, ImportMapping
  <2>3. RunsAreDated' /\ \A k \in RunFiles : runRow'[k].rev >= runRow[k].rev
    BY <1>t, <2>2, PartsAlone
  <2> QED BY <1>q, <2>1, <2>3 DEF NothingGoesBack
<1>3. CASE ImportRun \/ Recover \/ \E k \in RunFiles : WriteRunFile(k)
  <2>1. RunsAreDated' /\ \A k \in RunFiles : runRow'[k].rev >= runRow[k].rev
    BY <1>3, <1>t, ImportRunDated, RecoverDated, WriteRunFileDated
  <2>2. clock' \in {clock, clock + 1} /\ UNCHANGED <<versions, row, op, missed>>
    BY <1>3 DEF ImportRun, Recover, WriteRunFile, Stamp, copyVars
  <2>3. SessionsAreDated' /\ \A s \in Sessions : row'[s].rev >= row[s].rev
    BY <1>t, <2>2, PartsAlone
  <2> QED BY <1>q, <2>1, <2>3 DEF NothingGoesBack
<1>4. ASSUME UNCHANGED <<clock, versions, row, op, missed, runFile, runRow>>
      PROVE  DatedInv' /\ NothingGoesBack
  <2>1. SessionsAreDated' /\ \A s \in Sessions : row'[s].rev >= row[s].rev
    BY <1>4, <1>t, PartsAlone
  <2>2. RunsAreDated' /\ \A k \in RunFiles : runRow'[k].rev >= runRow[k].rev
    BY <1>4, <1>t, PartsAlone
  <2> QED BY <1>q, <2>1, <2>2 DEF NothingGoesBack
<1>5. CASE \/ StartPass \/ EndPass \/ ReadMapping \/ ImportFails
           \/ \E s \in Sessions : ReadSession(s)
           \/ \E k \in RunFiles : ReadRun(k)
           \/ \E key \in Keys : ReadFails(key)
  <2>1. UNCHANGED <<clock, versions, row, op, missed, runFile, runRow>>
    BY <1>5, PassSteps DEF MovesThePass, copyVars
  <2> QED BY <1>4, <2>1
<1>6. CASE UNCHANGED vars
  <2>1. UNCHANGED <<clock, versions, row, op, missed, runFile, runRow>>
    BY <1>6 DEF vars, copyVars, importVars
  <2> QED BY <1>4, <2>1
<1>7. Next \/ UNCHANGED vars
  OBVIOUS
<1> QED BY <1>1, <1>2, <1>3, <1>5, <1>6, <1>7, NextKinds

LEMMA DatedInit == Init => DatedInv
<1> SUFFICES ASSUME Init PROVE DatedInv
  OBVIOUS
<1>1. VersionsAreDated /\ RunFilesAreDated
  BY DEF Init, CopyInit, VersionsAreDated, RunFilesAreDated, Revision
<1>2. RowsAreDated /\ RunRowsAreDated
  BY DEF Init, CopyInit, RowsAreDated, RunRowsAreDated, NoRow, NoRunRow
<1>3. RowIsCurrent
  BY DEF Init, CopyInit, RowIsCurrent, NoRow, Revision
<1> QED BY <1>1, <1>2, <1>3 DEF DatedInv

(* The row of a session is its last version between two saves, unless that *)
(* very save was lost (save_brainstorm, shadow_save and the importer, whose*)
(* reading of a file and transaction are apart).                           *)
THEOREM RowIsCurrentHolds ==
  ASSUME Offset <= 0
  PROVE  Spec => []RowIsCurrent
<1>1. BasicInv /\ DatedInv /\ [Next]_vars => DatedInv'
  BY DatedStep
<1>2. DatedInv => RowIsCurrent
  BY DEF DatedInv
<1> QED BY <1>1, <1>2, BasicInvariant, DatedInit, PTL DEF Spec

(* "Total protection of newer SQLite data": the table never goes back to an*)
(* older version of a session or of a run, where local time is not ahead.  *)
THEOREM RowNeverGoesBackHolds ==
  ASSUME Offset <= 0
  PROVE  Spec => RowNeverGoesBack
<1>1. BasicInv /\ DatedInv /\ [Next]_vars => DatedInv' /\ [NothingGoesBack]_vars
  BY DatedStep
<1>2. Spec => [][NothingGoesBack]_vars
  BY <1>1, BasicInvariant, DatedInit, PTL DEF Spec
<1> QED BY <1>2 DEF RowNeverGoesBack, NothingGoesBack
=============================================================================
