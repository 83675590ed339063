---------------------------- MODULE LegacyImport -----------------------------
(***************************************************************************)
(* LegacyStateImporter beside the processes whose files it reads: a pass   *)
(* lists the files, loads the hashes of what was imported before, and then *)
(* reads each file and writes what it read in a transaction of its own.    *)
(* Between the reading of a file and its transaction the file may change   *)
(* and its row may be written by others.                                   *)
(*                                                                         *)
(* Sessions come first, then the mapping, then the files of runs, which an *)
(* orchestrator rewrites while it works.  The hash of a file stands for    *)
(* its content: a revision, a mapping, the number of a version.  Passes do *)
(* not overlap, so the hashes loaded at the start of one are, for a file   *)
(* it has not come to, those in the table.                                 *)
(***************************************************************************)
EXTENDS SessionCopy

CONSTANTS
    RunFiles,        \* pending_*, completed_* and checkpoint_* files
    ImportedStatus,  \* the status each of them gives to its run
    MaxRunVersions   \* bound on the versions of a file of a run

ASSUME LegacyImportAssumption ==
    /\ ImportedStatus \in [RunFiles -> {"waiting_for_approval", "completed", "running"}]
    /\ RunFiles \cap Sessions = {}
    /\ "mapping" \notin Sessions \cup RunFiles
    /\ MaxRunVersions \in Nat

VARIABLES
    runFile,  \* runFile[k]: the stamps of the versions of k, oldest first
    runRow,   \* runRow[k]: the row of the run whose id is derived from k
    imported, \* the table "legacy_imports"
    pass,     \* where the pass of the importer is
    left,     \* the listed files not read yet
    held      \* the content read and not written yet, or None

importVars == <<runFile, runRow, imported, pass, left, held>>

vars == <<copyVars, importVars>>

RunRows == [rev : Nat, at : Int,
            status : {"waiting_for_approval", "completed", "running", "failed"}]

NoRunRow == [rev |-> 0, at |-> 0, status |-> "failed"]

\* 0 and None: never imported.
Hashes == [sessions : [Sessions -> Nat], mapping : Mappings \cup {None}, runs : [RunFiles -> Nat]]

Keys == Sessions \cup {"mapping"} \cup RunFiles

HeldSessions == [session : Sessions, rev : Nat]

HeldRuns == [run : RunFiles, rev : Nat]

LegacyTypeOK ==
    /\ SessionCopyTypeOK
    /\ runFile \in [RunFiles -> Seq(Int)]
    /\ runRow \in [RunFiles -> RunRows]
    /\ imported \in Hashes
    /\ left \subseteq Keys
    /\ \/ pass \in {"idle", "reading"} /\ held = None
       \/ pass = "session" /\ held \in HeldSessions
       \/ pass = "mapping" /\ held \in Mappings
       \/ pass = "run" /\ held \in HeldRuns

NothingImported ==
    [sessions |-> [s \in Sessions |-> 0], mapping |-> None, runs |-> [k \in RunFiles |-> 0]]

Init ==
    /\ CopyInit
    /\ runFile = [k \in RunFiles |-> <<>>]
    /\ runRow = [k \in RunFiles |-> NoRunRow]
    /\ imported = NothingImported
    /\ pass = "idle"
    /\ left = {}
    /\ held = None

-----------------------------------------------------------------------------
\* Mutant of IsNewer: the comparison is the wrong way round.
IsOlder(r, at) == r.rev > 0 /\ r.at < at

\* is_sqlite_record_newer, for a record that may not be there.
IsNewer(r, at) == r.rev > 0 /\ r.at > at

StartPass ==
    /\ pass = "idle"
    /\ pass' = "reading"
    /\ left' = {s \in Sessions : HasFile(s)} \cup {k \in RunFiles : runFile[k] # <<>>}
                  \cup (IF mapping = None THEN {} ELSE {"mapping"})
    /\ UNCHANGED <<copyVars, runFile, runRow, imported, held>>

\* One file is read; nothing more is done with it if its hash is a known one.
Read(key, isKnown, kind, content) ==
    /\ pass = "reading"
    /\ key \in left
    /\ left' = left \ {key}
    /\ IF isKnown THEN UNCHANGED <<pass, held>>
       ELSE pass' = kind /\ held' = content
    /\ UNCHANGED <<copyVars, runFile, runRow, imported>>

ReadSession(s) ==
    Read(s, imported.sessions[s] = Revision(s), "session", [session |-> s, rev |-> Revision(s)])

ReadMapping ==
    /\ left \cap Sessions = {}
    /\ mapping # None
    /\ Read("mapping", imported.mapping = mapping, "mapping", mapping)

ReadRun(k) ==
    /\ left \subseteq RunFiles
    /\ Read(k, imported.runs[k] = Len(runFile[k]), "run", [run |-> k, rev |-> Len(runFile[k])])

\* A file that is gone, or half written, is reported and left out.
ReadFails(key) ==
    /\ pass = "reading"
    /\ key \in left
    /\ key = "mapping" => mapping = None /\ left \cap Sessions = {}
    /\ key \in RunFiles => left \subseteq RunFiles
    /\ key \notin Sessions
    /\ left' = left \ {key}
    /\ UNCHANGED <<copyVars, runFile, runRow, imported, pass, held>>

-----------------------------------------------------------------------------
Written == pass' = "reading" /\ held' = None

\* Mutant of ImportSession: the hash is recorded before the stamps are compared.
ImportSessionRecordingFirst ==
    /\ pass = "session"
    /\ LET s == held.session
           v == versions[s][held.rev]
       IN  /\ imported' = [imported EXCEPT !.sessions[s] = held.rev]
           /\ row' = IF IsNewer(row[s], v.at) THEN row
                     ELSE [row EXCEPT ![s] = [rev |-> held.rev, status |-> v.status, at |-> v.at]]
    /\ Written
    /\ UNCHANGED <<clock, versions, mapping, op, missed, runFile, runRow, left>>

\* _process_brainstorm_file: neither row nor hash is touched if the row is newer.
ImportSession ==
    /\ pass = "session"
    /\ LET s == held.session
           v == versions[s][held.rev]
       IN  IF IsNewer(row[s], v.at) THEN UNCHANGED <<row, imported>>
           ELSE /\ row' = [row EXCEPT ![s] = [rev |-> held.rev, status |-> v.status, at |-> v.at]]
                /\ imported' = [imported EXCEPT !.sessions[s] = held.rev]
    /\ Written
    /\ UNCHANGED <<clock, versions, mapping, op, missed, runFile, runRow, left>>

\* _process_active_mapping_file: the stamp of the session never goes back.
ImportMapping ==
    /\ pass = "mapping"
    /\ LET s == held.session
       IN  IF row[s].rev = 0 \/ IsNewer(row[s], held.at) THEN UNCHANGED <<row, imported>>
           ELSE /\ row' = [row EXCEPT ![s].status = "active", ![s].at = held.at]
                /\ imported' = [imported EXCEPT !.mapping = held]
    /\ Written
    /\ UNCHANGED <<clock, versions, mapping, op, missed, runFile, runRow, left>>

\* _process_pending_run_file, _process_completed_run_file, _process_checkpoint_run_file.
ImportRun ==
    /\ pass = "run"
    /\ LET k  == held.run
           at == runFile[k][held.rev]
       IN  IF IsNewer(runRow[k], at) THEN UNCHANGED <<runRow, imported>>
           ELSE /\ runRow' = [runRow EXCEPT ![k] =
                                 [rev |-> held.rev, at |-> at, status |-> ImportedStatus[k]]]
                /\ imported' = [imported EXCEPT !.runs[k] = held.rev]
    /\ Written
    /\ UNCHANGED <<copyVars, runFile, left>>

\* The transaction fails and is rolled back; the error is reported.
ImportFails ==
    /\ held # None
    /\ Written
    /\ UNCHANGED <<copyVars, runFile, runRow, imported, left>>

\* The pass is over, or its process dies.
EndPass ==
    /\ pass # "idle"
    /\ pass' = "idle"
    /\ left' = {}
    /\ held' = None
    /\ UNCHANGED <<copyVars, runFile, runRow, imported>>

-----------------------------------------------------------------------------
\* save_checkpoint, or the file of a workflow that waits for an approval.
WriteRunFile(k) ==
    /\ Len(runFile[k]) < MaxRunVersions
    /\ Stamp
    /\ runFile' = [runFile EXCEPT ![k] = Append(@, Local)]
    /\ UNCHANGED <<versions, mapping, row, op, missed, runRow, imported, pass, left, held>>

\* recover_stale_runs: a server starts, and fails what the table calls running.
Recover ==
    /\ \E k \in RunFiles : runRow[k].rev > 0 /\ runRow[k].status = "running"
    /\ Stamp
    /\ runRow' = [k \in RunFiles |->
                     IF runRow[k].rev > 0 /\ runRow[k].status = "running"
                     THEN [runRow[k] EXCEPT !.status = "failed", !.at = Utc]
                     ELSE runRow[k]]
    /\ UNCHANGED <<versions, mapping, row, op, missed, runFile, imported, pass, left, held>>

Next ==
    \/ CopyNext /\ UNCHANGED importVars
    \/ StartPass \/ EndPass
    \/ \E s \in Sessions : ReadSession(s)
    \/ ReadMapping
    \/ \E k \in RunFiles : ReadRun(k) \/ WriteRunFile(k)
    \/ \E key \in Keys : ReadFails(key)
    \/ ImportSession \/ ImportMapping \/ ImportRun \/ ImportFails
    \/ Recover

Spec == Init /\ [][Next]_vars

-----------------------------------------------------------------------------
(* "Total protection of newer SQLite data": no step puts an older version  *)
(* of a session or of a run into the table, whatever was saved between the *)
(* reading of a file and its transaction.  It holds where local time is    *)
(* not ahead of UTC.                                                       *)
RowNeverGoesBack ==
    [][/\ \A s \in Sessions : row'[s].rev >= row[s].rev
       /\ \A k \in RunFiles : runRow'[k].rev >= runRow[k].rev]_vars

(* A file whose hash is recorded is skipped from then on: what it held is  *)
(* in the table, or something later (_record_import and the check of the   *)
(* hashes in import_legacy_state).                                         *)
RecordedIsImported ==
    /\ \A s \in Sessions : imported.sessions[s] <= row[s].rev
    /\ imported.mapping # None => row[imported.mapping.session].rev > 0
    /\ \A k \in RunFiles : imported.runs[k] <= runRow[k].rev
=============================================================================
