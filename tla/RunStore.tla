------------------------------ MODULE RunStore ------------------------------
(***************************************************************************)
(* The rows of the SQLite table "runs" and what the three statements that  *)
(* write it do to a row: RunRepository.create_run, update_run_status and   *)
(* the UPDATE of QueueWorker.recover_stale_runs.  Each of them runs in one *)
(* BEGIN IMMEDIATE transaction, so each is one atomic function of the row. *)
(* Of a row's columns only those that the code branches on, or that tell   *)
(* one outcome from another, are kept: status and the class of the error   *)
(* text.                                                                   *)
(***************************************************************************)
CONSTANT Runs    \* identifiers (uuid4) of the runs that may be requested

InFlight == {"queued", "running"}

\* The statuses update_run_status counts as "terminal or waiting".
TerminalStatuses ==
    {"completed", "failed", "rejected", "waiting_for_approval", "cancelled"}

\* The statuses in which nothing executes the run any more.
Settled == TerminalStatuses \cup {"blocked_prerequisite", "blocked_budget"}

\* "absent": the table has no row with this id.
Statuses == {"absent"} \cup InFlight \cup Settled

\* "restart" is the text interrupted_by_server_restart.
ErrorTexts == {"none", "restart", "exit", "timeout", "exception", "failure", "blocked"}

Rows == [status : Statuses, error : ErrorTexts]

NoRow == [status |-> "absent", error |-> "none"]

NewRow(status) == [status |-> status, error |-> "none"]

\* update_run_status: no effect without a row, an omitted error stays as it was.
UpdateRow(row, status, error) ==
    IF row.status = "absent" THEN row
    ELSE [status |-> status,
          error  |-> IF error = "none" THEN row.error ELSE error]

\* Mutant of RecoverRow: a halted run that waits for an approval is failed too.
RecoverHaltedRow(row) ==
    IF row.status \in InFlight \cup {"waiting_for_approval"}
    THEN [status |-> "failed", error |-> "restart"]
    ELSE row

\* recover_stale_runs, on the row of any run in the table.
RecoverRow(row) ==
    IF row.status \in InFlight
    THEN [status |-> "failed", error |-> "restart"]
    ELSE row
=============================================================================
