--------------------------- MODULE RunnableLedger ---------------------------
(***************************************************************************)
(* The runnable ledger (src/runtime/ledger.py, PostgresLedger): one row    *)
(* per continuation, changed only by the four updates below.  Each update  *)
(* is one SQL statement, so each operator maps a row to a row and is       *)
(* applied in one atomic step by the modules that hold the ledger.         *)
(*                                                                         *)
(* The owner, the lease and the last error are written but never read by   *)
(* the runtime, so they are not part of the row.                           *)
(***************************************************************************)
EXTENDS Naturals

CONSTANTS
    MaxCrashes,     \* worker.py MAX_CRASHES: crashes before the dead letter
    None            \* no row, no continuation, no resolution

ASSUME MaxCrashesAssumption == MaxCrashes \in Nat \ {0}

\* The statuses the table accepts: CHECK in 013_execution_tier.sql.
RowStatus == {"queued", "running", "retryable", "done", "dead"}

Row == [status: RowStatus, epoch: Nat, crashes: Nat]

\* A row that a claim, a recovery or a rebuild may still pick up.
Claimable(row) == row # None /\ row.status \in {"queued", "retryable"}

\* Mutant: ON CONFLICT leaves the epoch of an existing row alone.
UpsertKeepsEpoch(row, epoch) ==
    [status  |-> "queued",
     epoch   |-> IF row = None THEN epoch ELSE row.epoch,
     crashes |-> IF row = None THEN 0 ELSE row.crashes]

(***************************************************************************)
(* INSERT ... ON CONFLICT DO UPDATE: the crash count of an existing row is *)
(* kept, whatever the new epoch.                                           *)
(***************************************************************************)
UpsertQueued(row, epoch) ==
    [status  |-> "queued",
     epoch   |-> epoch,
     crashes |-> IF row = None THEN 0 ELSE row.crashes]

\* Mutants: the claim does not look at the status, or at the epoch.
CanMarkAnyStatus(row, epoch) == row # None /\ row.epoch = epoch
CanMarkAnyEpoch(row, epoch) == Claimable(row)

\* The compare-and-swap of try_mark_running: status and epoch must match.
CanMarkRunning(row, epoch) == Claimable(row) /\ row.epoch = epoch

MarkRunning(row) == [row EXCEPT !.status = "running"]

(***************************************************************************)
(* finalize: no epoch and no owner in its WHERE clause.  The worker also   *)
(* passes "failed", which the CHECK of the table refuses: the statement    *)
(* raises and the row stays as it was (Accepts is then FALSE).             *)
(***************************************************************************)
Accepts(status) == status \in RowStatus

FinalizeFailed(row, status) ==      \* mutant: a status the table does not have
    IF row = None THEN row ELSE [row EXCEPT !.status = "failed"]

Finalize(row, status) ==
    IF row = None THEN row ELSE [row EXCEPT !.status = status]

\* Mutant: one crash too many.
ExhaustedLate(row) == row.crashes + 1 > MaxCrashes

\* mark_retryable: one more crash, and the row is dead at the budget.
Exhausted(row) == row.crashes + 1 >= MaxCrashes

MarkRetryable(row) ==
    [row EXCEPT !.crashes = @ + 1,
                !.status  = IF Exhausted(row) THEN "dead" ELSE "retryable"]
=============================================================================
