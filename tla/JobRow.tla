------------------------------- MODULE JobRow -------------------------------
(***************************************************************************)
(* The row of table "jobs" (backend/app/models/job.py) and the way the     *)
(* ORM writes it.                                                          *)
(*                                                                         *)
(* A service function loads a row into a Job object, assigns attributes    *)
(* and commits.  SQLAlchemy then emits UPDATE jobs SET ... WHERE id = ?    *)
(* whose SET list names only the columns whose value differs from the one  *)
(* that was loaded; nothing in the WHERE clause refers to the status or to *)
(* a version.  Under READ COMMITTED the UPDATE is applied to the newest    *)
(* committed row, whatever happened to that row since it was loaded.       *)
(*                                                                         *)
(* Clock readings are abstracted to what the properties tell apart:        *)
(* lease_expires_at (and locked_at, always assigned with it) and           *)
(* completed_at to whether they are set; run_at and the passing of the     *)
(* lease are kept outside the row, as sets of jobs, by the modules that    *)
(* use this one.                                                           *)
(***************************************************************************)
EXTENDS Naturals

CONSTANTS
    Workers,      \* worker ids; WORKER_ID is unique per running process
    MaxAttempts,  \* jobs.max_attempts
    NULL          \* the SQL null

ASSUME MaxAttemptsAssumption == MaxAttempts \in Nat \ {0}
ASSUME NullAssumption == NULL \notin Workers

\* JobStatus, and "none" for a row that does not exist yet.
JobStatus == {"pending", "running", "succeeded", "dead_lettered", "cancelled"}
Status == JobStatus \cup {"none"}

\* attempts is compared with max_attempts and with 0 only, so it is counted up
\* to MaxAttempts + 1, which stands for every larger value.
Attempts == 0 .. (MaxAttempts + 1)
OneMore(n) == IF n <= MaxAttempts THEN n + 1 ELSE n

Row == [status    : Status,
        locked_by : Workers \cup {NULL},
        leased    : BOOLEAN,    \* locked_at and lease_expires_at are set
        attempts  : Attempts,
        completed : BOOLEAN]    \* completed_at is set

NoRow == [status |-> "none", locked_by |-> NULL, leased |-> FALSE,
          attempts |-> 0, completed |-> FALSE]

NewRow == [NoRow EXCEPT !.status = "pending"]

Unlocked(row) == [row EXCEPT !.locked_by = NULL, !.leased = FALSE]

-----------------------------------------------------------------------------
(* The values each service function assigns to the object it has loaded.   *)
(* The definitions marked faulty are not used: they are mistakes one could *)
(* make in the function that follows, and the properties must notice them. *)

ClaimedBy(row, w) ==
    [row EXCEPT !.status = "running", !.locked_by = w, !.leased = TRUE,
                !.attempts = OneMore(@)]

\* Faulty: the lease outlives its owner.
SucceededKeepsLease(row) ==
    [row EXCEPT !.status = "succeeded", !.locked_by = NULL, !.completed = TRUE]

Succeeded(row) == [Unlocked(row) EXCEPT !.status = "succeeded", !.completed = TRUE]

\* Faulty: one attempt too many.
RetriesLeftInclusive(row) == row.attempts <= MaxAttempts

RetriesLeft(row) == row.attempts < MaxAttempts

\* Faulty: only a retry releases the job.
FailedKeepsOwner(row) ==
    IF RetriesLeft(row) THEN [Unlocked(row) EXCEPT !.status = "pending"]
    ELSE [row EXCEPT !.status = "dead_lettered"]

\* Faulty: nothing is ever dead-lettered.
FailedAlwaysRetries(row) == [Unlocked(row) EXCEPT !.status = "pending"]

Failed(row) ==
    [Unlocked(row) EXCEPT
        !.status = IF RetriesLeft(row) THEN "pending" ELSE "dead_lettered"]

\* Faulty: the job stays running, without an owner.
RecoveredStaysRunning(row) == Unlocked(row)

\* Faulty: recovery gives the attempt back.
RecoveredGivesBack(row) ==
    [Unlocked(row) EXCEPT !.status = "pending", !.attempts = IF @ > 0 THEN @ - 1 ELSE @]

Recovered(row) == [Unlocked(row) EXCEPT !.status = "pending"]

Cancelled(row) == [row EXCEPT !.status = "cancelled"]

\* Faulty: a manual retry takes one attempt back instead of all.
ManuallyRetriedOnce(row) ==
    [Unlocked(row) EXCEPT !.status = "pending", !.attempts = @ - 1, !.completed = FALSE]

ManuallyRetried(row) ==
    [Unlocked(row) EXCEPT !.status = "pending", !.attempts = 0, !.completed = FALSE]

-----------------------------------------------------------------------------
(* What the UPDATE leaves in the database: new where the object's          *)
(* attribute differs from the loaded one, the stored column elsewhere.  A  *)
(* completed_at that is assigned a clock reading always differs.           *)
Flush(row, loaded, new) ==
    [status    |-> IF new.status # loaded.status THEN new.status ELSE row.status,
     locked_by |-> IF new.locked_by # loaded.locked_by THEN new.locked_by ELSE row.locked_by,
     leased    |-> IF new.leased # loaded.leased THEN new.leased ELSE row.leased,
     attempts  |-> IF new.attempts # loaded.attempts THEN new.attempts ELSE row.attempts,
     completed |-> \/ new.status = "succeeded"
                  \/ (row.completed /\ new.completed = loaded.completed)]
=============================================================================
