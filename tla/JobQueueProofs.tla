--------------------------- MODULE JobQueueProofs ---------------------------
(***************************************************************************)
(* Safety of JobQueue and of its audit for any set of jobs, workers and    *)
(* requests and any max_attempts, without assumptions on the length of     *)
(* handlers.                                                               *)
(***************************************************************************)
EXTENDS ClaimAudit, TLAPS

\* The columns of one row, whoever wrote them; a row that does not exist is
\* empty.
RowOK(row) ==
    /\ row.status = "none" => row.locked_by = NULL /\ row.attempts = 0
    /\ row.leased <=> row.locked_by # NULL
    /\ row.status = "running" => row.locked_by # NULL
    /\ row.status \in {"succeeded", "dead_lettered"} => row.locked_by = NULL
    /\ row.status = "succeeded" => row.completed

\* What the guards of the loading step establish about the loaded row.
Guarded(op, loaded) ==
    /\ op \in {"success", "failure"} => loaded.status = "running"
    /\ op = "cancel" => loaded.status = "pending"
    /\ op = "retry" => loaded.status \in MANUAL_RETRY_STATUSES

\* The inductive invariant: rows are coherent when they are stored, and were
\* when they were loaded, so the columns a commit changes form a coherent set.
RowsOK == \A j \in Jobs : RowOK(jobs[j])

LoadsOK ==
    \A a \in Actors : txn[a] # NULL =>
        RowOK(txn[a].loaded) /\ Guarded(txn[a].op, txn[a].loaded)

TasksOK == \A w \in Workers : pc[w] = "executing" => task[w] \in Jobs

IInv == TypeOK /\ RowsOK /\ LoadsOK /\ TasksOK

-----------------------------------------------------------------------------
(* Rows and their flush.                                                   *)

\* Attempts stay in their range when one is added.
LEMMA OneMoreType == \A n \in Attempts : OneMore(n) \in Attempts
BY MaxAttemptsAssumption DEF OneMore, Attempts

\* Every service function assigns values of the columns' types.
LEMMA AssignedRows ==
    ASSUME NEW row \in Row
    PROVE  /\ Cancelled(row) \in Row
           /\ ManuallyRetried(row) \in Row
           /\ Succeeded(row) \in Row
           /\ Failed(row) \in Row
           /\ Recovered(row) \in Row
           /\ \A w \in Workers : ClaimedBy(row, w) \in Row
<1>1. 0 \in Attempts
  BY MaxAttemptsAssumption DEF Attempts
<1> QED
  BY <1>1, OneMoreType DEF Row, Status, JobStatus, Cancelled, ManuallyRetried, Succeeded,
     Failed, Recovered, ClaimedBy, Unlocked

\* An UPDATE keeps the columns' types.
LEMMA FlushType ==
    ASSUME NEW row \in Row, NEW loaded \in Row, NEW new \in Row
    PROVE  Flush(row, loaded, new) \in Row
BY DEF Flush, Row

\* A claim and a recovery, which hold the row's lock, leave a coherent row.
LEMMA LockedWritesOK ==
    ASSUME NEW row \in Row
    PROVE  /\ RowOK(Recovered(row))
           /\ \A w \in Workers : RowOK(ClaimedBy(row, w))
BY NullAssumption DEF Row, RowOK, Recovered, ClaimedBy, Unlocked

\* An unlocked writer leaves a coherent row, whatever coherent row it finds.
LEMMA FlushOK ==
    ASSUME NEW row \in Row, NEW loaded \in Row, RowOK(row), RowOK(loaded)
    PROVE  /\ loaded.status = "pending" => RowOK(Flush(row, loaded, Cancelled(loaded)))
           /\ loaded.status \in MANUAL_RETRY_STATUSES =>
                RowOK(Flush(row, loaded, ManuallyRetried(loaded)))
           /\ loaded.status = "running" => RowOK(Flush(row, loaded, Succeeded(loaded)))
           /\ loaded.status = "running" => RowOK(Flush(row, loaded, Failed(loaded)))
<1>1. ASSUME loaded.status = "pending"
      PROVE  RowOK(Flush(row, loaded, Cancelled(loaded)))
  BY <1>1 DEF Row, RowOK, Flush, Cancelled
<1>2. ASSUME loaded.status \in MANUAL_RETRY_STATUSES
      PROVE  RowOK(Flush(row, loaded, ManuallyRetried(loaded)))
  BY <1>2 DEF Row, RowOK, Flush, ManuallyRetried, Unlocked, MANUAL_RETRY_STATUSES
<1>3. ASSUME loaded.status = "running"
      PROVE  RowOK(Flush(row, loaded, Succeeded(loaded)))
  BY <1>3 DEF Row, RowOK, Flush, Succeeded, Unlocked
<1>4. ASSUME loaded.status = "running"
      PROVE  RowOK(Flush(row, loaded, Failed(loaded)))
  BY <1>4 DEF Row, RowOK, Flush, Failed, Unlocked
<1> QED
  BY <1>1, <1>2, <1>3, <1>4

-----------------------------------------------------------------------------
(* The invariant, action by action.                                        *)

\* Nothing is stored, loaded or running at the start.
LEMMA InitIInv == Init => IInv
<1> SUFFICES ASSUME Init PROVE IInv
  OBVIOUS
<1>1. NoRow \in Row /\ RowOK(NoRow)
  BY MaxAttemptsAssumption DEF NoRow, Row, Status, JobStatus, Attempts, RowOK
<1>2. NoScan \in Scan
  BY DEF NoScan, Scan
<1>3. TypeOK
  BY <1>1, <1>2 DEF Init, TypeOK, WorkerState
<1>4. RowsOK
  BY <1>1 DEF Init, RowsOK
<1>5. LoadsOK /\ TasksOK
  BY DEF Init, LoadsOK, TasksOK
<1> QED
  BY <1>3, <1>4, <1>5 DEF IInv

\* A step that loads a row remembers a coherent row that passed its guard.
LEMMA LoadIInv ==
    ASSUME IInv, NEW a \in Actors, NEW op \in Operation, NEW j \in Jobs,
           Load(a, op, j), Guarded(op, jobs[j])
    PROVE  /\ txn' \in [Actors -> Txn \cup {NULL}]
           /\ \A b \in Actors : txn'[b] # NULL =>
                RowOK(txn'[b].loaded) /\ Guarded(txn'[b].op, txn'[b].loaded)
<1>1. jobs[j] \in Row /\ RowOK(jobs[j])
  BY DEF IInv, TypeOK, RowsOK
<1>2. [op |-> op, job |-> j, loaded |-> jobs[j]] \in Txn
  BY <1>1 DEF Txn
<1> QED
  BY <1>1, <1>2 DEF Load, IInv, TypeOK, LoadsOK

\* A commit of an unlocked transaction stores a coherent row.
LEMMA FlushIInv ==
    ASSUME IInv, NEW a \in Actors, NEW op \in Operation, NEW new \in Row,
           NEW event \in JobEventType,
           FlushAndCommit(a, op, new, event),
           RowOK(Flush(jobs[txn[a].job], txn[a].loaded, new))
    PROVE  /\ txn[a].job \in Jobs
           /\ jobs' \in [Jobs -> Row]
           /\ \A j \in Jobs : RowOK(jobs'[j])
           /\ last_event' \in [Jobs -> JobEventType \cup {NULL}]
           /\ lapsed' \subseteq Jobs
           /\ overwritten' \subseteq Jobs
           /\ txn' \in [Actors -> Txn \cup {NULL}]
           /\ \A b \in Actors : txn'[b] # NULL =>
                RowOK(txn'[b].loaded) /\ Guarded(txn'[b].op, txn'[b].loaded)
<1>1. txn[a] \in Txn
  BY DEF FlushAndCommit, IInv, TypeOK
<1>2. txn[a].job \in Jobs /\ txn[a].loaded \in Row
  BY <1>1 DEF Txn
<1>3. jobs[txn[a].job] \in Row
  BY <1>2 DEF IInv, TypeOK
<1>4. Flush(jobs[txn[a].job], txn[a].loaded, new) \in Row
  BY <1>2, <1>3, FlushType
<1>5. jobs' \in [Jobs -> Row] /\ \A j \in Jobs : RowOK(jobs'[j])
  BY <1>2, <1>4 DEF FlushAndCommit, Write, IInv, TypeOK, RowsOK
<1>6. last_event' \in [Jobs -> JobEventType \cup {NULL}]
  BY <1>2 DEF FlushAndCommit, Write, IInv, TypeOK
<1>7. lapsed' \subseteq Jobs /\ overwritten' \subseteq Jobs
  BY <1>2 DEF FlushAndCommit, IInv, TypeOK
<1>8. txn' \in [Actors -> Txn \cup {NULL}]
  BY DEF FlushAndCommit, IInv, TypeOK
<1>9. \A b \in Actors : txn'[b] # NULL =>
        RowOK(txn'[b].loaded) /\ Guarded(txn'[b].op, txn'[b].loaded)
  BY DEF FlushAndCommit, IInv, TypeOK, LoadsOK
<1> QED
  BY <1>2, <1>5, <1>6, <1>7, <1>8, <1>9

\* The row an open transaction has loaded, with what its operation needs.
LEMMA LoadedRow ==
    ASSUME IInv, NEW a \in Actors, txn[a] # NULL
    PROVE  /\ txn[a].op \in Operation /\ txn[a].job \in Jobs /\ txn[a].loaded \in Row
           /\ jobs[txn[a].job] \in Row /\ RowOK(jobs[txn[a].job])
           /\ RowOK(txn[a].loaded) /\ Guarded(txn[a].op, txn[a].loaded)
<1>1. txn[a] \in Txn
  BY DEF IInv, TypeOK
<1>2. txn[a].op \in Operation /\ txn[a].job \in Jobs /\ txn[a].loaded \in Row
  BY <1>1 DEF Txn
<1> QED
  BY <1>2 DEF IInv, TypeOK, RowsOK, LoadsOK

\* A step of a request keeps the invariant.
LEMMA ApiIInv == ASSUME IInv, NEW c \in Clients, Api(c) PROVE IInv'
<1> c \in Actors
  BY DEF Actors
<1>1. ASSUME NEW j \in Jobs, CancelLoad(c, j) PROVE IInv'
  <2>1. Guarded("cancel", jobs[j]) /\ "cancel" \in Operation
    BY <1>1 DEF CancelLoad, Guarded, Operation
  <2> QED
    BY <1>1, <2>1, LoadIInv DEF CancelLoad, IInv, TypeOK, RowsOK, LoadsOK, TasksOK, store
<1>2. ASSUME NEW j \in Jobs, RetryLoad(c, j) PROVE IInv'
  <2>1. Guarded("retry", jobs[j]) /\ "retry" \in Operation
    BY <1>2 DEF RetryLoad, Guarded, Operation
  <2> QED
    BY <1>2, <2>1, LoadIInv DEF RetryLoad, IInv, TypeOK, RowsOK, LoadsOK, TasksOK, store
<1>3. CASE CancelCommit(c)
  <2> DEFINE t == txn[c]
  <2>1. t # NULL /\ t.op = "cancel"
    BY <1>3 DEF CancelCommit, FlushAndCommit
  <2>2. Cancelled(t.loaded) \in Row /\ RowOK(Flush(jobs[t.job], t.loaded, Cancelled(t.loaded)))
    BY <2>1, LoadedRow, AssignedRows, FlushOK DEF Guarded
  <2>3. "cancel" \in Operation /\ "job_cancelled" \in JobEventType
    BY DEF Operation, JobEventType
  <2> QED
    BY <1>3, <2>2, <2>3, FlushIInv DEF CancelCommit, IInv, TypeOK, RowsOK, LoadsOK, TasksOK
<1>4. CASE RetryCommit(c)
  <2> DEFINE t == txn[c]
  <2>1. t # NULL /\ t.op = "retry"
    BY <1>4 DEF RetryCommit, FlushAndCommit
  <2>2. /\ ManuallyRetried(t.loaded) \in Row
        /\ RowOK(Flush(jobs[t.job], t.loaded, ManuallyRetried(t.loaded)))
    BY <2>1, LoadedRow, AssignedRows, FlushOK DEF Guarded
  <2>3. "retry" \in Operation /\ "job_manually_retried" \in JobEventType
    BY DEF Operation, JobEventType
  <2> QED
    BY <1>4, <2>2, <2>3, FlushIInv DEF RetryCommit, IInv, TypeOK, RowsOK, LoadsOK, TasksOK
<1>5. CASE Abandon(c)
  BY <1>5 DEF Abandon, IInv, TypeOK, RowsOK, LoadsOK, TasksOK, store
<1> QED
  BY <1>1, <1>2, <1>3, <1>4, <1>5 DEF Api

\* A step of a worker's loop keeps the invariant.
LEMMA RoundIInv == ASSUME IInv, NEW w \in Workers, Round(w) PROVE IInv'
<1> w \in Actors
  BY DEF Actors
<1>1. CASE ScanStart(w)
  <2> DEFINE found == {j \in Jobs : Abandoned(j) /\ ~RowLocked(j)}
  <2>1. [jobs |-> found, clears |-> Clears(found)] \in Scan
    BY DEF Scan, Clears
  <2>2. pc' = [pc EXCEPT ![w] = IF found = {} THEN "claiming" ELSE "scanning"]
    BY <1>1 DEF ScanStart
  <2>3. pc' \in [Workers -> WorkerState] /\ TasksOK'
    BY <1>1, <2>2 DEF ScanStart, IInv, TypeOK, TasksOK, WorkerState
  <2>4. scan' \in [Workers -> Scan]
    BY <1>1, <2>1 DEF ScanStart, IInv, TypeOK
  <2> QED
    BY <1>1, <2>3, <2>4 DEF ScanStart, IInv, TypeOK, RowsOK, LoadsOK, store
<1>2. CASE ScanCommit(w)
  <2>1. \A j \in Jobs : jobs'[j] \in Row /\ RowOK(jobs'[j])
    BY <1>2, AssignedRows, LockedWritesOK DEF ScanCommit, IInv, TypeOK, RowsOK
  <2>2. jobs' \in [Jobs -> Row]
    BY <1>2, <2>1 DEF ScanCommit
  <2>3. last_event' \in [Jobs -> JobEventType \cup {NULL}]
    BY <1>2 DEF ScanCommit, IInv, TypeOK, JobEventType
  <2>4. scan[w] \in Scan /\ scan[w].jobs \subseteq Jobs /\ NoScan \in Scan
    BY DEF IInv, TypeOK, Scan, NoScan
  <2>5. due' \subseteq Jobs /\ lapsed' \subseteq Jobs /\ scan' \in [Workers -> Scan]
    BY <1>2, <2>4 DEF ScanCommit, IInv, TypeOK
  <2>6. current_job' \in [Workers -> Jobs \cup {NULL}]
    BY <1>2 DEF ScanCommit, IInv, TypeOK
  <2>7. pc' \in [Workers -> WorkerState] /\ TasksOK'
    BY <1>2 DEF ScanCommit, IInv, TypeOK, TasksOK, WorkerState
  <2> QED
    BY <1>2, <2>1, <2>2, <2>3, <2>5, <2>6, <2>7
    DEF ScanCommit, IInv, TypeOK, RowsOK, LoadsOK
<1>3. ASSUME NEW j \in Jobs, Claim(w, j) PROVE IInv'
  <2>1. ClaimedBy(jobs[j], w) \in Row /\ RowOK(ClaimedBy(jobs[j], w))
    BY AssignedRows, LockedWritesOK DEF IInv, TypeOK
  <2>2. jobs' \in [Jobs -> Row] /\ RowsOK'
    BY <1>3, <2>1 DEF Claim, Write, IInv, TypeOK, RowsOK
  <2>3. pc' \in [Workers -> WorkerState] /\ TasksOK' /\ task' \in [Workers -> Jobs \cup {NULL}]
    BY <1>3 DEF Claim, IInv, TypeOK, TasksOK, WorkerState
  <2>4. last_event' \in [Jobs -> JobEventType \cup {NULL}]
    BY <1>3 DEF Claim, Write, IInv, TypeOK, JobEventType
  <2> QED
    BY <1>3, <2>2, <2>3, <2>4 DEF Claim, IInv, TypeOK, LoadsOK
<1>4. CASE ClaimNothing(w)
  BY <1>4 DEF ClaimNothing, IInv, TypeOK, RowsOK, LoadsOK, TasksOK, store, WorkerState
<1>5. ASSUME NEW op \in {"success", "failure"}, FinishLoad(w, op) PROVE IInv'
  <2>1. task[w] \in Jobs /\ op \in Operation /\ Guarded(op, jobs[task[w]])
    BY <1>5 DEF FinishLoad, IInv, TasksOK, Owns, Guarded, Operation
  <2>2. pc' \in [Workers -> WorkerState] /\ TasksOK'
    BY <1>5 DEF FinishLoad, IInv, TypeOK, TasksOK, WorkerState
  <2> QED
    BY <1>5, <2>1, <2>2, LoadIInv DEF FinishLoad, IInv, TypeOK, RowsOK, LoadsOK, store
<1>6. CASE GiveUp(w)
  BY <1>6 DEF GiveUp, IInv, TypeOK, RowsOK, LoadsOK, TasksOK, store, WorkerState
<1>7. ASSUME FinishRound(w)
      PROVE  /\ pc' \in [Workers -> WorkerState] /\ task' \in [Workers -> Jobs \cup {NULL}]
             /\ current_job' \in [Workers -> Jobs \cup {NULL}] /\ TasksOK'
             /\ scan_due' = scan_due /\ scan' = scan
  BY <1>7 DEF FinishRound, IInv, TypeOK, TasksOK, WorkerState
<1>8. CASE CompleteSuccess(w)
  <2> DEFINE t == txn[w]
  <2>1. t # NULL /\ t.op = "success"
    BY <1>8 DEF CompleteSuccess, FlushAndCommit
  <2>2. Succeeded(t.loaded) \in Row /\ RowOK(Flush(jobs[t.job], t.loaded, Succeeded(t.loaded)))
    BY <2>1, LoadedRow, AssignedRows, FlushOK DEF Guarded
  <2>3. "success" \in Operation /\ "job_succeeded" \in JobEventType
    BY DEF Operation, JobEventType
  <2> QED
    BY <1>7, <1>8, <2>2, <2>3, FlushIInv DEF CompleteSuccess, IInv, TypeOK, RowsOK, LoadsOK
<1>9. CASE CompleteFailure(w)
  <2> DEFINE t == txn[w]
             event == IF RetriesLeft(t.loaded) THEN "job_retry_scheduled" ELSE "job_failed"
  <2>1. t # NULL /\ t.op = "failure"
    BY <1>9 DEF CompleteFailure, FlushAndCommit
  <2>2. Failed(t.loaded) \in Row /\ RowOK(Flush(jobs[t.job], t.loaded, Failed(t.loaded)))
    BY <2>1, LoadedRow, AssignedRows, FlushOK DEF Guarded
  <2>3. "failure" \in Operation /\ event \in JobEventType
    BY DEF Operation, JobEventType
  <2>4. FlushAndCommit(w, "failure", Failed(t.loaded), event) /\ FinishRound(w)
    BY <1>9 DEF CompleteFailure
  <2>5. due' \subseteq Jobs
    BY <1>9 DEF CompleteFailure, IInv, TypeOK
  <2> HIDE DEF event
  <2> QED
    BY <1>7, <2>2, <2>3, <2>4, <2>5, FlushIInv DEF IInv, TypeOK, RowsOK, LoadsOK
<1> QED
  BY <1>1, <1>2, <1>3, <1>4, <1>5, <1>6, <1>8, <1>9 DEF Round

\* The invariant is inductive.
LEMMA NextIInv == IInv /\ [Next]_vars => IInv'
<1> SUFFICES ASSUME IInv, [Next]_vars PROVE IInv'
  OBVIOUS
<1>1. ASSUME NEW j \in Jobs, CreateJob(j) PROVE IInv'
  <2>1. NewRow \in Row /\ RowOK(NewRow)
    <3>1. NoRow \in Row /\ RowOK(NoRow)
      BY MaxAttemptsAssumption DEF NoRow, Row, Status, JobStatus, Attempts, RowOK
    <3>2. ASSUME NEW row \in Row, RowOK(row), NEW new, new = [row EXCEPT !.status = "pending"]
          PROVE  new \in Row /\ RowOK(new)
      BY <3>2 DEF Row, Status, JobStatus, RowOK
    <3> QED
      BY <3>1, <3>2 DEF NewRow
  <2>2. jobs' \in [Jobs -> Row] /\ RowsOK'
    BY <1>1, <2>1 DEF CreateJob, Write, IInv, TypeOK, RowsOK
  <2>3. last_event' \in [Jobs -> JobEventType \cup {NULL}]
    BY <1>1 DEF CreateJob, Write, IInv, TypeOK, JobEventType
  <2> QED
    BY <1>1, <2>2, <2>3 DEF CreateJob, IInv, TypeOK, LoadsOK, TasksOK
<1>2. ASSUME NEW j \in Jobs, LeaseLapses(j) \/ BackoffEnds(j) PROVE IInv'
  BY <1>2 DEF LeaseLapses, BackoffEnds, IInv, TypeOK, RowsOK, LoadsOK, TasksOK
<1>3. ASSUME NEW c \in Clients, Api(c) PROVE IInv'
  BY <1>3, ApiIInv
<1>4. ASSUME NEW w \in Workers, Round(w) PROVE IInv'
  BY <1>4, RoundIInv
<1>5. ASSUME NEW w \in Workers, Start(w) \/ Stop(w) \/ ScanTimer(w) PROVE IInv'
  BY <1>5 DEF Start, Stop, ScanTimer, IInv, TypeOK, RowsOK, LoadsOK, TasksOK, store, WorkerState
<1>6. ASSUME NEW w \in Workers, Crash(w) PROVE IInv'
  <2>1. NoScan \in Scan
    BY DEF NoScan, Scan
  <2> QED
    BY <1>6, <2>1 DEF Crash, IInv, TypeOK, RowsOK, LoadsOK, TasksOK, store, WorkerState
<1>7. CASE UNCHANGED vars
  BY <1>7 DEF vars, IInv, TypeOK, RowsOK, LoadsOK, TasksOK
<1> QED
  BY <1>1, <1>2, <1>3, <1>4, <1>5, <1>6, <1>7 DEF Next

\* The inductive invariant holds throughout.
THEOREM Invariance == Spec => []IInv
  BY InitIInv, NextIInv, PTL DEF Spec

\* The columns, the processes' locals and the open transactions keep their
\* types, whatever the interleaving.
THEOREM TypeCorrect == Spec => []TypeOK
<1>1. IInv => TypeOK
  BY DEF IInv
<1> QED
  BY Invariance, <1>1, PTL

\* A running job always carries the owner and the lease that make it visible
\* to recover_expired_leases: no interleaving strands it in running.
THEOREM Recoverable == Spec => []RunningIsRecoverable
<1>1. IInv => RunningIsRecoverable
  BY DEF IInv, TypeOK, RowsOK, RowOK, RunningIsRecoverable, Row
<1> QED
  BY Invariance, <1>1, PTL

\* A job that was completed or dead-lettered is owned by nobody.
THEOREM FinishedUnlocked == Spec => []FinishedIsUnlocked
<1>1. IInv => FinishedIsUnlocked
  BY DEF IInv, TypeOK, RowsOK, RowOK, FinishedIsUnlocked, Row
<1> QED
  BY Invariance, <1>1, PTL

\* Column-wise writes of concurrent transactions never separate an owner from
\* its lease nor a success from its completed_at.
THEOREM ColumnsCoherent == Spec => []ColumnsMoveTogether
<1>1. IInv => ColumnsMoveTogether
  BY DEF IInv, RowsOK, RowOK, ColumnsMoveTogether
<1> QED
  BY Invariance, <1>1, PTL

-----------------------------------------------------------------------------
(* Who writes rows, and what.                                              *)

\* The commit of an unlocked transaction, by a request or by a worker.
RequestCommits(a) == CancelCommit(a) \/ RetryCommit(a)
WorkerCommits(a) == CompleteSuccess(a) \/ CompleteFailure(a)

\* What an operation assigns to the row it has loaded, and the event it records.
Assigned(op, old, new, event) ==
    \/ /\ op = "cancel" /\ event = "job_cancelled"
       /\ old.status = "pending" /\ new.status = "cancelled"
       /\ new.locked_by = old.locked_by /\ new.attempts = old.attempts
    \/ /\ op = "retry" /\ event = "job_manually_retried"
       /\ old.status \in {"dead_lettered", "cancelled"} /\ new.status = "pending"
       /\ new.locked_by = NULL /\ new.attempts = 0
    \/ /\ op = "success" /\ event = "job_succeeded"
       /\ old.status = "running" /\ new.status = "succeeded"
       /\ new.locked_by = NULL /\ new.attempts = old.attempts
    \/ /\ op = "failure" /\ old.status = "running"
       /\ new.locked_by = NULL /\ new.attempts = old.attempts
       /\ \/ /\ old.attempts < MaxAttempts
             /\ new.status = "pending" /\ event = "job_retry_scheduled"
          \/ /\ old.attempts >= MaxAttempts
             /\ new.status = "dead_lettered" /\ event = "job_failed"

\* Each commit flushes what its operation assigned to the row it had loaded.
LEMMA CommitFlushes ==
    ASSUME IInv, NEW a \in Actors, RequestCommits(a) \/ WorkerCommits(a)
    PROVE  \E new \in Row, event \in JobEventType :
              /\ FlushAndCommit(a, txn[a].op, new, event)
              /\ Assigned(txn[a].op, txn[a].loaded, new, event)
<1> DEFINE t == txn[a]
           event == IF RetriesLeft(t.loaded) THEN "job_retry_scheduled" ELSE "job_failed"
<1>1. t # NULL
  BY DEF RequestCommits, WorkerCommits, CancelCommit, RetryCommit, CompleteSuccess,
     CompleteFailure, FlushAndCommit
<1>2. t.loaded \in Row /\ Guarded(t.op, t.loaded) /\ t.loaded.attempts \in Nat
  BY <1>1, LoadedRow, MaxAttemptsAssumption DEF Row, Attempts
<1>3. CASE CancelCommit(a)
  <2>1. t.op = "cancel" /\ FlushAndCommit(a, t.op, Cancelled(t.loaded), "job_cancelled")
    BY <1>3 DEF CancelCommit, FlushAndCommit
  <2>2. Assigned(t.op, t.loaded, Cancelled(t.loaded), "job_cancelled")
    BY <1>2, <2>1 DEF Assigned, Guarded, Cancelled, Row
  <2> QED
    BY <1>2, <2>1, <2>2, AssignedRows DEF JobEventType
<1>4. CASE RetryCommit(a)
  <2>1. t.op = "retry" /\ FlushAndCommit(a, t.op, ManuallyRetried(t.loaded), "job_manually_retried")
    BY <1>4 DEF RetryCommit, FlushAndCommit
  <2>2. Assigned(t.op, t.loaded, ManuallyRetried(t.loaded), "job_manually_retried")
    BY <1>2, <2>1 DEF Assigned, Guarded, ManuallyRetried, Unlocked, MANUAL_RETRY_STATUSES, Row
  <2> QED
    BY <1>2, <2>1, <2>2, AssignedRows DEF JobEventType
<1>5. CASE CompleteSuccess(a)
  <2>1. t.op = "success" /\ FlushAndCommit(a, t.op, Succeeded(t.loaded), "job_succeeded")
    BY <1>5 DEF CompleteSuccess, FlushAndCommit
  <2>2. Assigned(t.op, t.loaded, Succeeded(t.loaded), "job_succeeded")
    BY <1>2, <2>1 DEF Assigned, Guarded, Succeeded, Unlocked, Row
  <2> QED
    BY <1>2, <2>1, <2>2, AssignedRows DEF JobEventType
<1>6. CASE CompleteFailure(a)
  <2>1. t.op = "failure" /\ FlushAndCommit(a, t.op, Failed(t.loaded), event)
    BY <1>6 DEF CompleteFailure, FlushAndCommit
  <2>2. /\ Failed(t.loaded).locked_by = NULL /\ Failed(t.loaded).attempts = t.loaded.attempts
        /\ Failed(t.loaded).status = IF RetriesLeft(t.loaded) THEN "pending" ELSE "dead_lettered"
    BY <1>2 DEF Failed, Unlocked, Row
  <2>3. Assigned(t.op, t.loaded, Failed(t.loaded), event)
    <3>1. CASE RetriesLeft(t.loaded)
      BY <1>2, <2>1, <2>2, <3>1 DEF Assigned, Guarded, RetriesLeft
    <3>2. CASE ~RetriesLeft(t.loaded)
      <4>1. t.loaded.attempts >= MaxAttempts
        BY <1>2, <3>2, MaxAttemptsAssumption DEF RetriesLeft
      <4> QED
        BY <1>2, <2>1, <2>2, <3>2, <4>1 DEF Assigned, Guarded
    <3> QED
      BY <3>1, <3>2
  <2>4. event \in JobEventType
    BY DEF JobEventType
  <2> HIDE DEF event
  <2> QED
    BY <1>2, <2>1, <2>3, <2>4, AssignedRows
<1> QED
  BY <1>3, <1>4, <1>5, <1>6 DEF RequestCommits, WorkerCommits

\* Such a commit changes one row, which no scan has locked: the status becomes
\* the assigned one, whatever the row was, and attempts change by a retry only;
\* over the row that was loaded it stores just what was assigned.
LEMMA CommitEffect ==
    ASSUME IInv, NEW a \in Actors, RequestCommits(a) \/ WorkerCommits(a),
           NEW j, j = txn[a].job
    PROVE  /\ j \in Jobs /\ ~RowLocked(j) /\ scan' = scan /\ txn' = [txn EXCEPT ![a] = NULL]
           /\ overwritten' = overwritten \cup (IF jobs[j] = txn[a].loaded THEN {} ELSE {j})
           /\ lapsed \ {j} \subseteq lapsed' /\ lapsed' \subseteq lapsed
           /\ \E new \in Row, event \in JobEventType :
                /\ Assigned(txn[a].op, txn[a].loaded, new, event)
                /\ \A k \in Jobs : jobs'[k] = IF k = j THEN Flush(jobs[j], txn[a].loaded, new)
                                              ELSE jobs[k]
                /\ \A k \in Jobs : last_event'[k] = IF k = j THEN event ELSE last_event[k]
<1>1. PICK new \in Row, event \in JobEventType :
         /\ FlushAndCommit(a, txn[a].op, new, event)
         /\ Assigned(txn[a].op, txn[a].loaded, new, event)
  BY CommitFlushes
<1>2. j \in Jobs
  BY <1>1, LoadedRow DEF FlushAndCommit
<1>3. scan' = scan
  BY DEF RequestCommits, WorkerCommits, CancelCommit, RetryCommit, CompleteSuccess,
     CompleteFailure, FinishRound
<1>4. /\ \A k \in Jobs : jobs'[k] = IF k = j THEN Flush(jobs[j], txn[a].loaded, new) ELSE jobs[k]
      /\ \A k \in Jobs : last_event'[k] = IF k = j THEN event ELSE last_event[k]
  BY <1>1, <1>2 DEF FlushAndCommit, Write, IInv, TypeOK
<1>5. /\ ~RowLocked(j) /\ txn' = [txn EXCEPT ![a] = NULL]
      /\ overwritten' = overwritten \cup (IF jobs[j] = txn[a].loaded THEN {} ELSE {j})
      /\ lapsed \ {j} \subseteq lapsed' /\ lapsed' \subseteq lapsed
  BY <1>1, <1>2 DEF FlushAndCommit
<1> QED
  BY <1>1, <1>2, <1>3, <1>4, <1>5

\* Nothing else writes rows but submissions, claims and recovery scans.
LEMMA Writers ==
    ASSUME [Next]_vars
    PROVE  \/ UNCHANGED <<jobs, last_event, current_job, overwritten>>
           \/ \E j \in Jobs : CreateJob(j)
           \/ \E w \in Workers, j \in Jobs : Claim(w, j)
           \/ \E w \in Workers : ScanCommit(w)
           \/ \E c \in Clients : RequestCommits(c)
           \/ \E w \in Workers : WorkerCommits(w)
<1> DEFINE Same == UNCHANGED <<jobs, last_event, current_job, overwritten>>
<1>1. ASSUME NEW j \in Jobs, LeaseLapses(j) \/ BackoffEnds(j) PROVE Same
  BY <1>1 DEF LeaseLapses, BackoffEnds
<1>2. ASSUME NEW c \in Clients, Abandon(c) \/ \E j \in Jobs : CancelLoad(c, j) \/ RetryLoad(c, j)
      PROVE  Same
  BY <1>2 DEF Abandon, CancelLoad, RetryLoad, store
<1>3. ASSUME NEW w \in Workers, Start(w) \/ Stop(w) \/ Crash(w) \/ ScanTimer(w) PROVE Same
  BY <1>3 DEF Start, Stop, Crash, ScanTimer, store
<1>4. ASSUME NEW w \in Workers,
             \/ ScanStart(w) \/ ClaimNothing(w) \/ GiveUp(w)
             \/ \E op \in {"success", "failure"} : FinishLoad(w, op)
      PROVE  Same
  BY <1>4 DEF ScanStart, ClaimNothing, GiveUp, FinishLoad, store
<1>5. CASE UNCHANGED vars
  BY <1>5 DEF vars
<1> QED
  BY <1>1, <1>2, <1>3, <1>4, <1>5 DEF Next, Api, Round, RequestCommits, WorkerCommits

-----------------------------------------------------------------------------
(* The timeline.                                                           *)

\* A status and its event are written together: no row's status comes from one
\* transaction and its latest event from another.
LEMMA NextTimeline == IInv /\ TimelineAgrees /\ [Next]_vars => TimelineAgrees'
<1> SUFFICES ASSUME IInv, TimelineAgrees, [Next]_vars, NEW k \in Jobs
             PROVE  jobs'[k].status = StatusOf(last_event'[k])
  BY DEF TimelineAgrees, StatusOf
<1>1. jobs[k] \in Row /\ jobs[k].status = StatusOf(last_event[k])
  BY DEF IInv, TypeOK, TimelineAgrees
<1>2. CASE jobs' = jobs /\ last_event' = last_event
  BY <1>1, <1>2
<1>3. ASSUME NEW j \in Jobs, CreateJob(j) PROVE jobs'[k].status = StatusOf(last_event'[k])
  BY <1>1, <1>3, EventsAssumption
  DEF CreateJob, Write, NewRow, NoRow, IInv, TypeOK, StatusOf, JobEventType
<1>4. ASSUME NEW w \in Workers, NEW j \in Jobs, Claim(w, j)
      PROVE  jobs'[k].status = StatusOf(last_event'[k])
  BY <1>1, <1>4, EventsAssumption
  DEF Claim, Write, ClaimedBy, IInv, TypeOK, Row, StatusOf, JobEventType
<1>5. ASSUME NEW w \in Workers, ScanCommit(w) PROVE jobs'[k].status = StatusOf(last_event'[k])
  BY <1>1, <1>5, EventsAssumption
  DEF ScanCommit, Recovered, Unlocked, Row, StatusOf, JobEventType
<1>6. ASSUME NEW a \in Actors, RequestCommits(a) \/ WorkerCommits(a)
      PROVE  jobs'[k].status = StatusOf(last_event'[k])
  <2> DEFINE t == txn[a]
  <2>1. PICK new \in Row, event \in JobEventType :
           /\ Assigned(t.op, t.loaded, new, event)
           /\ jobs'[k] = IF k = t.job THEN Flush(jobs[t.job], t.loaded, new) ELSE jobs[k]
           /\ last_event'[k] = IF k = t.job THEN event ELSE last_event[k]
    BY <1>6, CommitEffect
  <2>2. new.status # t.loaded.status /\ new.status = StatusOf(event)
    BY <2>1, EventsAssumption DEF Assigned, StatusOf, JobEventType
  <2>3. Flush(jobs[t.job], t.loaded, new).status = new.status
    BY <2>2 DEF Flush
  <2> QED
    BY <1>1, <2>1, <2>2, <2>3
<1> QED
  BY <1>2, <1>3, <1>4, <1>5, <1>6, Writers DEF Actors

\* The event of a job that was committed last always explains its status, even
\* where a commit has written over a row it had not read.  It speaks of the order
\* of the commits, which GET /events, sorted by created_at, may show otherwise.
THEOREM TimelineExplains == Spec => []TimelineAgrees
<1>1. Init => TimelineAgrees
  <2>1. StatusOf(NULL) = "none"
    BY EventsAssumption DEF StatusOf, JobEventType
  <2>2. NoRow.status = "none"
    BY DEF NoRow
  <2> QED
    BY <2>1, <2>2 DEF Init, TimelineAgrees
<1> QED
  BY Invariance, <1>1, NextTimeline, PTL DEF Spec

-----------------------------------------------------------------------------
(* The audit of the claims.                                                *)

\* The recorded numbers are counts, and as long as no manual retry starts a job
\* again, each of its numbers is recorded at most once, and those recorded are
\* not beyond the attempts of the row.
AuditOK ==
    /\ claims \in [Jobs -> [1 .. MaxAttempts -> 0 .. 2]]
    /\ \A j \in Jobs \ retried, n \in 1 .. MaxAttempts :
          claims[j][n] # 0 => claims[j][n] = 1 /\ n <= jobs[j].attempts

\* Attempts are given back by a manual retry only.
LEMMA AttemptsGrow ==
    ASSUME IInv, [Next]_vars, NEW j \in Jobs, ~RetriedNow(j)
    PROVE  jobs'[j].attempts >= jobs[j].attempts
<1>1. /\ jobs[j] \in Row /\ RowOK(jobs[j]) /\ jobs[j].attempts \in Nat
  BY MaxAttemptsAssumption DEF IInv, TypeOK, RowsOK, Row, Attempts
<1>2. CASE jobs' = jobs
  BY <1>1, <1>2
<1>3. ASSUME NEW k \in Jobs, CreateJob(k) PROVE jobs'[j].attempts >= jobs[j].attempts
  BY <1>1, <1>3 DEF CreateJob, Write, NewRow, NoRow, RowOK, IInv, TypeOK
<1>4. ASSUME NEW w \in Workers, NEW k \in Jobs, Claim(w, k)
      PROVE  jobs'[j].attempts >= jobs[j].attempts
  BY <1>1, <1>4, MaxAttemptsAssumption DEF Claim, Write, ClaimedBy, OneMore, IInv, TypeOK, Row
<1>5. ASSUME NEW w \in Workers, ScanCommit(w) PROVE jobs'[j].attempts >= jobs[j].attempts
  <2>1. Recovered(jobs[j]).attempts = jobs[j].attempts
    BY <1>1 DEF Recovered, Unlocked, Row
  <2> QED
    BY <1>1, <1>5, <2>1 DEF ScanCommit
<1>6. ASSUME NEW a \in Actors, RequestCommits(a) \/ WorkerCommits(a),
             a \in Clients => txn[a].op # "retry" \/ txn[a].job # j,
             a \in Workers => WorkerCommits(a)
      PROVE  jobs'[j].attempts >= jobs[j].attempts
  <2> DEFINE t == txn[a]
  <2>1. PICK new \in Row, event \in JobEventType :
           /\ Assigned(t.op, t.loaded, new, event)
           /\ jobs'[j] = IF j = t.job THEN Flush(jobs[j], t.loaded, new) ELSE jobs[j]
    BY <1>6, CommitEffect
  <2>2. a \in Workers => t.op # "retry"
    BY <1>6 DEF WorkerCommits, CompleteSuccess, CompleteFailure, FlushAndCommit
  <2>3. j = t.job => new.attempts = t.loaded.attempts
    BY <1>6, <2>1, <2>2 DEF Assigned, Actors
  <2>4. j = t.job => Flush(jobs[j], t.loaded, new).attempts = jobs[j].attempts
    BY <2>3 DEF Flush
  <2> QED
    BY <1>1, <2>1, <2>4
<1>7. ASSUME NEW c \in Clients, RequestCommits(c) PROVE jobs'[j].attempts >= jobs[j].attempts
  <2>1. txn[c] # NULL /\ (txn[c].op = "retry" => RetryCommit(c))
    BY <1>7 DEF RequestCommits, CancelCommit, RetryCommit, FlushAndCommit
  <2> QED
    BY <1>6, <1>7, <2>1, ActorsAssumption DEF RetriedNow, Actors
<1> QED
  BY <1>2, <1>3, <1>4, <1>5, <1>6, <1>7, Writers, ActorsAssumption DEF Actors

\* A claim stores, and records, one more than the attempts before.
LEMMA ClaimCounts ==
    ASSUME IInv, NEW j \in Jobs, ClaimedNow(j)
    PROVE  jobs'[j].attempts = OneMore(jobs[j].attempts)
<1>1. PICK w \in Workers : Claim(w, j)
  BY DEF ClaimedNow
<1> QED
  BY <1>1 DEF Claim, Write, ClaimedBy, IInv, TypeOK, Row

\* The audit's invariant is inductive.
LEMMA NextAudit == IInv /\ AuditOK /\ [AuditNext]_<<vars, audit>> => AuditOK'
<1> SUFFICES ASSUME IInv, AuditOK, AuditNext PROVE AuditOK'
  <2>1. CASE UNCHANGED <<vars, audit>>
    BY <2>1 DEF AuditOK, vars, audit
  <2> QED
    BY <2>1
<1>1. claims' \in [Jobs -> [1 .. MaxAttempts -> 0 .. 2]]
  <2>1. \A m \in 0 .. 2 : CountUpTo2(m) \in 0 .. 2
    BY DEF CountUpTo2
  <2>2. ASSUME NEW j \in Jobs PROVE claims'[j] \in [1 .. MaxAttempts -> 0 .. 2]
    BY <2>1 DEF AuditNext, Record, AuditOK
  <2> QED
    BY <2>2 DEF AuditNext, Record
<1>2. ASSUME NEW j \in Jobs \ retried', NEW n \in 1 .. MaxAttempts, claims'[j][n] # 0
      PROVE  claims'[j][n] = 1 /\ n <= jobs'[j].attempts
  <2>1. j \notin retried /\ ~RetriedNow(j)
    BY <1>2 DEF AuditNext, Record
  <2>2. jobs'[j].attempts >= jobs[j].attempts
    BY <2>1, AttemptsGrow DEF AuditNext
  <2>3. jobs[j].attempts \in Nat /\ jobs'[j].attempts \in Nat
    BY NextIInv, MaxAttemptsAssumption DEF AuditNext, IInv, TypeOK, Row, Attempts
  <2>4. claims[j][n] # 0 => claims[j][n] = 1 /\ n <= jobs[j].attempts
    BY <2>1 DEF AuditOK
  <2>5. CASE ClaimedNow(j)
    <3>1. claims'[j][n] = IF n = jobs'[j].attempts THEN CountUpTo2(claims[j][n]) ELSE claims[j][n]
      BY <2>5 DEF AuditNext, Record
    <3>2. n = jobs'[j].attempts => n > jobs[j].attempts
      BY <2>3, <2>5, ClaimCounts, MaxAttemptsAssumption DEF OneMore
    <3> QED
      BY <1>2, <2>2, <2>3, <2>4, <3>1, <3>2 DEF CountUpTo2
  <2>6. CASE ~ClaimedNow(j)
    <3>1. claims'[j] = claims[j]
      BY <2>6 DEF AuditNext, Record
    <3> QED
      BY <1>2, <2>2, <2>3, <2>4, <3>1
  <2> QED
    BY <2>5, <2>6
<1> QED
  BY <1>1, <1>2 DEF AuditOK

\* verify_claims reports a job only if it has been retried by hand: through
\* crashes, lapsed leases and stale commits no attempt is claimed twice.
THEOREM NoFalseDuplicate == AuditSpec => []DuplicateOnlyAfterRetry
<1>1. AuditInit => IInv /\ AuditOK
  BY InitIInv DEF AuditInit, AuditOK
<1>2. IInv /\ [AuditNext]_<<vars, audit>> => IInv'
  BY NextIInv DEF AuditNext, vars
<1>3. AuditOK => DuplicateOnlyAfterRetry
  BY DEF AuditOK, DuplicateOnlyAfterRetry, DuplicateClaims
<1> QED
  BY <1>1, <1>2, <1>3, NextAudit, PTL DEF AuditSpec
=============================================================================
