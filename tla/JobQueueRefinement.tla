------------------------- MODULE JobQueueRefinement -------------------------
(***************************************************************************)
(* What holds of a job until some commit writes over a row it had not      *)
(* read, for any constants.  JobQueue implements JobLifecycle: the job     *)
(* follows the state diagram of README.md.  Its retry budget is kept but   *)
(* for lease recovery, only its owner's worker row points at it, and while *)
(* handlers fit the lease only its owner executes it.                      *)
(***************************************************************************)
EXTENDS JobQueueProofs

\* A scan's rows stay as it selected them, and no two scans share a row.
ScansOK ==
    /\ \A w \in Workers : \A j \in scan[w].jobs : jobs[j].status = "running" /\ j \in lapsed
    /\ \A v, w \in Workers : v # w => scan[v].jobs \cap scan[w].jobs = {}

LInv == IInv /\ ScansOK

\* Nothing exists at the start.
LEMMA InitLInv == Init => LInv
BY InitIInv DEF Init, LInv, ScansOK, NoScan

\* The initial states map to the initial states of the lifecycle.
LEMMA InitLifecycle == Init => Lifecycle!Init
BY DEF Init, NoRow, Lifecycle!Init, Of

-----------------------------------------------------------------------------
(* Every action is a step of the lifecycle.                                *)

\* The columns the lifecycle sees of a flush over the row that was loaded.
LEMMA FlushUnchanged ==
    ASSUME NEW row \in Row, NEW new \in Row
    PROVE  LET r == Flush(row, row, new)
           IN  r.status = new.status /\ r.locked_by = new.locked_by /\ r.attempts = new.attempts
BY DEF Flush

\* What an operation assigns to the current row is a step of the lifecycle.
LEMMA AssignedIsStep ==
    ASSUME NEW j \in Jobs, NEW op, NEW event, NEW new,
           Assigned(op, jobs[j], new, event),
           jobs'[j].status = new.status, jobs'[j].locked_by = new.locked_by,
           jobs'[j].attempts = new.attempts,
           j \in overwritten' <=> j \in overwritten
    PROVE  Lifecycle!Step(j) \/ Lifecycle!Stay(j)
<1>1. CASE j \in overwritten
  BY <1>1 DEF Lifecycle!Stay, Of
<1>2. CASE j \notin overwritten
  <2>1. CASE op = "cancel"
    BY <1>2, <2>1 DEF Assigned, Lifecycle!Step, Lifecycle!Cancel, Lifecycle!Move, Of
  <2>2. CASE op = "retry"
    BY <1>2, <2>2 DEF Assigned, Lifecycle!Step, Lifecycle!ManualRetry, Lifecycle!Move, Of
  <2>3. CASE op = "success"
    BY <1>2, <2>3 DEF Assigned, Lifecycle!Step, Lifecycle!Succeed, Lifecycle!Release,
       Lifecycle!Move, Of
  <2>4. CASE op = "failure"
    BY <1>2, <2>4 DEF Assigned, Lifecycle!Step, Lifecycle!FailAndRetry, Lifecycle!DeadLetter,
       Lifecycle!Release, Lifecycle!Move, Of
  <2> QED
    BY <2>1, <2>2, <2>3, <2>4 DEF Assigned
<1> QED
  BY <1>1, <1>2

\* A job whose row and history do not change stays where it is.
LEMMA StaySame ==
    ASSUME NEW j \in Jobs, jobs'[j] = jobs[j], j \in overwritten' <=> j \in overwritten
    PROVE  Lifecycle!Stay(j)
BY DEF Lifecycle!Stay, Of

\* A commit of an unlocked transaction moves its job along the lifecycle or
\* takes it out of it, and leaves the other jobs alone.
LEMMA CommitStep ==
    ASSUME IInv, NEW a \in Actors, RequestCommits(a) \/ WorkerCommits(a)
    PROVE  Lifecycle!Next
<1> DEFINE j == txn[a].job
<1>1. PICK new \in Row, event \in JobEventType :
         /\ Assigned(txn[a].op, txn[a].loaded, new, event)
         /\ \A k \in Jobs : jobs'[k] = IF k = j THEN Flush(jobs[j], txn[a].loaded, new)
                                       ELSE jobs[k]
  BY CommitEffect
<1>2. /\ j \in Jobs /\ jobs[j] \in Row
      /\ overwritten' = overwritten \cup (IF jobs[j] = txn[a].loaded THEN {} ELSE {j})
  BY CommitEffect DEF IInv, TypeOK
<1>3. SUFFICES ASSUME NEW k \in Jobs PROVE Lifecycle!Step(k) \/ Lifecycle!Stay(k)
  BY DEF Lifecycle!Next
<1>4. CASE k # j
  BY <1>1, <1>2, <1>4, StaySame
<1>5. CASE k = j /\ jobs[j] = txn[a].loaded
  <2>1. Assigned(txn[a].op, jobs[k], new, event) /\ jobs'[k] = Flush(jobs[k], jobs[k], new)
    BY <1>1, <1>5
  <2> QED
    BY <1>2, <1>5, <2>1, FlushUnchanged, AssignedIsStep
<1>6. CASE k = j /\ jobs[j] # txn[a].loaded
  <2>1. CASE k \in overwritten
    BY <1>2, <2>1 DEF Lifecycle!Stay, Of
  <2>2. CASE k \notin overwritten
    <3>1. jobs[k].status # "overwritten"
      BY <1>2, <1>6 DEF Row, Status, JobStatus
    <3>2. Lifecycle!Overwrite(k)
      BY <1>2, <1>6, <2>2, <3>1 DEF Lifecycle!Overwrite, Of
    <3> QED
      BY <3>2 DEF Lifecycle!Step
  <2> QED
    BY <2>1, <2>2
<1> QED
  BY <1>4, <1>5, <1>6

\* A submitted job is created in the lifecycle.
LEMMA CreateStep == ASSUME LInv, NEW j \in Jobs, CreateJob(j) PROVE Lifecycle!Next
<1>1. overwritten' = overwritten /\ jobs' = [jobs EXCEPT ![j] = NewRow]
  BY DEF CreateJob, Write
<1>2. SUFFICES ASSUME NEW k \in Jobs PROVE Lifecycle!Step(k) \/ Lifecycle!Stay(k)
  BY DEF Lifecycle!Next
<1>3. CASE k # j
  BY <1>1, <1>3, StaySame DEF LInv, IInv, TypeOK
<1>4. CASE k = j
  <2>1. jobs[k].status = "none" /\ jobs[k].locked_by = NULL /\ jobs[k].attempts = 0
    BY <1>4 DEF CreateJob, LInv, IInv, RowsOK, RowOK
  <2>2. jobs'[k] = NewRow
    BY <1>1, <1>4 DEF LInv, IInv, TypeOK
  <2>3. NewRow.status = "pending" /\ NewRow.locked_by = NULL /\ NewRow.attempts = 0
    BY DEF NewRow, NoRow
  <2>4. CASE k \in overwritten
    BY <1>1, <2>4 DEF Lifecycle!Stay, Of
  <2>5. CASE k \notin overwritten
    BY <1>1, <2>1, <2>2, <2>3, <2>5 DEF Lifecycle!Step, Lifecycle!Create, Lifecycle!Move, Of
  <2> QED
    BY <2>4, <2>5
<1> QED
  BY <1>3, <1>4

\* A claim holds the row it read: it is the lifecycle's claim.
LEMMA ClaimStep == ASSUME LInv, NEW w \in Workers, NEW j \in Jobs, Claim(w, j) PROVE Lifecycle!Next
<1>1. overwritten' = overwritten /\ jobs' = [jobs EXCEPT ![j] = ClaimedBy(jobs[j], w)]
  BY DEF Claim, Write
<1>2. SUFFICES ASSUME NEW k \in Jobs PROVE Lifecycle!Step(k) \/ Lifecycle!Stay(k)
  BY DEF Lifecycle!Next
<1>3. CASE k # j
  BY <1>1, <1>3, StaySame DEF LInv, IInv, TypeOK
<1>4. CASE k = j
  <2>1. jobs[k].status = "pending" /\ jobs[k] \in Row /\ jobs'[k] = ClaimedBy(jobs[k], w)
    BY <1>1, <1>4 DEF Claim, Claimable, LInv, IInv, TypeOK
  <2>2. /\ jobs'[k].status = "running"
        /\ jobs'[k].locked_by = w
        /\ jobs'[k].attempts = OneMore(jobs[k].attempts)
    BY <2>1 DEF ClaimedBy, Row
  <2>3. CASE k \in overwritten
    BY <1>1, <2>3 DEF Lifecycle!Stay, Of
  <2>4. CASE k \notin overwritten
    BY <1>1, <2>1, <2>2, <2>4
    DEF Lifecycle!Step, Lifecycle!Claim, Lifecycle!Move, Of, OneMore
  <2> QED
    BY <2>3, <2>4
<1> QED
  BY <1>3, <1>4

\* A recovery scan holds the rows it read: each of them expires.
LEMMA ScanStep == ASSUME LInv, NEW w \in Workers, ScanCommit(w) PROVE Lifecycle!Next
<1>1. overwritten' = overwritten
  BY DEF ScanCommit
<1>2. SUFFICES ASSUME NEW k \in Jobs PROVE Lifecycle!Step(k) \/ Lifecycle!Stay(k)
  BY DEF Lifecycle!Next
<1>3. CASE k \notin scan[w].jobs
  BY <1>1, <1>3, StaySame DEF ScanCommit
<1>4. CASE k \in scan[w].jobs
  <2>1. jobs[k].status = "running" /\ jobs[k] \in Row /\ jobs'[k] = Recovered(jobs[k])
    BY <1>4 DEF ScanCommit, LInv, ScansOK, IInv, TypeOK
  <2>2. /\ jobs'[k].status = "pending"
        /\ jobs'[k].locked_by = NULL
        /\ jobs'[k].attempts = jobs[k].attempts
    BY <2>1 DEF Recovered, Unlocked, Row
  <2>3. CASE k \in overwritten
    BY <1>1, <2>3 DEF Lifecycle!Stay, Of
  <2>4. CASE k \notin overwritten
    BY <1>1, <2>1, <2>2, <2>4
    DEF Lifecycle!Step, Lifecycle!Expire, Lifecycle!Move, Lifecycle!Release, Of
  <2> QED
    BY <2>3, <2>4
<1> QED
  BY <1>3, <1>4

\* Every step of the queue is a step of the lifecycle or leaves it alone.
LEMMA NextLifecycle == LInv /\ [Next]_vars => [Lifecycle!Next]_(Lifecycle!vars)
<1> SUFFICES ASSUME LInv, [Next]_vars PROVE Lifecycle!Next
  OBVIOUS
<1>1. CASE jobs' = jobs /\ overwritten' = overwritten
  BY <1>1, StaySame DEF Lifecycle!Next
<1>2. ASSUME NEW a \in Actors, RequestCommits(a) \/ WorkerCommits(a) PROVE Lifecycle!Next
  BY <1>2, CommitStep DEF LInv
<1> QED
  BY <1>1, <1>2, Writers, CreateStep, ClaimStep, ScanStep DEF Actors

-----------------------------------------------------------------------------
(* The scans, action by action.                                            *)

\* Writing one row that no scan has selected.
LEMMA UnlockedWrite ==
    ASSUME LInv, NEW j \in Jobs, ~RowLocked(j), scan' = scan, lapsed \ {j} \subseteq lapsed',
           \A k \in Jobs \ {j} : jobs'[k] = jobs[k]
    PROVE  ScansOK'
<1>1. \A w \in Workers : scan[w].jobs \subseteq Jobs \ {j}
  BY DEF LInv, IInv, TypeOK, Scan, RowLocked
<1>2. \A w \in Workers : \A k \in scan'[w].jobs : jobs'[k].status = "running" /\ k \in lapsed'
  <2> SUFFICES ASSUME NEW w \in Workers, NEW k \in scan[w].jobs
               PROVE  jobs'[k].status = "running" /\ k \in lapsed'
    OBVIOUS
  <2>1. k \in Jobs \ {j} /\ jobs[k].status = "running" /\ k \in lapsed
    BY <1>1 DEF LInv, ScansOK
  <2> QED
    BY <2>1
<1> QED
  BY <1>2 DEF LInv, ScansOK

\* A recovery scan selects running rows nobody else holds and lets them go.
LEMMA ScanLInv ==
    ASSUME LInv, NEW w \in Workers, ScanStart(w) \/ ScanCommit(w) \/ Crash(w)
    PROVE  ScansOK'
<1>1. \A v \in Workers : scan[v].jobs \subseteq Jobs
  BY DEF LInv, IInv, TypeOK, Scan
<1>2. CASE ScanStart(w)
  <2> DEFINE found == {j \in Jobs : Abandoned(j) /\ ~RowLocked(j)}
  <2>1. jobs' = jobs /\ lapsed' = lapsed
    BY <1>2 DEF ScanStart, store
  <2>2. \A v \in Workers : scan'[v].jobs = IF v = w THEN found ELSE scan[v].jobs
    BY <1>2 DEF ScanStart, LInv, IInv, TypeOK
  <2>3. \A j \in found : /\ jobs[j].status = "running" /\ j \in lapsed
                         /\ \A v \in Workers : j \notin scan[v].jobs
    BY DEF Abandoned, RowLocked
  <2> HIDE DEF found
  <2> QED
    BY <2>1, <2>2, <2>3 DEF LInv, ScansOK
<1>3. CASE ScanCommit(w)
  <2>1. \A v \in Workers : scan'[v].jobs = IF v = w THEN {} ELSE scan[v].jobs
    BY <1>3 DEF ScanCommit, NoScan, LInv, IInv, TypeOK
  <2>2. /\ \A j \in Jobs \ scan[w].jobs : jobs'[j] = jobs[j]
        /\ lapsed' = lapsed \ scan[w].jobs
    BY <1>3 DEF ScanCommit
  <2> QED
    BY <1>1, <2>1, <2>2 DEF LInv, ScansOK
<1>4. CASE Crash(w)
  <2>1. \A v \in Workers : scan'[v].jobs = IF v = w THEN {} ELSE scan[v].jobs
    BY <1>4 DEF Crash, NoScan, LInv, IInv, TypeOK
  <2> QED
    BY <1>4, <2>1 DEF Crash, store, LInv, ScansOK
<1> QED
  BY <1>2, <1>3, <1>4

\* The strengthened invariant is inductive.
LEMMA NextLInv == LInv /\ [Next]_vars => LInv'
<1> SUFFICES ASSUME LInv, [Next]_vars PROVE ScansOK'
  BY NextIInv DEF LInv
<1>1. ASSUME jobs' = jobs, scan' = scan, lapsed \subseteq lapsed' PROVE ScansOK'
  BY <1>1 DEF LInv, ScansOK
<1>2. ASSUME NEW j \in Jobs, CreateJob(j) PROVE ScansOK'
  <2>1. ~RowLocked(j)
    BY <1>2 DEF CreateJob, RowLocked, LInv, ScansOK
  <2> QED
    BY <1>2, <2>1, UnlockedWrite DEF CreateJob, Write, LInv, IInv, TypeOK
<1>3. ASSUME NEW w \in Workers, NEW j \in Jobs, Claim(w, j) PROVE ScansOK'
  BY <1>3, UnlockedWrite DEF Claim, Claimable, Write, LInv, IInv, TypeOK
<1>4. ASSUME NEW j \in Jobs, LeaseLapses(j) \/ BackoffEnds(j) PROVE ScansOK'
  BY <1>1, <1>4 DEF LeaseLapses, BackoffEnds
<1>5. ASSUME NEW a \in Actors, RequestCommits(a) \/ WorkerCommits(a) PROVE ScansOK'
  BY <1>5, CommitEffect, UnlockedWrite DEF LInv
<1>6. ASSUME NEW c \in Clients, Abandon(c) \/ \E j \in Jobs : CancelLoad(c, j) \/ RetryLoad(c, j)
      PROVE  ScansOK'
  BY <1>1, <1>6 DEF Abandon, CancelLoad, RetryLoad, store
<1>7. ASSUME NEW w \in Workers,
             \/ ClaimNothing(w) \/ GiveUp(w) \/ Start(w) \/ Stop(w) \/ ScanTimer(w)
             \/ \E op \in {"success", "failure"} : FinishLoad(w, op)
      PROVE  ScansOK'
  BY <1>1, <1>7 DEF ClaimNothing, GiveUp, FinishLoad, Start, Stop, ScanTimer, store
<1>8. CASE UNCHANGED vars
  BY <1>1, <1>8 DEF vars
<1> QED
  BY <1>2, <1>3, <1>4, <1>5, <1>6, <1>7, <1>8, ScanLInv
  DEF Next, Api, Round, RequestCommits, WorkerCommits, Actors

\* The inductive invariant holds throughout.
LEMMA LInvariance == Spec => []LInv
BY InitLInv, NextLInv, PTL DEF Spec

\* Every job follows the README's lifecycle until a commit writes over a row
\* its transaction had not read: the queue implements JobLifecycle.
THEOREM Implements == Spec => FollowsLifecycle
BY LInvariance, InitLifecycle, NextLifecycle, PTL DEF Spec, FollowsLifecycle, Lifecycle!Spec

-----------------------------------------------------------------------------
(* The retry budget.                                                       *)

\* The budget of one job.
Budget(j) ==
    /\ jobs[j].status = "dead_lettered" => jobs[j].attempts >= MaxAttempts
    /\ jobs[j].status = "pending" /\ jobs[j].attempts >= MaxAttempts
         => last_event[j] = "job_lease_expired"

\* It is inductive with IInv: a commit over the row that was loaded has compared
\* the row's own attempts.
LEMMA NextBudget ==
    IInv /\ BudgetOnlyBrokenByRecovery /\ [Next]_vars => BudgetOnlyBrokenByRecovery'
<1> SUFFICES ASSUME IInv, BudgetOnlyBrokenByRecovery, [Next]_vars,
                    NEW k \in Jobs, k \notin overwritten'
             PROVE  Budget(k)'
  BY DEF BudgetOnlyBrokenByRecovery, Budget
<1>1. jobs[k] \in Row /\ MaxAttempts > 0
  BY MaxAttemptsAssumption DEF IInv, TypeOK
<1>2. k \notin overwritten => Budget(k)
  BY DEF BudgetOnlyBrokenByRecovery, Budget
<1>3. CASE UNCHANGED <<jobs, last_event, overwritten>>
  BY <1>2, <1>3 DEF Budget
<1>4. ASSUME NEW j \in Jobs, CreateJob(j) PROVE Budget(k)'
  BY <1>1, <1>2, <1>4, MaxAttemptsAssumption
  DEF CreateJob, Write, NewRow, NoRow, IInv, TypeOK, Budget
<1>5. ASSUME NEW w \in Workers, NEW j \in Jobs, Claim(w, j) PROVE Budget(k)'
  BY <1>1, <1>2, <1>5 DEF Claim, Write, ClaimedBy, IInv, TypeOK, Row, Budget
<1>6. ASSUME NEW w \in Workers, ScanCommit(w) PROVE Budget(k)'
  BY <1>1, <1>2, <1>6 DEF ScanCommit, Recovered, Unlocked, Row, Budget
<1>7. ASSUME NEW a \in Actors, RequestCommits(a) \/ WorkerCommits(a) PROVE Budget(k)'
  <2> DEFINE t == txn[a]
  <2>1. PICK new \in Row, event \in JobEventType :
           /\ Assigned(t.op, t.loaded, new, event)
           /\ jobs'[k] = IF k = t.job THEN Flush(jobs[t.job], t.loaded, new) ELSE jobs[k]
           /\ last_event'[k] = IF k = t.job THEN event ELSE last_event[k]
    BY <1>7, CommitEffect
  <2>2. overwritten' = overwritten \cup (IF jobs[t.job] = t.loaded THEN {} ELSE {t.job})
    BY <1>7, CommitEffect
  <2>3. CASE k # t.job
    BY <1>2, <2>1, <2>2, <2>3 DEF Budget
  <2>4. CASE k = t.job
    <3>1. Assigned(t.op, jobs[k], new, event)
      BY <2>1, <2>2, <2>4
    <3>2. jobs'[k].status = new.status /\ jobs'[k].attempts = new.attempts
      BY <1>1, <2>1, <2>2, <2>4, FlushUnchanged
    <3>3. new.attempts \in Nat
      BY MaxAttemptsAssumption DEF Row, Attempts
    <3> QED
      BY <1>1, <2>1, <2>4, <3>1, <3>2, <3>3, MaxAttemptsAssumption DEF Assigned, Budget
  <2> QED
    BY <2>3, <2>4
<1> QED
  BY <1>3, <1>4, <1>5, <1>6, <1>7, Writers DEF Actors

\* A job is dead-lettered only after MaxAttempts claims, and only the lease
\* recovery makes a job claimable that has used them up.
THEOREM BudgetKept == Spec => []BudgetOnlyBrokenByRecovery
<1>1. Init => BudgetOnlyBrokenByRecovery
  BY DEF Init, NoRow, BudgetOnlyBrokenByRecovery
<1> QED
  BY Invariance, <1>1, NextBudget, PTL DEF Spec

-----------------------------------------------------------------------------
(* The owner of a job.                                                     *)

\* An open transaction of a worker completes the job it executes and has
\* loaded as its own; one of a request cancels or retries.
TxnsOK ==
    /\ \A w \in Workers : txn[w] # NULL =>
          /\ pc[w] = "finishing"
          /\ txn[w].op \in {"success", "failure"}
          /\ txn[w].job = task[w]
          /\ txn[w].loaded.locked_by = w
    /\ \A c \in Clients : txn[c] # NULL => txn[c].op \in {"cancel", "retry"}

\* A scan clears every worker row that points at one of its jobs.
ScansClear ==
    \A v, w \in Workers : current_job[v] \in scan[w].jobs \ overwritten => v \in scan[w].clears

OInv == LInv /\ TxnsOK /\ ScansClear /\ PointerIsOwner

\* While handlers fit the lease: only its owner executes a job, nobody one whose
\* lease has lapsed, and what a worker loaded to complete it is still its row.
LapsedIdle == \A j \in lapsed \ overwritten, w \in Workers : ~Executing(w, j)

LoadsFresh ==
    \A w \in Workers : txn[w] # NULL /\ txn[w].job \notin overwritten =>
        jobs[txn[w].job] = txn[w].loaded

EInv == HandlersFitLease => OwnerExecutes /\ LapsedIdle /\ LoadsFresh

\* Nothing is open and nobody points anywhere at the start.
LEMMA InitOInv == Init => OInv /\ EInv
<1> SUFFICES ASSUME Init PROVE OInv /\ EInv
  OBVIOUS
<1>1. LInv
  BY InitLInv
<1>2. \A a \in Actors : txn[a] = NULL
  BY DEF Init
<1>3. TxnsOK /\ LoadsFresh
  BY <1>2 DEF TxnsOK, LoadsFresh, Actors
<1>4. ScansClear /\ LapsedIdle
  BY DEF Init, ScansClear, NoScan, LapsedIdle
<1>5. PointerIsOwner /\ OwnerExecutes
  BY ActorsAssumption DEF Init, PointerIsOwner, OwnerExecutes, Executing
<1> QED
  BY <1>1, <1>3, <1>4, <1>5 DEF OInv, EInv

\* A worker's transaction stays the completion of its task.
LEMMA NextTxns == OInv /\ [Next]_vars => TxnsOK'
<1> SUFFICES ASSUME OInv, [Next]_vars PROVE TxnsOK'
  OBVIOUS
<1>1. /\ IInv /\ TxnsOK /\ Workers \cap Clients = {} /\ Workers \subseteq Actors /\ Clients \subseteq Actors
      /\ txn \in [Actors -> Txn \cup {NULL}]
      /\ pc \in [Workers -> WorkerState] /\ task \in [Workers -> Jobs \cup {NULL}]
  BY ActorsAssumption DEF OInv, LInv, IInv, TypeOK, Actors
<1>2. CASE txn' = txn /\ pc' = pc /\ task' = task
  BY <1>1, <1>2 DEF TxnsOK
<1>3. ASSUME NEW j \in Jobs, CreateJob(j) \/ LeaseLapses(j) \/ BackoffEnds(j) PROVE TxnsOK'
  BY <1>2, <1>3 DEF CreateJob, LeaseLapses, BackoffEnds
<1>4. ASSUME NEW c \in Clients, NEW j \in Jobs, CancelLoad(c, j) \/ RetryLoad(c, j) PROVE TxnsOK'
  BY <1>1, <1>4 DEF CancelLoad, RetryLoad, Load, TxnsOK
<1>5. ASSUME NEW c \in Clients, RequestCommits(c) \/ Abandon(c) PROVE TxnsOK'
  <2>1. txn' = [txn EXCEPT ![c] = NULL] /\ pc' = pc /\ task' = task
    BY <1>5 DEF RequestCommits, CancelCommit, RetryCommit, FlushAndCommit, Abandon
  <2> QED
    BY <1>1, <2>1 DEF TxnsOK
<1>6. ASSUME NEW w \in Workers, WorkerCommits(w) \/ Crash(w) PROVE TxnsOK'
  <2>1. /\ txn' = [txn EXCEPT ![w] = NULL]
        /\ \A v \in Workers \ {w} : pc'[v] = pc[v] /\ task'[v] = task[v]
    BY <1>1, <1>6 DEF WorkerCommits, CompleteSuccess, CompleteFailure, FlushAndCommit,
       FinishRound, Crash
  <2> QED
    BY <1>1, <2>1 DEF TxnsOK
<1>7. ASSUME NEW w \in Workers, pc[w] # "finishing", txn' = txn,
             \A v \in Workers \ {w} : pc'[v] = pc[v] /\ task'[v] = task[v]
      PROVE  TxnsOK'
  BY <1>1, <1>7 DEF TxnsOK
<1>8. ASSUME NEW w \in Workers,
             \/ ScanStart(w) \/ ScanCommit(w) \/ ClaimNothing(w) \/ GiveUp(w)
             \/ Start(w) \/ Stop(w) \/ \E j \in Jobs : Claim(w, j)
      PROVE  TxnsOK'
  BY <1>1, <1>7, <1>8
  DEF ScanStart, ScanCommit, ClaimNothing, GiveUp, Start, Stop, Claim, AtClaim
<1>9. ASSUME NEW w \in Workers, NEW op \in {"success", "failure"}, FinishLoad(w, op) PROVE TxnsOK'
  BY <1>1, <1>9 DEF FinishLoad, Load, Owns, TxnsOK
<1>10. ASSUME NEW w \in Workers, ScanTimer(w) PROVE TxnsOK'
  BY <1>2, <1>10 DEF ScanTimer
<1>11. CASE UNCHANGED vars
  BY <1>2, <1>11 DEF vars
<1> QED
  BY <1>3, <1>4, <1>5, <1>6, <1>8, <1>9, <1>10, <1>11
  DEF Next, Api, Round, RequestCommits, WorkerCommits

\* The commits of the actors, each in its own role.
Commits(a) ==
    \/ a \in Clients /\ RequestCommits(a)
    \/ a \in Workers /\ WorkerCommits(a)

\* A commit over the row that was loaded is the owner's completion, or nobody
\* owns the job.
LEMMA FreshCommit ==
    ASSUME OInv, NEW a \in Actors, Commits(a), NEW j, j = txn[a].job, j \notin overwritten'
    PROVE  /\ jobs[j] = txn[a].loaded /\ j \notin overwritten
           /\ \A w \in Workers : Owns(w, j) => w = a
<1>1. /\ jobs[j] = txn[a].loaded /\ j \notin overwritten
      /\ \E new \in Row, event \in JobEventType : Assigned(txn[a].op, txn[a].loaded, new, event)
  BY CommitEffect DEF Commits, OInv, LInv
<1>2. CASE a \in Clients /\ RequestCommits(a)
  <2>1. txn[a].op \in {"cancel", "retry"}
    BY <1>2 DEF RequestCommits, CancelCommit, RetryCommit, FlushAndCommit
  <2>2. jobs[j].status # "running"
    BY <1>1, <2>1 DEF Assigned
  <2> QED
    BY <1>1, <2>2 DEF Owns
<1>3. CASE a \in Workers /\ WorkerCommits(a)
  <2>1. txn[a] # NULL
    BY <1>3 DEF WorkerCommits, CompleteSuccess, CompleteFailure, FlushAndCommit
  <2>2. jobs[j].locked_by = a
    BY <1>1, <1>3, <2>1 DEF OInv, TxnsOK
  <2> QED
    BY <1>1, <2>2 DEF Owns
<1> QED
  BY <1>2, <1>3 DEF Commits

\* After a commit the committing worker points at nothing and executes nothing.
LEMMA CommitReleases ==
    ASSUME IInv, NEW a \in Actors, Commits(a)
    PROVE  /\ \A w \in Workers \ {a} : /\ current_job'[w] = current_job[w]
                                       /\ pc'[w] = pc[w] /\ task'[w] = task[w]
           /\ a \in Workers => /\ current_job'[a] = NULL
                               /\ pc'[a] = "idle" /\ task'[a] = NULL
<1>1. CASE a \in Clients /\ RequestCommits(a)
  BY <1>1, ActorsAssumption DEF RequestCommits, CancelCommit, RetryCommit
<1>2. CASE a \in Workers /\ WorkerCommits(a)
  BY <1>2 DEF WorkerCommits, CompleteSuccess, CompleteFailure, FinishRound, IInv, TypeOK
<1> QED
  BY <1>1, <1>2 DEF Commits

\* The pointers stay with the owners.
LEMMA NextPointer == OInv /\ [Next]_vars => PointerIsOwner'
<1> SUFFICES ASSUME OInv, [Next]_vars, NEW v \in Workers, NEW j \in Jobs,
                    j = current_job'[v], j \notin overwritten'
             PROVE  Owns(v, j)'
  BY DEF PointerIsOwner, Owns
<1>1. /\ IInv /\ jobs[j] \in Row /\ jobs \in [Jobs -> Row]
      /\ current_job \in [Workers -> Jobs \cup {NULL}] /\ NULL \notin Jobs
  BY ActorsAssumption DEF OInv, LInv, IInv, TypeOK
<1>2. current_job[v] = j /\ j \notin overwritten => Owns(v, j)
  BY DEF OInv, PointerIsOwner
<1>3. CASE UNCHANGED <<jobs, current_job, overwritten>>
  BY <1>2, <1>3 DEF Owns
<1>4. ASSUME NEW k \in Jobs, CreateJob(k) PROVE Owns(v, j)'
  BY <1>1, <1>2, <1>4 DEF CreateJob, Write, Owns
<1>5. ASSUME NEW w \in Workers, NEW k \in Jobs, Claim(w, k) PROVE Owns(v, j)'
  <2>1. /\ jobs[k].status = "pending" /\ overwritten' = overwritten
        /\ current_job' = [current_job EXCEPT ![w] = k]
        /\ jobs' = [jobs EXCEPT ![k] = ClaimedBy(jobs[k], w)]
    BY <1>5 DEF Claim, Claimable, Write
  <2>2. CASE v = w
    BY <1>1, <2>1, <2>2 DEF ClaimedBy, Owns, Row
  <2>3. CASE v # w
    BY <1>1, <1>2, <2>1, <2>3 DEF Owns
  <2> QED
    BY <2>2, <2>3
<1>6. ASSUME NEW w \in Workers, ScanCommit(w) PROVE Owns(v, j)'
  <2>1. v \notin scan[w].clears /\ current_job[v] = j /\ overwritten' = overwritten
    BY <1>1, <1>6 DEF ScanCommit
  <2>2. j \notin scan[w].jobs
    BY <2>1 DEF OInv, ScansClear
  <2> QED
    BY <1>2, <1>6, <2>1, <2>2 DEF ScanCommit, Owns
<1>7. ASSUME NEW a \in Actors, Commits(a) PROVE Owns(v, j)'
  <2>1. v # a /\ current_job[v] = j
    BY <1>1, <1>7, CommitReleases
  <2>2. j \notin overwritten /\ (j # txn[a].job => jobs'[j] = jobs[j])
    BY <1>1, <1>7, CommitEffect DEF Commits
  <2>3. j # txn[a].job
    BY <1>2, <1>7, <2>1, <2>2, FreshCommit
  <2> QED
    BY <1>2, <2>1, <2>2, <2>3 DEF Owns
<1> QED
  BY <1>3, <1>4, <1>5, <1>6, <1>7, Writers DEF Actors, Commits

\* The worker rows a scan has to clear are those it has read: nobody comes to
\* point at a locked job.
LEMMA NextScansClear == OInv /\ [Next]_vars => ScansClear'
<1> SUFFICES ASSUME OInv, [Next]_vars, NEW v \in Workers, NEW w \in Workers,
                    current_job'[v] \in scan'[w].jobs \ overwritten'
             PROVE  v \in scan'[w].clears
  BY DEF ScansClear
<1> DEFINE j == current_job'[v]
<1>1. /\ IInv /\ NULL \notin Jobs /\ scan \in [Workers -> Scan]
      /\ current_job \in [Workers -> Jobs \cup {NULL}]
      /\ \A u \in Workers : scan[u].jobs \subseteq Jobs
  BY ActorsAssumption DEF OInv, LInv, IInv, TypeOK, Scan
<1>2. ASSUME current_job[v] = j, scan'[w] = scan[w], j \notin overwritten PROVE v \in scan'[w].clears
  BY <1>2 DEF OInv, ScansClear
<1>3. CASE UNCHANGED <<current_job, scan, overwritten>>
  BY <1>2, <1>3
<1>4. ASSUME NEW k \in Jobs, CreateJob(k) PROVE v \in scan'[w].clears
  BY <1>2, <1>4 DEF CreateJob
<1>5. ASSUME NEW u \in Workers, NEW k \in Jobs, Claim(u, k) PROVE v \in scan'[w].clears
  <2>1. k \notin scan'[w].jobs /\ current_job' = [current_job EXCEPT ![u] = k]
    BY <1>5 DEF Claim, Claimable, RowLocked
  <2>2. v # u
    BY <1>1, <2>1
  <2> QED
    BY <1>1, <1>2, <1>5, <2>1, <2>2 DEF Claim
<1>6. ASSUME NEW u \in Workers, ScanStart(u) PROVE v \in scan'[w].clears
  <2> DEFINE found == {i \in Jobs : Abandoned(i) /\ ~RowLocked(i)}
  <2>1. /\ current_job' = current_job /\ overwritten' = overwritten
        /\ scan' = [scan EXCEPT ![u] = [jobs |-> found, clears |-> Clears(found)]]
    BY <1>6 DEF ScanStart, store
  <2>2. CASE w = u
    <3>1. scan'[w].jobs = found /\ scan'[w].clears = Clears(found)
      BY <1>1, <2>1, <2>2
    <3>2. j \in found /\ j \in Jobs /\ Owns(v, j)
      BY <2>1, <3>1 DEF OInv, PointerIsOwner
    <3> QED
      BY <2>1, <3>1, <3>2 DEF Clears, Owns
  <2>3. CASE w # u
    BY <1>1, <1>2, <2>1, <2>3
  <2> QED
    BY <2>2, <2>3
<1>7. ASSUME NEW u \in Workers, ScanCommit(u) \/ Crash(u) PROVE v \in scan'[w].clears
  <2>1. /\ scan' = [scan EXCEPT ![u] = NoScan] /\ overwritten' = overwritten
        /\ current_job'[v] \in {current_job[v], NULL}
    BY <1>7 DEF ScanCommit, Crash, store
  <2>2. CASE w = u
    BY <1>1, <2>1, <2>2 DEF NoScan
  <2>3. CASE w # u
    BY <1>1, <1>2, <2>1, <2>3
  <2> QED
    BY <2>2, <2>3
<1>8. ASSUME NEW a \in Actors, Commits(a) PROVE v \in scan'[w].clears
  <2>1. scan' = scan /\ overwritten \subseteq overwritten'
    BY <1>1, <1>8, CommitEffect DEF Commits
  <2>2. v # a /\ current_job[v] = j
    BY <1>1, <1>8, <2>1, CommitReleases
  <2> QED
    BY <1>2, <2>1, <2>2
<1>9. ASSUME NEW k \in Jobs, LeaseLapses(k) \/ BackoffEnds(k) PROVE v \in scan'[w].clears
  BY <1>3, <1>9 DEF LeaseLapses, BackoffEnds
<1>10. ASSUME NEW c \in Clients, Abandon(c) \/ \E k \in Jobs : CancelLoad(c, k) \/ RetryLoad(c, k)
       PROVE  v \in scan'[w].clears
  BY <1>3, <1>10 DEF Abandon, CancelLoad, RetryLoad, store
<1>11. ASSUME NEW u \in Workers,
              \/ ClaimNothing(u) \/ GiveUp(u) \/ Start(u) \/ Stop(u) \/ ScanTimer(u)
              \/ \E op \in {"success", "failure"} : FinishLoad(u, op)
       PROVE  v \in scan'[w].clears
  BY <1>3, <1>11 DEF ClaimNothing, GiveUp, FinishLoad, Start, Stop, ScanTimer, store
<1>12. CASE UNCHANGED vars
  BY <1>3, <1>12 DEF vars
<1> QED
  BY <1>4, <1>5, <1>6, <1>7, <1>8, <1>9, <1>10, <1>11, <1>12
  DEF Next, Api, Round, RequestCommits, WorkerCommits, Actors, Commits

\* The invariant about owners is inductive.
LEMMA NextOInv == OInv /\ [Next]_vars => OInv'
BY NextLInv, NextTxns, NextPointer, NextScansClear DEF OInv

\* A worker row never points at a job that another worker runs or nobody does,
\* through crashes, restarts under the same id and concurrent scans, unless a
\* commit has written over the job.
THEOREM PointersTrue == Spec => []PointerIsOwner
<1>1. OInv => PointerIsOwner
  BY DEF OInv
<1> QED
  BY InitOInv, NextOInv, <1>1, PTL DEF Spec

-----------------------------------------------------------------------------
(* The lease, while handlers fit it.                                       *)

\* A worker begins to execute a job by claiming it.
LEMMA BeginsByClaim ==
    ASSUME OInv, [Next]_vars, NEW w \in Workers, NEW j \in Jobs,
           Executing(w, j)', ~Executing(w, j)
    PROVE  Claim(w, j)
<1>1. /\ IInv /\ NULL \notin Jobs
      /\ pc \in [Workers -> WorkerState] /\ task \in [Workers -> Jobs \cup {NULL}]
  BY ActorsAssumption DEF OInv, LInv, IInv, TypeOK
<1>2. task'[w] = j /\ pc'[w] \in {"executing", "finishing"}
      /\ (task'[w] # task[w] \/ pc[w] \notin {"executing", "finishing"})
  BY DEF Executing
<1>3. CASE pc' = pc /\ task' = task
  BY <1>2, <1>3
<1>4. ASSUME NEW k \in Jobs, CreateJob(k) \/ LeaseLapses(k) \/ BackoffEnds(k) PROVE Claim(w, j)
  BY <1>3, <1>4 DEF CreateJob, LeaseLapses, BackoffEnds
<1>5. ASSUME NEW c \in Clients, Api(c) PROVE Claim(w, j)
  BY <1>3, <1>5 DEF Api, CancelLoad, RetryLoad, CancelCommit, RetryCommit, Abandon
<1>6. ASSUME NEW v \in Workers,
             \/ ScanStart(v) \/ ScanCommit(v) \/ ClaimNothing(v) \/ GiveUp(v)
             \/ CompleteSuccess(v) \/ CompleteFailure(v)
             \/ Start(v) \/ Stop(v) \/ Crash(v)
      PROVE  FALSE
  BY <1>1, <1>2, <1>6
  DEF ScanStart, ScanCommit, ClaimNothing, GiveUp, CompleteSuccess, CompleteFailure, FinishRound,
      Start, Stop, Crash
<1>7. ASSUME NEW v \in Workers, NEW op \in {"success", "failure"}, FinishLoad(v, op) PROVE FALSE
  BY <1>1, <1>2, <1>7 DEF FinishLoad
<1>8. ASSUME NEW v \in Workers, NEW k \in Jobs, Claim(v, k) PROVE Claim(w, j)
  BY <1>1, <1>2, <1>8 DEF Claim
<1>9. ASSUME NEW v \in Workers, ScanTimer(v) PROVE Claim(w, j)
  BY <1>3, <1>9 DEF ScanTimer
<1>10. CASE UNCHANGED vars
  BY <1>3, <1>10 DEF vars
<1> QED
  BY <1>4, <1>5, <1>6, <1>7, <1>8, <1>9, <1>10 DEF Next, Round

\* While a job is executed and not overwritten, its row stays as it is until
\* its own worker's commit.
LEMMA ExecutedStays ==
    ASSUME OInv, EInv, HandlersFitLease, [Next]_vars, NEW w \in Workers, NEW j \in Jobs,
           Executing(w, j), Executing(w, j)', j \notin overwritten'
    PROVE  jobs'[j] = jobs[j] /\ j \notin overwritten
<1>1. /\ IInv /\ jobs[j] \in Row /\ jobs \in [Jobs -> Row]
      /\ \A u \in Workers : scan[u].jobs \subseteq Jobs
  BY DEF OInv, LInv, IInv, TypeOK, Scan
<1>2. j \notin overwritten => Owns(w, j) /\ j \notin lapsed
  BY DEF EInv, OwnerExecutes, LapsedIdle
<1>3. CASE UNCHANGED <<jobs, overwritten>>
  BY <1>3
<1>4. ASSUME NEW k \in Jobs, CreateJob(k) PROVE jobs'[j] = jobs[j] /\ j \notin overwritten
  BY <1>1, <1>2, <1>4 DEF CreateJob, Write, Owns
<1>5. ASSUME NEW v \in Workers, NEW k \in Jobs, Claim(v, k)
      PROVE  jobs'[j] = jobs[j] /\ j \notin overwritten
  BY <1>1, <1>2, <1>5 DEF Claim, Claimable, Write, Owns
<1>6. ASSUME NEW v \in Workers, ScanCommit(v) PROVE jobs'[j] = jobs[j] /\ j \notin overwritten
  <2>1. j \notin overwritten
    BY <1>6 DEF ScanCommit
  <2>2. j \notin scan[v].jobs
    BY <1>2, <2>1 DEF OInv, LInv, ScansOK
  <2> QED
    BY <1>6, <2>1, <2>2 DEF ScanCommit
<1>7. ASSUME NEW a \in Actors, Commits(a) PROVE jobs'[j] = jobs[j] /\ j \notin overwritten
  <2>1. j \notin overwritten /\ (j # txn[a].job => jobs'[j] = jobs[j])
    BY <1>1, <1>7, CommitEffect DEF Commits
  <2>2. w # a
    BY <1>1, <1>7, CommitReleases DEF Executing
  <2> QED
    BY <1>2, <1>7, <2>1, <2>2, FreshCommit
<1> QED
  BY <1>3, <1>4, <1>5, <1>6, <1>7, Writers DEF Actors, Commits

\* So its worker stays its owner.
LEMMA NextOwner == OInv /\ EInv /\ HandlersFitLease /\ [Next]_vars => OwnerExecutes'
<1> SUFFICES ASSUME OInv, EInv, HandlersFitLease, [Next]_vars, NEW w \in Workers,
                    NEW j \in Jobs, j \notin overwritten', Executing(w, j)'
             PROVE  Owns(w, j)'
  BY DEF OwnerExecutes, Owns, Executing
<1>1. CASE Executing(w, j)
  BY <1>1, ExecutedStays DEF EInv, OwnerExecutes, Owns
<1>2. CASE ~Executing(w, j)
  <2>1. Claim(w, j) /\ jobs \in [Jobs -> Row]
    BY <1>2, BeginsByClaim DEF OInv, LInv, IInv, TypeOK
  <2> QED
    BY <2>1 DEF Claim, Write, ClaimedBy, Row, Owns
<1> QED
  BY <1>1, <1>2

\* The lease of a job that is executed does not lapse, and a claim renews it.
LEMMA NextIdle == OInv /\ EInv /\ HandlersFitLease /\ [Next]_vars => LapsedIdle'
<1> SUFFICES ASSUME OInv, EInv, HandlersFitLease, [Next]_vars, NEW w \in Workers,
                    NEW j \in lapsed', j \notin overwritten', Executing(w, j)'
             PROVE  FALSE
  BY DEF LapsedIdle, Executing
<1>1. j \in Jobs
  BY NextIInv DEF OInv, LInv, IInv, TypeOK
<1>2. CASE ~Executing(w, j)
  <2>1. Claim(w, j)
    BY <1>1, <1>2, BeginsByClaim
  <2> QED
    BY <2>1 DEF Claim
<1>3. CASE Executing(w, j)
  <2>1. j \notin overwritten /\ Owns(w, j)
    BY <1>1, <1>3, ExecutedStays DEF EInv, OwnerExecutes
  <2>2. j \notin lapsed
    BY <1>3, <2>1 DEF EInv, LapsedIdle
  <2>3. LeaseLapses(j)
    <3>1. CASE lapsed' \subseteq lapsed
      BY <2>2, <3>1
    <3>2. ASSUME NEW k \in Jobs, LeaseLapses(k) PROVE LeaseLapses(j)
      BY <2>2, <3>2 DEF LeaseLapses
    <3>3. ASSUME NEW a \in Actors, Commits(a) PROVE LeaseLapses(j)
      BY <3>1, <3>3, CommitEffect DEF Commits, OInv, LInv
    <3>4. ASSUME NEW k \in Jobs, CreateJob(k) \/ BackoffEnds(k) PROVE LeaseLapses(j)
      BY <3>1, <3>4 DEF CreateJob, BackoffEnds
    <3>5. ASSUME NEW c \in Clients,
                 Abandon(c) \/ \E k \in Jobs : CancelLoad(c, k) \/ RetryLoad(c, k)
          PROVE  LeaseLapses(j)
      BY <3>1, <3>5 DEF Abandon, CancelLoad, RetryLoad, store
    <3>6. ASSUME NEW v \in Workers,
                 \/ ScanStart(v) \/ ScanCommit(v) \/ ClaimNothing(v) \/ GiveUp(v)
                 \/ Start(v) \/ Stop(v) \/ Crash(v) \/ ScanTimer(v)
                 \/ \E k \in Jobs : Claim(v, k)
                 \/ \E op \in {"success", "failure"} : FinishLoad(v, op)
          PROVE  LeaseLapses(j)
      BY <3>1, <3>6 DEF ScanStart, ScanCommit, ClaimNothing, GiveUp, Start, Stop, Crash,
         ScanTimer, Claim, FinishLoad, store
    <3>7. CASE UNCHANGED vars
      BY <3>1, <3>7 DEF vars
    <3> QED
      BY <3>2, <3>3, <3>4, <3>5, <3>6, <3>7
      DEF Next, Api, Round, RequestCommits, WorkerCommits, Actors, Commits
  <2> QED
    BY <1>3, <2>1, <2>3 DEF LeaseLapses, Owns
<1> QED
  BY <1>2, <1>3

\* What a worker has loaded to complete its job stays the job's row.
LEMMA NextFresh == OInv /\ EInv /\ HandlersFitLease /\ [Next]_vars => LoadsFresh'
<1> SUFFICES ASSUME OInv, EInv, HandlersFitLease, [Next]_vars, NEW w \in Workers,
                    txn'[w] # NULL, NEW j, j = txn'[w].job, j \notin overwritten'
             PROVE  jobs'[j] = txn'[w].loaded
  BY DEF LoadsFresh
<1>1. IInv' /\ TxnsOK'
  BY NextIInv, NextTxns DEF OInv, LInv
<1>2. j \in Jobs /\ Executing(w, j)'
  <2>1. txn'[w] \in Txn
    BY <1>1 DEF IInv, TypeOK, Actors
  <2>2. txn'[w].job = task'[w] /\ pc'[w] = "finishing"
    BY <1>1 DEF TxnsOK
  <2> QED
    BY <2>1, <2>2 DEF Txn, Executing
<1>3. CASE txn'[w] = txn[w]
  <2>1. Executing(w, j)
    BY <1>3 DEF OInv, TxnsOK, Executing
  <2> QED
    BY <1>2, <1>3, <2>1, ExecutedStays DEF EInv, LoadsFresh
<1>4. CASE txn'[w] # txn[w]
  <2>1. txn \in [Actors -> Txn \cup {NULL}] /\ w \in Actors /\ w \notin Clients
    BY ActorsAssumption DEF OInv, LInv, IInv, TypeOK, Actors
  <2>2. ASSUME NEW v \in Workers, NEW op \in {"success", "failure"}, FinishLoad(v, op)
        PROVE  jobs'[j] = txn'[w].loaded
    BY <1>4, <2>1, <2>2 DEF FinishLoad, Load, store
  <2>3. ASSUME NEW a \in Actors, txn' = [txn EXCEPT ![a] = NULL] PROVE FALSE
    BY <1>4, <2>1, <2>3
  <2>4. ASSUME NEW a \in Actors, Commits(a) PROVE FALSE
    BY <2>3, <2>4, CommitEffect DEF Commits, OInv, LInv
  <2>5. ASSUME NEW c \in Clients, Abandon(c) PROVE FALSE
    BY <2>3, <2>5 DEF Abandon, Actors
  <2>6. ASSUME NEW c \in Clients, NEW k \in Jobs, CancelLoad(c, k) \/ RetryLoad(c, k) PROVE FALSE
    BY <1>4, <2>1, <2>6 DEF CancelLoad, RetryLoad, Load
  <2>7. ASSUME NEW k \in Jobs, CreateJob(k) \/ LeaseLapses(k) \/ BackoffEnds(k) PROVE FALSE
    BY <1>4, <2>7 DEF CreateJob, LeaseLapses, BackoffEnds
  <2>8. ASSUME NEW v \in Workers,
               \/ ScanStart(v) \/ ScanCommit(v) \/ ClaimNothing(v) \/ GiveUp(v)
               \/ Start(v) \/ Stop(v) \/ ScanTimer(v) \/ \E k \in Jobs : Claim(v, k)
        PROVE  FALSE
    BY <1>4, <2>8 DEF ScanStart, ScanCommit, ClaimNothing, GiveUp, Start, Stop, ScanTimer, Claim
  <2>9. ASSUME NEW v \in Workers, Crash(v) PROVE FALSE
    BY <2>3, <2>9 DEF Crash, Actors
  <2>10. ~UNCHANGED vars
    BY <1>4 DEF vars
  <2> QED
    BY <2>2, <2>4, <2>5, <2>6, <2>7, <2>8, <2>9, <2>10
    DEF Next, Api, Round, RequestCommits, WorkerCommits, Actors, Commits
<1> QED
  BY <1>3, <1>4

\* The invariant about leases is inductive.
LEMMA NextEInv == OInv /\ EInv /\ [Next]_vars => EInv'
BY NextOwner, NextIdle, NextFresh DEF EInv

\* Both invariants hold throughout.
LEMMA OwnerInvariance == Spec => []OInv /\ []EInv
BY InitOInv, NextOInv, NextEInv, PTL DEF Spec

\* While handlers fit the lease no worker executes a job that the row does not
\* name it for, and so no two execute one job, unless a request has written
\* over the row.
THEOREM OneExecutor == Spec => []OwnerExecutes
<1>1. EInv => OwnerExecutes
  BY DEF EInv, OwnerExecutes
<1> QED
  BY OwnerInvariance, <1>1, PTL

\* While handlers fit the lease, workers lose no update among themselves: the
\* first commit that writes over a row it had not read is a request's.
THEOREM FirstLossIsARequest == Spec => WorkersLoseNoUpdate
<1> DEFINE Loss == HandlersFitLease /\ overwritten = {} /\ overwritten' # {}
           ByRequest == \E c \in Clients : txn[c] # NULL /\ txn'[c] = NULL
<1>1. ASSUME OInv, EInv, [Next]_vars, Loss PROVE ByRequest
  <2>1. IInv
    BY <1>1 DEF OInv, LInv
  <2>2. PICK a \in Actors : Commits(a)
    BY <1>1, Writers DEF CreateJob, Claim, ScanCommit, Actors, Commits
  <2>3. txn[a] # NULL /\ txn[a].job \in Jobs /\ jobs[txn[a].job] # txn[a].loaded
    BY <1>1, <2>1, <2>2, CommitEffect
    DEF Commits, RequestCommits, WorkerCommits, CancelCommit, RetryCommit, CompleteSuccess,
        CompleteFailure, FlushAndCommit
  <2>4. a \notin Workers
    BY <1>1, <2>3 DEF EInv, LoadsFresh
  <2>5. txn' = [txn EXCEPT ![a] = NULL]
    BY <2>1, <2>2, CommitEffect DEF Commits
  <2> QED
    BY <2>1, <2>3, <2>4, <2>5 DEF Actors, IInv, TypeOK
<1>2. OInv /\ EInv /\ [Next]_vars => [Loss => ByRequest]_vars
  BY <1>1
<1> QED
  BY OwnerInvariance, <1>2, PTL DEF Spec, WorkersLoseNoUpdate
=============================================================================
