--------------------------- MODULE DemoRunProofs ---------------------------
(***************************************************************************)
(* What the demo reports, for a batch of any size and composition and any  *)
(* number of stale commits.                                                *)
(***************************************************************************)
EXTENDS DemoRun, FiniteSetTheorems, TLAPS

\* A job that no stale commit wrote over ends only as its handler implies, in
\* the table as in what the script has read of it.
Implied(s) ==
    \A j \in Jobs \ overwritten :
        /\ j \in Sleep \cup FailOnce => s[j] # "dead_lettered"
        /\ j \in FailAlways => s[j] # "succeeded"

\* No job of the last hour is dead-lettered without a job_failed event in it.
DeadLettersFailed ==
    \A j \in Jobs \ old : status[j] = "dead_lettered" => j \in failed

\* A request computes its hour once, when it begins.
NumbersArePolled == statement > 1 => pc = "polling"

\* What the first statement of get_metrics has read stays true of the later
\* ones: jobs do not vanish, events are not deleted, and only a stale commit
\* takes a job out of succeeded.
SeenStays ==
    \A j \in Jobs :
        /\ seen[j] # "none" => status[j] # "none"
        /\ seen[j] = "dead_lettered" /\ j \notin old => j \in failed
        /\ seen[j] = "succeeded" /\ j \notin overwritten => status[j] = "succeeded"

\* So each number, once it is read, bounds what was read before it.
NumbersFit ==
    /\ statement > 2 => answer.queue_depth <= Cardinality(Visible)
    /\ statement > 3 => /\ Cardinality({j \in Jobs : seen[j] # "none"} \ old) <= answer.jobs_created
                        /\ answer.queue_depth <= answer.jobs_created + Cardinality(old)
    /\ statement > 4 => Cardinality(Seen("dead_lettered") \ old) <= answer.failures
    /\ statement > 5 => (Seen("succeeded") \ overwritten # {} => answer.has_runtime)

TInv == TypeOK /\ DOMAIN attempts = Jobs

IInv ==
    /\ TInv
    /\ Implied(status) /\ Implied(seen)
    /\ DeadLettersFailed
    /\ pc = "idle" => QueueIdle
    /\ NumbersArePolled /\ SeenStays /\ NumbersFit

-----------------------------------------------------------------------------
(* Counting, and the order of the statements.                              *)

\* Sets of jobs are finite, and a smaller one has no more members.
LEMMA Counts ==
    /\ \A S \in SUBSET Jobs : Cardinality(S) \in Nat
    /\ \A S, T \in SUBSET Jobs : S \subseteq T => Cardinality(S) <= Cardinality(T)
    /\ \A S, T \in SUBSET Jobs : Cardinality(S) <= Cardinality(S \ T) + Cardinality(T)
<1>1. \A S \in SUBSET Jobs : IsFiniteSet(S)
  BY BatchAssumption, FS_Subset
<1>2. ASSUME NEW S \in SUBSET Jobs, NEW T \in SUBSET Jobs
      PROVE  Cardinality(S) <= Cardinality(S \ T) + Cardinality(T)
  <2>1. Cardinality(S \ T) = Cardinality(S) - Cardinality(S \cap T)
    BY <1>1, FS_Difference
  <2>2. Cardinality(S \cap T) <= Cardinality(T)
    BY <1>1, FS_Subset
  <2> QED
    BY <1>1, <2>1, <2>2, FS_CardinalityType
<1> QED
  BY <1>1, <1>2, FS_Subset, FS_CardinalityType

\* Which statement runs is a matter of its number.
LEMMA Order ==
    ASSUME TInv
    PROVE  /\ Len(Statements) = 5 /\ statement \in 1 .. 6
           /\ Run("status") => statement = 1
           /\ Run("queue_depth") => statement = 2
           /\ Run("created") => statement = 3
           /\ Run("failures") => statement = 4
           /\ Run("runtime") => statement = 5
<1>1. Len(Statements) = 5 /\ statement \in 1 .. 6
  BY DEF TInv, TypeOK, Statements
<1>2. /\ Statements[1] = "status" /\ Statements[2] = "queue_depth" /\ Statements[3] = "created"
      /\ Statements[4] = "failures" /\ Statements[5] = "runtime"
  BY DEF Statements
<1>3. \A s : Run(s) => statement \in 1 .. 5 /\ Statements[statement] = s
  BY <1>1 DEF Run
<1> QED
  BY <1>1, <1>2, <1>3

-----------------------------------------------------------------------------
(* The types and what the jobs do.                                         *)

\* A new job is pending.
LEMMA InsertStep ==
    ASSUME TInv, NEW j \in Jobs, Insert(j), UNCHANGED <<seen, answer, statement>>,
           pc' \in {"seeding", "waiting", "polling", "idle", "timed_out", "failed"}
    PROVE  TInv'
BY DEF TInv, TypeOK, Insert, Visible, JobStatus

\* The types are kept.
LEMMA NextTInv == TInv /\ [Next]_vars => TInv'
<1> SUFFICES ASSUME TInv, [Next]_vars PROVE TInv'
  OBVIOUS
<1>1. ASSUME NEW j \in Jobs, OtherClient(j) \/ SubmitJob(j) PROVE TInv'
  BY <1>1, InsertStep DEF OtherClient, SubmitJob, script, TInv, TypeOK
<1>2. ASSUME NEW j \in Jobs, Claim(j) PROVE TInv'
  <2>1. \A n \in 0 .. (MaxAttempts(j) + 1) :
           (IF n <= MaxAttempts(j) THEN n + 1 ELSE n) \in 0 .. (MaxAttempts(j) + 1)
    BY DEF MaxAttempts
  <2>2. attempts' \in [Jobs -> {attempts'[k] : k \in Jobs}] /\ DOMAIN attempts' = Jobs
    BY <1>2 DEF Claim, TInv
  <2>3. \A k \in Jobs : attempts'[k] \in 0 .. (MaxAttempts(k) + 1)
    BY <1>2, <2>1 DEF Claim, TInv, TypeOK
  <2> QED
    BY <1>2, <2>2, <2>3 DEF Claim, script, Visible, TInv, TypeOK, JobStatus
<1>3. ASSUME NEW j \in Jobs, Succeed(j) \/ Fail(j) \/ Expire(j) \/ BackoffEnds(j) \/ Cancel(j) PROVE TInv'
  BY <1>3 DEF Succeed, Fail, AttemptsLeft, Expire, BackoffEnds, Cancel, script, Visible,
               TInv, TypeOK, JobStatus
<1>4. ASSUME NEW j \in Jobs, ManualRetry(j) PROVE TInv'
  <2>1. \A k \in Jobs : 0 \in 0 .. (MaxAttempts(k) + 1)
    BY DEF MaxAttempts
  <2> QED
    BY <1>4, <2>1 DEF ManualRetry, script, Visible, TInv, TypeOK, JobStatus
<1>5. ASSUME NEW j \in Jobs, NEW s \in JobStatus, Overwrite(j, s) PROVE TInv'
  BY <1>5 DEF Overwrite, script, Visible, TInv, TypeOK, JobStatus
<1>6. CASE Seeded \/ Poll
  BY <1>6 DEF Seeded, Poll, queue, Visible, TInv, TypeOK
<1>7. CASE CountByStatus \/ ReadQueueDepth \/ CountCreated \/ CountFailures \/ AverageRuntime
  <2>1. statement' \in 1 .. (Len(Statements) + 1) /\ UNCHANGED <<queue, pc>>
    BY <1>7, Order DEF CountByStatus, ReadQueueDepth, CountCreated, CountFailures, AverageRuntime, Run
  <2>2. seen' \in [Jobs -> JobStatus \cup {"none"}]
    BY <1>7 DEF CountByStatus, ReadQueueDepth, CountCreated, CountFailures, AverageRuntime, TInv, TypeOK
  <2>3. /\ Cardinality({k \in Jobs \ backoff : status[k] = "pending"}) \in Nat
        /\ Cardinality(Visible \ old) \in Nat /\ Cardinality(failed) \in Nat
    BY Counts DEF Visible, TInv, TypeOK
  <2>4. answer' \in [queue_depth : Nat, jobs_created : Nat, failures : Nat, has_runtime : BOOLEAN]
    <3>1. answer \in [queue_depth : Nat, jobs_created : Nat, failures : Nat, has_runtime : BOOLEAN]
      BY DEF TInv, TypeOK
    <3>2. CASE ReadQueueDepth
      <4>1. PICK n \in 0 .. Cardinality({k \in Jobs \ backoff : status[k] = "pending"}) :
               answer' = [answer EXCEPT !.queue_depth = n]
        BY <3>2 DEF ReadQueueDepth
      <4> QED
        BY <2>3, <3>1, <4>1
    <3> QED
      BY <1>7, <2>3, <3>1, <3>2 DEF CountByStatus, CountCreated, CountFailures, AverageRuntime
  <2> QED
    BY <2>1, <2>2, <2>4 DEF queue, Visible, TInv, TypeOK
<1>8. CASE Judge \/ HttpError
  <2>1. NoStatus \in [Jobs -> JobStatus \cup {"none"}]
    BY DEF NoStatus
  <2>2. NoAnswer \in [queue_depth : Nat, jobs_created : Nat, failures : Nat, has_runtime : BOOLEAN]
    BY DEF NoAnswer
  <2>3. /\ pc' \in {"waiting", "idle", "timed_out", "failed"} /\ statement' = 1 /\ UNCHANGED queue
        /\ seen' \in {seen, NoStatus} /\ answer' \in {answer, NoAnswer}
    BY <1>8 DEF Judge, HttpError
  <2> QED
    BY <2>1, <2>2, <2>3, Order DEF queue, Visible, TInv, TypeOK
<1>9. CASE UNCHANGED vars
  BY <1>9 DEF vars, queue, script, Visible, TInv, TypeOK
<1>10. ASSUME NEW j \in Jobs, Ages(j) \/ FailureAges(j) PROVE TInv'
  BY <1>10 DEF Ages, FailureAges, script, Visible, TInv, TypeOK
<1> QED
  BY <1>1, <1>2, <1>3, <1>4, <1>5, <1>6, <1>7, <1>8, <1>9, <1>10 DEF Next, Script, Queue

\* The fate of a job in one step of the queue: it stays there, its failures
\* are counted until it is old, and unless it is written over it succeeds only if its handler
\* may return, and is dead-lettered only if its handler may always raise.
Fate(j) ==
    /\ status[j] # "none" => status'[j] # "none"
    /\ status'[j] = "dead_lettered" /\ status[j] # "dead_lettered" => j \in failed'
    /\ j \in failed /\ j \notin old' => j \in failed'
    /\ j \notin overwritten' =>
          /\ status[j] = "succeeded" => status'[j] = "succeeded"
          /\ status'[j] = "succeeded" /\ status[j] # "succeeded" => j \notin FailAlways
          /\ status'[j] = "dead_lettered" /\ status[j] # "dead_lettered" => j \notin Sleep \cup FailOnce

\* Every step of the queue or the script keeps to it.
LEMMA Fates ==
    ASSUME TInv, [Next]_vars
    PROVE  old \subseteq old' /\ overwritten \subseteq overwritten' /\ \A j \in Jobs : Fate(j)
<1>0. DOMAIN status = Jobs
  BY DEF TInv, TypeOK
<1> DEFINE Goal == old \subseteq old' /\ overwritten \subseteq overwritten' /\ \A j \in Jobs : Fate(j)
<1>1. ASSUME UNCHANGED queue PROVE Goal
  BY <1>1 DEF queue, Fate
<1>2. ASSUME NEW k \in Jobs, Insert(k) PROVE Goal
  BY <1>0, <1>2 DEF Insert, Fate
<1>3. ASSUME NEW k \in Jobs, Claim(k) \/ Expire(k) \/ BackoffEnds(k) \/ Cancel(k) \/ ManualRetry(k) PROVE Goal
  BY <1>0, <1>3 DEF Claim, Expire, BackoffEnds, Cancel, ManualRetry, Fate
<1>4. ASSUME NEW k \in Jobs, Succeed(k) PROVE Goal
  <2>1. k \notin FailAlways
    BY <1>4, BatchAssumption DEF Succeed, MayReturn
  <2> QED
    BY <1>0, <1>4, <2>1 DEF Succeed, Fate
<1>5. ASSUME NEW k \in Jobs, Fail(k) PROVE Goal
  <2>1. k \notin Sleep
    BY <1>5, BatchAssumption DEF Fail, MayRaise
  <2>2. k \in FailOnce => attempts[k] < MaxAttempts(k)
    BY <1>5, BatchAssumption DEF Fail, MayRaise, MaxAttempts
  <2> QED
    BY <1>0, <1>5, <2>1, <2>2 DEF Fail, AttemptsLeft, Fate
<1>6. ASSUME NEW k \in Jobs, NEW s \in JobStatus, Overwrite(k, s) PROVE Goal
  BY <1>0, <1>6 DEF Overwrite, JobStatus, Fate
<1>7. CASE \/ Seeded \/ HttpError \/ Poll \/ Judge
           \/ CountByStatus \/ ReadQueueDepth \/ CountCreated \/ CountFailures \/ AverageRuntime
  BY <1>1, <1>7 DEF Seeded, HttpError, Poll, Judge, CountByStatus, ReadQueueDepth, CountCreated,
                    CountFailures, AverageRuntime, Run
<1>8. CASE UNCHANGED vars
  BY <1>1, <1>8 DEF vars
<1>9. ASSUME NEW k \in Jobs, Ages(k) \/ FailureAges(k) PROVE Goal
  BY <1>9 DEF Ages, FailureAges, Fate
<1> QED
  BY <1>2, <1>3, <1>4, <1>5, <1>6, <1>7, <1>8, <1>9 DEF Next, Script, Queue, OtherClient, SubmitJob

-----------------------------------------------------------------------------
(* What the script has read.                                               *)

\* The statuses change in the first statement and at the end of the loop, or of
\* the script, only.
LEMMA SeenChanges ==
    ASSUME TInv, [Next]_vars
    PROVE  \/ seen' = seen
           \/ seen' = status /\ status' = status /\ statement' = 2 /\ UNCHANGED <<pc, answer>>
           \/ seen' = NoStatus /\ statement' = 1 /\ pc' \in {"waiting", "failed"}
<1>1. CASE \E j \in Jobs : Queue(j) \/ SubmitJob(j)
  BY <1>1 DEF Queue, SubmitJob, OtherClient, Claim, Succeed, Fail, Expire, BackoffEnds, Cancel,
              ManualRetry, Overwrite, Ages, FailureAges, script
<1>2. CASE \/ Seeded \/ Poll
           \/ ReadQueueDepth \/ CountCreated \/ CountFailures \/ AverageRuntime
  BY <1>2 DEF Seeded, Poll, ReadQueueDepth, CountCreated, CountFailures, AverageRuntime
<1>3. CASE CountByStatus
  <2>1. Run("status") /\ statement = 1
    BY <1>3, Order DEF CountByStatus
  <2>2. statement' = 2 /\ status' = status /\ pc' = pc
    BY <2>1 DEF Run, queue
  <2> QED
    BY <1>3, <2>2 DEF CountByStatus
<1>4. CASE Judge \/ HttpError
  BY <1>4 DEF Judge, HttpError
<1>5. CASE UNCHANGED vars
  BY <1>5 DEF vars, script
<1> QED
  BY <1>1, <1>2, <1>3, <1>4, <1>5 DEF Next, Script

\* The outcomes are those the handlers imply.
LEMMA NextImplied ==
    ASSUME TInv, [Next]_vars, Implied(status), Implied(seen)
    PROVE  Implied(status)' /\ Implied(seen)'
<1>1. Implied(status)'
  BY Fates DEF Implied, Fate
<1>2. Implied(seen)'
  <2>1. \A j \in Jobs : NoStatus[j] = "none"
    BY DEF NoStatus
  <2> QED
    BY Fates, SeenChanges, <1>1, <2>1 DEF Implied
<1> QED
  BY <1>1, <1>2

\* While a request lasts, no job leaves its hour.
LEMMA NextPolled ==
    ASSUME TInv, [Next]_vars, NumbersArePolled
    PROVE  NumbersArePolled' /\ (statement > 1 => old' = old)
<1>1. CASE \E j \in Jobs : Queue(j) \/ SubmitJob(j)
  BY <1>1 DEF NumbersArePolled, Queue, SubmitJob, OtherClient, Insert, Claim, Succeed, Fail, Expire,
              BackoffEnds, Cancel, ManualRetry, Overwrite, Ages, FailureAges, script
<1>2. CASE Seeded \/ Poll \/ HttpError \/ Judge
  BY <1>2 DEF NumbersArePolled, Seeded, Poll, HttpError, Judge, Answered, queue
<1>3. CASE CountByStatus \/ ReadQueueDepth \/ CountCreated \/ CountFailures \/ AverageRuntime
  BY <1>3 DEF NumbersArePolled, CountByStatus, ReadQueueDepth, CountCreated, CountFailures,
              AverageRuntime, Run, queue
<1>4. CASE UNCHANGED vars
  BY <1>4 DEF NumbersArePolled, vars, queue, script
<1> QED
  BY <1>1, <1>2, <1>3, <1>4 DEF Next, Script

\* A young job is dead-lettered with a job_failed event.
LEMMA NextDeadLetters == ASSUME TInv, [Next]_vars, DeadLettersFailed PROVE DeadLettersFailed'
BY Fates DEF DeadLettersFailed, Fate

\* The wait ends as idle only if the counts say so.
LEMMA NextIdle ==
    ASSUME TInv, [Next]_vars, pc = "idle" => QueueIdle, pc' = "idle"
    PROVE  QueueIdle'
<1>1. CASE Judge
  BY <1>1 DEF Judge, QueueIdle, Seen
<1>2. CASE pc = "idle"
  <2>1. seen' = seen
    BY <1>2, SeenChanges DEF Next, Script, SubmitJob, Seeded, HttpError, Poll, Judge, Answered,
                             CountByStatus, ReadQueueDepth, CountCreated, CountFailures,
                             AverageRuntime, Run, vars, script
  <2> QED
    BY <1>2, <2>1 DEF QueueIdle, Seen
<1>3. Judge \/ pc' = pc \/ pc' # "idle"
  BY DEF Next, Script, Queue, OtherClient, Claim, Succeed, Fail, Expire, BackoffEnds, Cancel,
         ManualRetry, Overwrite, Ages, FailureAges, SubmitJob, Seeded, HttpError, Poll, CountByStatus, ReadQueueDepth,
         CountCreated, CountFailures, AverageRuntime, Run, vars, script
<1> QED
  BY <1>1, <1>2, <1>3

\* What was read stays true.
LEMMA NextSeenStays == ASSUME TInv, [Next]_vars, DeadLettersFailed, SeenStays PROVE SeenStays'
<1>1. CASE seen' = seen
  BY <1>1, Fates DEF SeenStays, Fate
<1>2. CASE seen' = status /\ status' = status
  BY <1>2, Fates DEF SeenStays, DeadLettersFailed, Fate
<1>3. CASE seen' = NoStatus
  BY <1>3 DEF NoStatus, SeenStays
<1> QED
  BY <1>1, <1>2, <1>3, SeenChanges

\* Each number bounds what was read before it.
LEMMA NextNumbers ==
    ASSUME TInv, [Next]_vars, NumbersArePolled, SeenStays, NumbersFit
    PROVE  NumbersFit'
<1> DEFINE Read == {j \in Jobs : seen[j] # "none"}
<1>0. /\ TypeOK /\ TypeOK' /\ statement \in 1 .. 6
      /\ answer.queue_depth \in Nat /\ answer.jobs_created \in Nat
      /\ old \in SUBSET Jobs
      /\ statement > 1 => old' = old
  BY NextTInv, NextPolled, Order DEF TInv, TypeOK, Visible
<1>1. /\ Visible \subseteq Visible' /\ Visible' \subseteq Jobs
      /\ Cardinality(Visible) <= Cardinality(Visible')
      /\ Cardinality(Visible) \in Nat /\ Cardinality(Visible') \in Nat
  <2>1. Visible \subseteq Visible' /\ Visible' \subseteq Jobs
    BY Fates DEF Visible, Fate
  <2> QED
    BY <2>1, Counts
<1>2. ASSUME statement' = statement, seen' = seen, answer' = answer PROVE NumbersFit'
  <2>1. answer.queue_depth <= Cardinality(Visible) => answer.queue_depth <= Cardinality(Visible')
    BY <1>0, <1>1
  <2>2. Seen("succeeded")' \ overwritten' \subseteq Seen("succeeded") \ overwritten
    BY <1>2, Fates DEF Seen
  <2>3. Seen("dead_lettered")' = Seen("dead_lettered") /\ Read' = Read
    BY <1>2 DEF Seen
  <2>4. CASE statement = 1
    BY <1>2, <2>4 DEF NumbersFit
  <2>5. CASE statement > 1
    <3>1. old' = old
      BY <1>0, <2>5
    <3> QED
      BY <1>2, <2>1, <2>2, <2>3, <3>1 DEF NumbersFit
  <2> QED
    BY <1>0, <2>4, <2>5
<1>3. ASSUME statement' = 1 \/ statement' = 2 PROVE NumbersFit'
  BY <1>3 DEF NumbersFit
<1>4. CASE \/ \E j \in Jobs : Queue(j) \/ SubmitJob(j)
           \/ Seeded \/ Poll
  BY <1>2, <1>4 DEF Queue, OtherClient, Claim, Succeed, Fail, Expire, BackoffEnds, Cancel, ManualRetry,
                    Overwrite, Ages, FailureAges, SubmitJob, Seeded, Poll, script
<1>5. CASE CountByStatus
  <2>1. Run("status") /\ statement = 1
    BY <1>5, Order DEF CountByStatus
  <2> QED
    BY <1>3, <2>1 DEF Run
<1>6. CASE ReadQueueDepth
  <2>1. Run("queue_depth") /\ statement = 2
    BY <1>6, Order DEF ReadQueueDepth
  <2>2. statement' = 3 /\ Visible' = Visible
    BY <2>1 DEF Run, queue, Visible
  <2> DEFINE Due == {j \in Jobs \ backoff : status[j] = "pending"}
  <2>3. answer'.queue_depth \in 0 .. Cardinality(Due)
    BY <1>0, <1>6 DEF ReadQueueDepth, TypeOK
  <2>4. Due \in SUBSET Jobs /\ Due \subseteq Visible
    BY DEF Visible
  <2>5. Cardinality(Due) \in Nat /\ Cardinality(Due) <= Cardinality(Visible)
    BY <1>1, <2>4, Counts
  <2> QED
    BY <1>1, <2>2, <2>3, <2>5 DEF NumbersFit
<1>7. CASE CountCreated
  <2>1. Run("created") /\ statement = 3
    BY <1>7, Order DEF CountCreated
  <2>2. statement' = 4 /\ Visible' = Visible /\ seen' = seen
    BY <1>7, <2>1 DEF CountCreated, Run, queue, Visible
  <2>3. answer'.jobs_created = Cardinality(Visible \ old) /\ answer'.queue_depth = answer.queue_depth
    BY <1>0, <1>7 DEF CountCreated, TypeOK
  <2>4. Cardinality(Read \ old) <= Cardinality(Visible \ old)
    <3>1. Read \ old \subseteq Visible \ old /\ Visible \ old \in SUBSET Jobs
      BY DEF SeenStays, Visible
    <3> QED
      BY <3>1, Counts
  <2>5. answer.queue_depth <= Cardinality(Visible \ old) + Cardinality(old)
    <3>1. Visible \in SUBSET Jobs
      BY DEF Visible
    <3>2. /\ Cardinality(Visible) <= Cardinality(Visible \ old) + Cardinality(old)
          /\ Cardinality(Visible \ old) \in Nat /\ Cardinality(old) \in Nat
      BY <1>0, <3>1, Counts
    <3> QED
      BY <1>0, <1>1, <2>1, <3>2 DEF NumbersFit
  <2>6. old' = old /\ answer'.queue_depth <= Cardinality(Visible')
    BY <1>0, <2>1, <2>2, <2>3 DEF NumbersFit
  <2> QED
    BY <2>2, <2>3, <2>4, <2>5, <2>6 DEF NumbersFit
<1>8. CASE CountFailures
  <2>1. Run("failures") /\ statement = 4
    BY <1>8, Order DEF CountFailures
  <2>2. statement' = 5 /\ Visible' = Visible /\ seen' = seen
    BY <1>8, <2>1 DEF CountFailures, Run, queue, Visible
  <2>3. /\ answer'.failures = Cardinality(failed)
        /\ answer'.jobs_created = answer.jobs_created /\ answer'.queue_depth = answer.queue_depth
    BY <1>0, <1>8 DEF CountFailures, TypeOK
  <2>4. /\ Seen("dead_lettered") \ old \subseteq failed
        /\ Seen("dead_lettered")' = Seen("dead_lettered") /\ old' = old
    BY <1>0, <2>1, <2>2 DEF SeenStays, Seen
  <2>5. Cardinality(Seen("dead_lettered") \ old) <= Cardinality(failed)
    BY <1>0, <2>4, Counts DEF TypeOK
  <2> QED
    BY <2>1, <2>2, <2>3, <2>4, <2>5 DEF NumbersFit
<1>9. CASE AverageRuntime
  <2>1. Run("runtime") /\ statement = 5
    BY <1>9, Order DEF AverageRuntime
  <2>2. statement' = 6 /\ Visible' = Visible /\ seen' = seen /\ overwritten' = overwritten
    BY <1>9, <2>1 DEF AverageRuntime, Run, queue, Visible
  <2>3. /\ answer'.has_runtime = \E j \in Jobs : status[j] = "succeeded"
        /\ answer'.failures = answer.failures
        /\ answer'.jobs_created = answer.jobs_created /\ answer'.queue_depth = answer.queue_depth
    BY <1>0, <1>9 DEF AverageRuntime, TypeOK
  <2>4. /\ Seen("dead_lettered")' = Seen("dead_lettered") /\ Seen("succeeded")' = Seen("succeeded")
        /\ old' = old
        /\ \A j \in Seen("succeeded") \ overwritten : j \in Jobs /\ status[j] = "succeeded"
    BY <1>0, <2>1, <2>2 DEF SeenStays, Seen
  <2> QED
    BY <2>1, <2>2, <2>3, <2>4 DEF NumbersFit
<1>10. CASE Judge \/ HttpError
  BY <1>3, <1>10 DEF Judge, HttpError
<1>11. CASE UNCHANGED vars
  BY <1>2, <1>11 DEF vars, script
<1> QED
  BY <1>4, <1>5, <1>6, <1>7, <1>8, <1>9, <1>10, <1>11 DEF Next, Script

-----------------------------------------------------------------------------
(* The theorems.                                                           *)

\* The inductive invariant.
LEMMA Invariance == Spec => []IInv
<1>1. Init => IInv
  <2> SUFFICES ASSUME Init PROVE IInv
    OBVIOUS
  <2>1. /\ \A j \in Jobs : status[j] = "none" /\ seen[j] = "none" /\ attempts[j] = 0
        /\ status \in [Jobs -> {"none"}] /\ seen \in [Jobs -> {"none"}] /\ DOMAIN attempts = Jobs
    BY DEF Init, NoStatus
  <2>2. TInv
    BY <2>1 DEF Init, TInv, TypeOK, Visible, MaxAttempts, JobStatus, Statements, NoAnswer
  <2> QED
    BY <2>1, <2>2 DEF Init, IInv, Implied, DeadLettersFailed, NumbersArePolled, SeenStays,
                      NumbersFit
<1>2. IInv /\ [Next]_vars => IInv'
  BY NextTInv, NextImplied, NextDeadLetters, NextIdle, NextPolled, NextSeenStays, NextNumbers DEF IInv
<1> QED
  BY <1>1, <1>2, PTL DEF Spec

\* The variables keep their types.
THEOREM TypeCorrect == Spec => []TypeOK
<1>1. IInv => TypeOK
  BY DEF IInv, TInv
<1> QED
  BY Invariance, <1>1, PTL

\* run_demo.py reports the mix of outcomes its profile promises, whatever
\* crashes, is retried, or is submitted by others while it runs.
THEOREM MixIsExpected == Spec => []ExpectedMix
<1>1. IInv => ExpectedMix
  <2> SUFFICES ASSUME IInv, pc = "idle",
                      NEW j \in Jobs \ (Seen("none") \cup Seen("cancelled") \cup overwritten)
               PROVE  /\ seen[j] \in {"succeeded", "dead_lettered"}
                      /\ j \in Sleep \cup FailOnce => seen[j] = "succeeded"
                      /\ j \in FailAlways => seen[j] = "dead_lettered"
    BY DEF ExpectedMix
  <2>1. seen[j] \in JobStatus \cup {"none"} /\ seen[j] \notin {"none", "cancelled", "pending", "running"}
    BY DEF IInv, TInv, TypeOK, QueueIdle, Seen
  <2> QED
    BY <2>1 DEF IInv, Implied, JobStatus
<1> QED
  BY Invariance, <1>1, PTL

\* The numbers of one answer of get_metrics are consistent on what they all
\* count, although each comes from a snapshot of its own and two of them leave
\* out what is more than an hour old.
THEOREM AnswersAreConsistent == Spec => []MetricsFitTogether
<1>1. IInv => MetricsFitTogether
  BY Order DEF IInv, MetricsFitTogether, Answered, NumbersFit
<1> QED
  BY Invariance, <1>1, PTL

=============================================================================
