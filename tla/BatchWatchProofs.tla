-------------------------- MODULE BatchWatchProofs --------------------------
(***************************************************************************)
(* What the waiting scripts may conclude from a list that moves while they *)
(* page through it, for any batch size, page size and number of others.    *)
(***************************************************************************)
EXTENDS BatchWatch, FiniteSetTheorems, TLAPS

\* How many of the visible jobs are listed before job j: the offset of its row.
Rank(j) == Cardinality({k \in Visible : k > j})

Fetched == {i.job : i \in items}

\* The submissions of the batch and of the others stay within their bounds.
BatchOK ==
    /\ begun <= Cardinality(batch) + MaxOthers
    /\ Cardinality(batch) <= BatchSize
    /\ pc = "submitting" => Cardinality(batch) < BatchSize
    /\ batch \subseteq Visible

TInv == TypeOK /\ BatchOK

\* A row that was ever in a terminal status is of a job that has ended.
EndedOK ==
    /\ \A j \in Job : status[j] \in TERMINAL_STATUSES => j \in ended
    /\ \A i \in items : i.status \in TERMINAL_STATUSES => i.job \in ended

\* What was there when the fetch began is still there, and what had succeeded
\* then is still read as succeeded, unless a stale commit has undone it.
BeforeOK ==
    /\ pc \in {"submitting", "waiting"} =>
          items = {} /\ ~slipped /\ before.visible = {} /\ before.succeeded = {} /\ undone = {}
    /\ pc \in {"count", "page", "fetched"} => batch \subseteq before.visible
    /\ before.succeeded \subseteq before.visible /\ before.visible \subseteq Visible
    /\ \A j \in before.succeeded \ undone : status[j] = "succeeded"
    /\ \A i \in items : i.job \in before.succeeded \ undone => i.status = "succeeded"

\* The heart of fetch_jobs: the jobs it has yet to read are listed at its next
\* offset or behind, because rows move to later pages only.
PagesOK ==
    /\ IsFiniteSet(items)
    /\ \A j \in before.visible \ Fetched : Rank(j) >= Cardinality(items)
    /\ pc = "page" /\ ~slipped => total = Cardinality(Visible)

IInv ==
    /\ TInv /\ EndedOK /\ BeforeOK /\ PagesOK
    /\ NothingMissed /\ ReportsEndedBatch /\ NoFalseTimeout

-----------------------------------------------------------------------------
(* Counting rows.                                                          *)

\* Sets of jobs are finite, and a smaller one has no more members.
LEMMA Counts ==
    /\ BatchSize \in Nat /\ Limit \in Nat /\ MaxOthers \in Nat /\ BatchSize > 0 /\ Limit > 0
    /\ Job \subseteq Nat /\ IsFiniteSet(Job) /\ Cardinality(Job) = BatchSize + MaxOthers
    /\ \A S \in SUBSET Job : IsFiniteSet(S) /\ Cardinality(S) \in Nat
    /\ \A S, T \in SUBSET Job : S \subseteq T => Cardinality(S) <= Cardinality(T)
    /\ \A S, T \in SUBSET Job : S \subseteq T /\ S # T => Cardinality(S) < Cardinality(T)
<1>1. BatchSize \in Nat /\ Limit \in Nat /\ MaxOthers \in Nat /\ BatchSize > 0 /\ Limit > 0
  BY SizesAssumption
<1>2. Job \subseteq Nat /\ IsFiniteSet(Job) /\ Cardinality(Job) = BatchSize + MaxOthers
  BY <1>1, FS_Interval DEF Job
<1>3. \A S \in SUBSET Job : IsFiniteSet(S) /\ Cardinality(S) \in Nat
  BY <1>2, FS_Subset, FS_CardinalityType
<1>4. ASSUME NEW S \in SUBSET Job, NEW T \in SUBSET Job, S \subseteq T
      PROVE  /\ Cardinality(S) <= Cardinality(T)
             /\ S # T => Cardinality(S) < Cardinality(T)
  BY <1>3, <1>4, FS_Subset
<1> QED
  BY <1>1, <1>2, <1>3, <1>4

\* A visible job is listed before the end of the list, and no two at one place.
LEMMA Ranks ==
    /\ \A j \in Job : Rank(j) \in Nat
    /\ \A j \in Visible : Rank(j) < Cardinality(Visible)
    /\ \A j, k \in Visible : Rank(j) = Rank(k) => j = k
<1> DEFINE After(j) == {k \in Visible : k > j}
<1>1. Visible \subseteq Job /\ \A j : After(j) \in SUBSET Job
  BY DEF Visible
<1>2. \A j : Rank(j) = Cardinality(After(j))
  BY DEF Rank
<1>3. \A j \in Job : Rank(j) \in Nat
  BY <1>1, <1>2, Counts
<1>4. ASSUME NEW j \in Visible PROVE Rank(j) < Cardinality(Visible)
  <2>1. After(j) \subseteq Visible /\ j \notin After(j)
    BY <1>1, Counts
  <2> HIDE DEF After
  <2> QED
    BY <1>1, <1>2, <2>1, Counts
<1>5. ASSUME NEW j \in Visible, NEW k \in Visible, j < k PROVE Rank(k) < Rank(j)
  <2>0. Visible \subseteq Nat
    BY <1>1, Counts
  <2>1. j \in Nat /\ k \in Nat /\ k > j /\ ~(k > k)
    BY <1>5, <2>0
  <2>2. \A m \in Visible : m > k => m > j
    BY <2>0, <2>1
  <2>3. After(k) \subseteq After(j) /\ k \in After(j) /\ k \notin After(k)
    BY <2>1, <2>2
  <2> HIDE DEF After
  <2> QED
    BY <1>1, <1>2, <2>3, Counts
<1>6. ASSUME NEW j \in Visible, NEW k \in Visible, Rank(j) = Rank(k) PROVE j = k
  <2>1. j \in Nat /\ k \in Nat /\ Rank(j) \in Nat
    BY <1>1, <1>3, Counts
  <2> QED
    BY <1>5, <1>6, <2>1
<1> QED
  BY <1>3, <1>4, <1>6

\* The rows of a page, as they are kept.
Rows(offset) == {[offset |-> offset, job |-> j, status |-> status[j]] : j \in Page(offset)}

\* A page has no more than Limit rows.
LEMMA PageIsLimited ==
    ASSUME NEW n \in Nat
    PROVE  IsFiniteSet(Rows(n)) /\ Cardinality(Rows(n)) \in Nat /\ Cardinality(Rows(n)) <= Limit
<1>1. Page(n) = {j \in Visible : Rank(j) \in n .. (n + Limit - 1)} /\ Page(n) \subseteq Job
  BY DEF Page, Rank, Visible
<1>2. IsFiniteSet(n .. (n + Limit - 1)) /\ Cardinality(n .. (n + Limit - 1)) = Limit
  <2>1. n \in Int /\ n + Limit - 1 \in Int /\ ~(n > n + Limit - 1) /\ (n + Limit - 1) - n + 1 = Limit
    BY Counts
  <2> QED
    BY <2>1, FS_Interval
<1> DEFINE place == [j \in Page(n) |-> Rank(j)]
<1>3. place \in Injection(Page(n), n .. (n + Limit - 1))
  BY <1>1, Ranks DEF Injection, IsInjective
<1>4. Cardinality(Page(n)) <= Limit
  BY <1>2, <1>3, FS_Injection
<1> DEFINE row == [j \in Page(n) |-> [offset |-> n, job |-> j, status |-> status[j]]]
<1>5. row \in Surjection(Page(n), Rows(n))
  BY DEF Surjection, Rows
<1>6. IsFiniteSet(Page(n)) /\ Cardinality(Page(n)) \in Nat
  BY <1>1, Counts
<1>7. IsFiniteSet(Rows(n)) /\ Cardinality(Rows(n)) <= Cardinality(Page(n))
  BY <1>5, <1>6, FS_Surjection
<1> QED
  BY <1>4, <1>6, <1>7, FS_CardinalityType, Counts

-----------------------------------------------------------------------------
(* The jobs.                                                               *)

\* A step of the queue: jobs appear and end, succeeded is final but for stale
\* commits, and a job that appears between a count and its page is noted.
LEMMA QueueStep ==
    ASSUME TInv, EndedOK, Queue
    PROVE  /\ Visible \subseteq Visible' /\ Visible' \subseteq Job
           /\ \A j \in Job : status[j] = "succeeded" /\ j \in before.succeeded \ undone'
                            => status'[j] = "succeeded"
           /\ undone \subseteq undone' /\ undone' \subseteq undone \cup before.succeeded
           /\ ended \subseteq ended' /\ \A j \in Job : status'[j] \in TERMINAL_STATUSES => j \in ended'
           /\ UNCHANGED <<batch, script, pc, last, total, items, before>>
           /\ slipped => slipped'
           /\ pc = "page" /\ ~slipped' => Visible' = Visible
           /\ pc # "page" => slipped' = slipped
<1>0. DOMAIN status = Job
  BY DEF TInv, TypeOK
<1>1. ASSUME NEW key \in BOOLEAN, OtherBegins(key)
      PROVE  UNCHANGED <<status, ended, batch, script, client>>
  BY <1>1 DEF OtherBegins
<1>2. CASE \E key \in BOOLEAN : OtherBegins(key)
  BY <1>1, <1>2 DEF client, Visible, EndedOK
<1>3. ASSUME NEW j \in Job, OtherCommits(j)
      PROVE  /\ Visible \subseteq Visible' /\ ended' = ended
             /\ \A k \in Job : status[k] = "succeeded" => status'[k] = "succeeded"
             /\ \A k \in Job : status'[k] \in TERMINAL_STATUSES => k \in ended'
             /\ UNCHANGED <<batch, script, pc, last, total, items, before, undone>>
             /\ slipped' = (slipped \/ pc = "page")
  BY <1>0, <1>3 DEF OtherCommits, Visible, EndedOK, TERMINAL_STATUSES
<1>4. CASE \E j \in Job : OtherCommits(j)
  <2>1. slipped \in BOOLEAN /\ Visible' \subseteq Job
    BY DEF TInv, TypeOK, Visible
  <2> QED
    BY <1>3, <1>4, <2>1
<1>5. ASSUME NEW j \in Job, ManualRetry(j) \/ \E s \in TERMINAL_STATUSES : End(j, s)
      PROVE  /\ Visible' = Visible /\ ended \subseteq ended'
             /\ \A k \in Job : status[k] = "succeeded" => status'[k] = "succeeded"
             /\ \A k \in Job : status'[k] \in TERMINAL_STATUSES => k \in ended'
             /\ UNCHANGED <<batch, script, client>>
  BY <1>0, <1>5 DEF ManualRetry, End, Visible, EndedOK, TERMINAL_STATUSES
<1>6. CASE \E j \in Job : ManualRetry(j) \/ \E s \in TERMINAL_STATUSES : End(j, s)
  BY <1>5, <1>6 DEF client, Visible
<1>7. ASSUME NEW j \in Job, NEW s \in Status, StaleCommit(j, s)
      PROVE  /\ Visible' = Visible /\ ended' = ended
             /\ \A k \in Job : status[k] = "succeeded" /\ k \in before.succeeded \ undone'
                              => status'[k] = "succeeded"
             /\ \A k \in Job : status'[k] \in TERMINAL_STATUSES => k \in ended'
             /\ undone' = undone \cup ({j} \cap before.succeeded)
             /\ UNCHANGED <<batch, script, pc, last, total, items, before, slipped>>
  <2>1. \A k \in Job : status'[k] = IF k = j THEN s ELSE status[k]
    BY <1>0, <1>7 DEF StaleCommit
  <2>2. Visible' = Visible
    BY <1>7, <2>1 DEF StaleCommit, Visible, TERMINAL_STATUSES
  <2> QED
    BY <1>7, <2>1, <2>2 DEF StaleCommit, EndedOK
<1>8. CASE \E j \in Job, s \in Status : StaleCommit(j, s)
  BY <1>7, <1>8 DEF Visible
<1> QED
  BY <1>2, <1>4, <1>6, <1>8 DEF Queue

\* The types and the bounds are kept by the queue.
LEMMA QueueType == ASSUME TInv, EndedOK, Queue PROVE TInv'
<1>0. TypeOK /\ BatchOK /\ batch \subseteq Job
  BY Counts DEF TInv, TypeOK, Job
<1>1. BatchOK' <=> begun' <= Cardinality(batch) + MaxOthers
  BY <1>0, QueueStep DEF BatchOK
<1>2. ASSUME NEW key \in BOOLEAN, OtherBegins(key) PROVE TInv'
  <2>1. Cardinality(batch) \in Nat /\ begun \in Nat
    BY <1>0, Counts DEF TypeOK
  <2>2. /\ begun' = begun + 1 /\ begun' <= Cardinality(batch) + MaxOthers
        /\ begun' \in 0 .. (BatchSize + MaxOthers)
    BY <1>0, <1>2, <2>1, Counts DEF OtherBegins, BatchOK
  <2>3. batch' \subseteq 1 .. begun' /\ keyless' \subseteq 1 .. begun'
    BY <1>0, <1>2, <2>1, <2>2 DEF OtherBegins, TypeOK
  <2> QED
    BY <1>0, <1>1, <1>2, <2>2, <2>3 DEF OtherBegins, client, TInv, TypeOK
<1>3. ASSUME NEW j \in Job, OtherCommits(j) PROVE TInv'
  BY <1>0, <1>1, <1>3 DEF OtherCommits, TInv, TypeOK, BatchOK, Status
<1>4. ASSUME NEW j \in Job, ManualRetry(j) \/ \E s \in TERMINAL_STATUSES : End(j, s) PROVE TInv'
  BY <1>0, <1>1, <1>4 DEF ManualRetry, End, client, TInv, TypeOK, BatchOK, Status
<1>5. ASSUME NEW j \in Job, NEW s \in Status, StaleCommit(j, s) PROVE TInv'
  <2>1. undone' \subseteq Job
    BY <1>0, <1>5 DEF StaleCommit, TypeOK
  <2> QED
    BY <1>0, <1>1, <1>5, <2>1 DEF StaleCommit, TInv, TypeOK, BatchOK, Status
<1> QED
  BY <1>2, <1>3, <1>4, <1>5 DEF Queue

\* What the scripts know survives a step of the queue.
LEMMA QueueInvariant == ASSUME IInv, pc \notin Outcome, Queue PROVE IInv'
<1>0. TInv /\ EndedOK /\ BeforeOK /\ PagesOK /\ TypeOK /\ before.visible \subseteq Job
  BY DEF IInv, TInv, TypeOK
<1>1. TInv' /\ EndedOK' /\ BeforeOK'
  <2>1. TInv'
    BY <1>0, QueueType
  <2>2. EndedOK'
    BY <1>0, QueueStep DEF EndedOK, TypeOK
  <2>3. pc \in {"submitting", "waiting"} => slipped' = slipped
    BY <1>0, QueueStep
  <2>4. pc \in {"submitting", "waiting"} => undone' = {}
    BY <1>0, QueueStep DEF BeforeOK
  <2>5. BeforeOK'
    BY <1>0, <2>3, <2>4, QueueStep DEF BeforeOK
  <2> QED
    BY <2>1, <2>2, <2>5
<1>2. PagesOK'
  <2>1. ASSUME NEW j \in Job PROVE Rank(j)' >= Rank(j)
    <3>1. {k \in Visible : k > j} \subseteq {k \in Visible' : k > j} /\ {k \in Visible' : k > j} \subseteq Job
      BY <1>0, QueueStep
    <3> QED
      BY <3>1, Counts DEF Rank
  <2>2. ASSUME NEW j \in before.visible \ Fetched PROVE Rank(j)' >= Cardinality(items)
    <3>1. Rank(j) \in Nat /\ Rank(j)' \in Nat /\ Cardinality(items) \in Nat
      BY <1>0, Ranks, QueueStep, Counts, FS_CardinalityType DEF PagesOK, Rank
    <3> QED
      BY <1>0, <2>1, <2>2, <3>1 DEF PagesOK
  <2> QED
    BY <1>0, <2>2, QueueStep DEF PagesOK, Fetched
<1>3. NothingMissed' /\ ReportsEndedBatch' /\ NoFalseTimeout'
  BY <1>0, QueueStep DEF IInv, NothingMissed, ReportsEndedBatch, NoFalseTimeout, Outcome
<1> QED
  BY <1>1, <1>2, <1>3 DEF IInv

-----------------------------------------------------------------------------
(* The scripts.                                                            *)

\* Nothing is there at the start.
LEMMA InitIInv == Init => IInv
<1> SUFFICES ASSUME Init PROVE IInv
  OBVIOUS
<1>1. \A j \in Job : status[j] = "none"
  BY DEF Init
<1>2. TypeOK
  <2>1. 0 \in 0 .. (BatchSize + MaxOthers) /\ status \in [Job -> Status]
    BY Counts DEF Init, Status
  <2>2. before \in [visible : SUBSET Job, succeeded : SUBSET Job]
    BY DEF Init
  <2> QED
    BY <2>1, <2>2 DEF Init, TypeOK
<1>3. BatchOK
  BY Counts, FS_EmptySet DEF Init, BatchOK
<1>4. EndedOK /\ BeforeOK
  BY <1>1 DEF Init, EndedOK, BeforeOK, TERMINAL_STATUSES
<1>5. PagesOK
  BY FS_EmptySet DEF Init, PagesOK
<1>6. NothingMissed /\ ReportsEndedBatch /\ NoFalseTimeout
  BY DEF Init, NothingMissed, ReportsEndedBatch, NoFalseTimeout
<1> QED
  BY <1>2, <1>3, <1>4, <1>5, <1>6 DEF IInv, TInv

\* The batch is submitted before the first fetch.
LEMMA SubmitInvariant == ASSUME IInv, SubmitOwn PROVE IInv'
<1>0. TypeOK /\ BatchOK /\ EndedOK /\ BeforeOK /\ PagesOK /\ pc = "submitting" /\ items = {}
  BY DEF IInv, TInv, SubmitOwn, BeforeOK
<1>1. /\ begun' = begun + 1 /\ batch' = batch \cup {begun + 1} /\ keyless' = keyless
      /\ status' = [status EXCEPT ![begun + 1] = "active"]
      /\ pc' = IF Cardinality(batch') = BatchSize THEN "waiting" ELSE "submitting"
      /\ UNCHANGED <<ended, script, last, total, items, before, undone, slipped>>
  BY DEF SubmitOwn
<1>2. /\ batch \subseteq Job /\ Cardinality(batch) \in Nat /\ begun \in Nat /\ begun + 1 \notin batch
      /\ IsFiniteSet(batch)
  BY <1>0, Counts DEF TypeOK, Job
<1>3. Cardinality(batch') = Cardinality(batch) + 1
  BY <1>1, <1>2, FS_AddElement
<1>4. begun + 1 \in Job /\ begun' \in 0 .. (BatchSize + MaxOthers)
  BY <1>0, <1>1, <1>2, Counts DEF BatchOK, Job
<1>5. batch' \subseteq 1 .. begun' /\ keyless' \subseteq 1 .. begun'
  BY <1>0, <1>1, <1>2 DEF TypeOK
<1>6. TypeOK'
  BY <1>0, <1>1, <1>4, <1>5 DEF TypeOK, Status
<1>7. Visible' = Visible \cup {begun + 1}
  BY <1>0, <1>1, <1>4 DEF Visible, TypeOK
<1>8. BatchOK'
  BY <1>0, <1>1, <1>2, <1>3, <1>7, Counts DEF BatchOK
<1>9. EndedOK' /\ BeforeOK'
  BY <1>0, <1>1, <1>4 DEF EndedOK, BeforeOK, TERMINAL_STATUSES, TypeOK
<1>10. PagesOK'
  BY <1>0, <1>1 DEF PagesOK, BeforeOK
<1>11. NothingMissed' /\ ReportsEndedBatch' /\ NoFalseTimeout'
  BY <1>1 DEF NothingMissed, ReportsEndedBatch, NoFalseTimeout
<1> QED
  BY <1>6, <1>8, <1>9, <1>10, <1>11 DEF IInv, TInv

\* A fetch begins with what is there, and with nothing read.
LEMMA StartFetchInvariant == ASSUME IInv, StartFetch PROVE IInv'
<1>0. TypeOK /\ BatchOK /\ EndedOK /\ BeforeOK /\ PagesOK
  BY DEF IInv, TInv
<1>1. /\ pc = "waiting" /\ pc' = "count" /\ last' \in BOOLEAN
      /\ before' = [visible |-> Visible, succeeded |-> With("succeeded")]
      /\ UNCHANGED <<begun, batch, keyless, status, ended, script, total, items, undone, slipped>>
      /\ Visible' = Visible /\ items = {}
  BY <1>0 DEF StartFetch, jobs, Visible, BeforeOK
<1>2. With("succeeded") \subseteq Visible /\ Visible \subseteq Job
  BY DEF With, Visible
<1>3. TypeOK'
  BY <1>0, <1>1, <1>2 DEF TypeOK
<1>4. BatchOK' /\ EndedOK' /\ BeforeOK'
  BY <1>0, <1>1, <1>2 DEF BatchOK, EndedOK, BeforeOK, With
<1>5. PagesOK'
  <2>1. Cardinality(items') = 0 /\ IsFiniteSet(items')
    BY <1>1, FS_EmptySet
  <2>2. \A j \in Job : Rank(j)' \in Nat
    BY <1>1, Ranks DEF Rank
  <2> QED
    BY <1>1, <1>2, <2>1, <2>2 DEF PagesOK
<1>6. NothingMissed' /\ ReportsEndedBatch' /\ NoFalseTimeout'
  BY <1>1 DEF NothingMissed, ReportsEndedBatch, NoFalseTimeout
<1> QED
  BY <1>3, <1>4, <1>5, <1>6 DEF IInv, TInv

\* The count is that of the rows.
LEMMA CountInvariant == ASSUME IInv, CountJobs PROVE IInv'
<1>0. TypeOK /\ BatchOK /\ EndedOK /\ BeforeOK /\ PagesOK
  BY DEF IInv, TInv
<1>1. /\ pc = "count" /\ pc' = "page" /\ total' = Cardinality(Visible)
      /\ UNCHANGED <<begun, batch, keyless, status, ended, script, last, items, before, undone, slipped>>
      /\ Visible' = Visible
  BY DEF CountJobs, jobs, Visible
<1>2. Cardinality(Visible) \in 0 .. (BatchSize + MaxOthers)
  <2>1. Visible \subseteq Job
    BY DEF Visible
  <2> QED
    BY <2>1, Counts
<1>3. TypeOK'
  BY <1>0, <1>1, <1>2 DEF TypeOK
<1>4. BatchOK' /\ EndedOK' /\ BeforeOK'
  BY <1>0, <1>1 DEF BatchOK, EndedOK, BeforeOK
<1>5. PagesOK'
  BY <1>0, <1>1 DEF PagesOK, Rank, Fetched
<1>6. NothingMissed' /\ ReportsEndedBatch' /\ NoFalseTimeout'
  BY <1>1 DEF NothingMissed, ReportsEndedBatch, NoFalseTimeout
<1> QED
  BY <1>3, <1>4, <1>5, <1>6 DEF IInv, TInv

\* A page brings the jobs at its offset; once as many rows are there as the
\* list had when it was counted and read, nothing is left behind them.
LEMMA ReadPageInvariant == ASSUME IInv, ReadPage PROVE IInv'
<1> DEFINE n == Cardinality(items)
<1>0. TypeOK /\ BatchOK /\ EndedOK /\ BeforeOK /\ PagesOK /\ n \in Nat
  BY FS_CardinalityType DEF IInv, TInv, PagesOK
<1>1. /\ pc = "page" /\ items' = items \cup Rows(n)
      /\ pc' = IF FetchedAll(items') THEN "fetched" ELSE "count"
      /\ UNCHANGED <<begun, batch, keyless, status, ended, script, last, total, before, undone, slipped>>
      /\ Visible' = Visible
  BY DEF ReadPage, Rows, jobs, Visible
<1>2. Page(n) = {j \in Visible : Rank(j) \in n .. (n + Limit - 1)} /\ Page(n) \subseteq Job
  BY DEF Page, Rank, Visible
<1>3. \A i \in Rows(n) : i.offset = n /\ i.job \in Page(n) /\ i.status = status[i.job]
  BY DEF Rows
<1>4. Rows(n) \subseteq Item
  BY <1>0, <1>2 DEF Rows, Item, TypeOK, Visible
<1>5. TypeOK'
  BY <1>0, <1>1, <1>4 DEF TypeOK
<1>6. BatchOK' /\ EndedOK' /\ BeforeOK'
  BY <1>0, <1>1, <1>2, <1>3 DEF BatchOK, EndedOK, BeforeOK
<1>7. IsFiniteSet(items') /\ Cardinality(items') \in Nat /\ Cardinality(items') <= n + Limit
  <2>1. IsFiniteSet(Rows(n)) /\ Cardinality(Rows(n)) \in Nat /\ Cardinality(Rows(n)) <= Limit
    BY <1>0, PageIsLimited
  <2>2. /\ IsFiniteSet(items') /\ Cardinality(items') \in Nat
        /\ Cardinality(items') = n + Cardinality(Rows(n)) - Cardinality(items \cap Rows(n))
    BY <1>0, <1>1, <2>1, FS_Union, FS_CardinalityType DEF PagesOK
  <2>3. Cardinality(items \cap Rows(n)) \in Nat
    BY <1>0, FS_Intersection, FS_CardinalityType DEF PagesOK
  <2> QED
    BY <1>0, <2>1, <2>2, <2>3, Counts
<1>8. ASSUME NEW j \in before.visible \ Fetched' PROVE Rank(j) \in Nat /\ Rank(j) >= Cardinality(items')
  <2>1. j \in Visible /\ j \in Job /\ j \notin Fetched
    BY <1>0, <1>1, <1>8 DEF BeforeOK, Visible, Fetched
  <2>2. j \notin Page(n)
    <3> SUFFICES ASSUME j \in Page(n) PROVE FALSE
      OBVIOUS
    <3>1. [offset |-> n, job |-> j, status |-> status[j]] \in items'
      BY <1>1 DEF Rows
    <3> QED
      BY <1>8, <3>1 DEF Fetched
  <2>3. Rank(j) \in Nat /\ Rank(j) >= n
    BY <1>0, <1>8, <2>1, Ranks DEF PagesOK
  <2>4. Rank(j) \notin n .. (n + Limit - 1)
    BY <1>2, <2>1, <2>2
  <2> QED
    BY <1>0, <1>7, <2>3, <2>4, Counts
<1>9. \A j : Rank(j)' = Rank(j)
  BY <1>1 DEF Rank
<1>10. PagesOK'
  BY <1>1, <1>7, <1>8, <1>9 DEF PagesOK
<1>11. NothingMissed'
  <2> SUFFICES ASSUME FetchedAll(items'), ~slipped, NEW j \in before.visible \ Fetched' PROVE FALSE
    BY <1>1 DEF NothingMissed, Fetched
  <2>1. total = Cardinality(Visible) /\ Cardinality(items') >= total
    BY <1>0, <1>1 DEF PagesOK, FetchedAll
  <2>2. j \in Visible
    BY <1>0 DEF BeforeOK
  <2>3. Rank(j) < Cardinality(Visible)
    BY <2>2, Ranks
  <2>4. Rank(j) \in Nat /\ Rank(j) >= Cardinality(items') /\ Cardinality(Visible) \in Nat
    BY <1>8, Counts DEF Visible
  <2> QED
    BY <1>7, <2>1, <2>3, <2>4
<1>12. ReportsEndedBatch' /\ NoFalseTimeout'
  BY <1>1 DEF ReportsEndedBatch, NoFalseTimeout
<1> QED
  BY <1>5, <1>6, <1>10, <1>11, <1>12 DEF IInv, TInv

\* If a fetch missed nothing, it counts at least the successes that were there
\* when it began and have not been undone since.
LEMMA SuccessesAreCounted ==
    ASSUME IInv, before.visible \subseteq Fetched
    PROVE  /\ Cardinality(before.succeeded \ undone) \in Nat /\ Succeeded(items) \in Nat
           /\ Cardinality(before.succeeded \ undone) <= Succeeded(items)
<1> DEFINE Still == before.succeeded \ undone
           S == {i \in items : i.status = "succeeded"}
           T == {i \in S : i.job \in Still}
           job == [i \in T |-> i.job]
<1>1. IsFiniteSet(S) /\ IsFiniteSet(T) /\ Cardinality(T) <= Cardinality(S)
  BY FS_Subset DEF IInv, PagesOK
<1>2. ASSUME NEW j \in Still PROVE \E i \in T : job[i] = j
  <2>1. PICK i \in items : i.job = j
    BY <1>2 DEF IInv, BeforeOK, Fetched
  <2>2. i.status = "succeeded"
    BY <1>2, <2>1 DEF IInv, BeforeOK
  <2> QED
    BY <1>2, <2>1, <2>2
<1>3. job \in Surjection(T, Still)
  BY <1>2 DEF Surjection
<1> HIDE DEF Still
<1>4. IsFiniteSet(Still) /\ Cardinality(Still) <= Cardinality(T)
  BY <1>1, <1>3, FS_Surjection
<1>5. Cardinality(S) \in Nat /\ Cardinality(T) \in Nat /\ Cardinality(Still) \in Nat
  BY <1>1, <1>4, FS_CardinalityType
<1> QED
  BY <1>1, <1>4, <1>5 DEF Succeeded, Still

\* The verdicts are those the rows support.
LEMMA JudgeInvariant == ASSUME IInv, JudgeBatch \/ JudgeCounts PROVE IInv'
<1>0. TypeOK /\ BatchOK /\ EndedOK /\ BeforeOK /\ PagesOK /\ NothingMissed /\ pc = "fetched"
  BY DEF IInv, TInv, JudgeBatch, JudgeCounts
<1>1. ASSUME Sleep PROVE IInv'
  <2>1. /\ pc' = "waiting" /\ last' = FALSE /\ total' = 0 /\ items' = {} /\ slipped' = FALSE
        /\ before' = [visible |-> {}, succeeded |-> {}] /\ undone' = {}
        /\ UNCHANGED <<begun, batch, keyless, status, ended, script>> /\ Visible' = Visible
    BY <1>1 DEF Sleep, jobs, Visible
  <2>2. TypeOK'
    <3>1. 0 \in 0 .. (BatchSize + MaxOthers)
      BY Counts
    <3>2. before' \in [visible : SUBSET Job, succeeded : SUBSET Job]
      BY <2>1
    <3> QED
      BY <1>0, <2>1, <3>1, <3>2 DEF TypeOK
  <2>3. BatchOK' /\ EndedOK' /\ BeforeOK'
    BY <1>0, <2>1 DEF BatchOK, EndedOK, BeforeOK
  <2>4. PagesOK'
    BY <2>1, FS_EmptySet DEF PagesOK
  <2> QED
    BY <2>1, <2>2, <2>3, <2>4 DEF IInv, TInv, NothingMissed, ReportsEndedBatch, NoFalseTimeout
<1>2. ASSUME NEW outcome \in Outcome, Conclude(outcome),
             script = "load_test" /\ outcome \in {"ok", "shortfall"} /\ ~slipped => batch \subseteq ended,
             script = "verify_queue" /\ outcome = "timed_out" /\ ~slipped =>
                Cardinality(before.succeeded \ undone) < BatchSize
      PROVE  IInv'
  <2>1. /\ pc' = outcome /\ outcome \notin {"submitting", "waiting", "count", "page", "fetched"}
        /\ UNCHANGED <<begun, batch, keyless, status, ended, script, last, total, items, before,
                       undone, slipped>>
        /\ Visible' = Visible
    BY <1>2 DEF Conclude, jobs, Visible, Outcome
  <2>2. TypeOK'
    BY <1>0, <2>1 DEF TypeOK
  <2>3. BatchOK' /\ EndedOK' /\ BeforeOK'
    BY <1>0, <2>1 DEF BatchOK, EndedOK, BeforeOK
  <2>4. PagesOK'
    BY <1>0, <2>1 DEF PagesOK, Rank, Fetched
  <2> QED
    BY <1>2, <2>1, <2>2, <2>3, <2>4 DEF IInv, TInv, NothingMissed, ReportsEndedBatch, NoFalseTimeout
<1>3. BatchEnded /\ ~slipped => batch \subseteq ended
  BY <1>0 DEF BatchEnded, OfBatch, NothingMissed, BeforeOK, EndedOK
<1>4. CASE JudgeBatch
  BY <1>1, <1>2, <1>3, <1>4 DEF JudgeBatch, Outcome
<1>5. ~AsExpected /\ ~slipped => Cardinality(before.succeeded \ undone) < BatchSize
  BY <1>0, SuccessesAreCounted, Counts DEF AsExpected, NothingMissed, Fetched
<1>6. CASE JudgeCounts
  BY <1>1, <1>2, <1>5, <1>6 DEF JudgeCounts, Outcome
<1> QED
  BY <1>4, <1>6

-----------------------------------------------------------------------------
(* The theorems.                                                           *)

\* The inductive invariant.
LEMMA Invariance == Spec => []IInv
<1>1. IInv /\ [Next]_vars => IInv'
  <2> SUFFICES ASSUME IInv, [Next]_vars PROVE IInv'
    OBVIOUS
  <2>1. CASE UNCHANGED vars
    BY <2>1 DEF vars, jobs, client, IInv, TInv, TypeOK, BatchOK, EndedOK, BeforeOK, PagesOK, Rank, Fetched,
                Visible, NothingMissed, ReportsEndedBatch, NoFalseTimeout
  <2> QED
    BY <2>1, SubmitInvariant, QueueInvariant, StartFetchInvariant, CountInvariant, ReadPageInvariant,
       JudgeInvariant DEF Next
<1> QED
  BY InitIInv, <1>1, PTL DEF Spec

\* The variables keep their types.
THEOREM TypeCorrect == Spec => []TypeOK
<1>1. IInv => TypeOK
  BY DEF IInv, TInv
<1> QED
  BY Invariance, <1>1, PTL

\* fetch_jobs misses no job that was listed when it began, for any page size,
\* unless a submission slips in between a count and its page.
THEOREM FetchIsComplete == Spec => []NothingMissed
<1>1. IInv => NothingMissed
  BY DEF IInv
<1> QED
  BY Invariance, <1>1, PTL

\* load_test.py reports only a batch that has ended.
THEOREM ReportIsFinal == Spec => []ReportsEndedBatch
<1>1. IInv => ReportsEndedBatch
  BY DEF IInv
<1> QED
  BY Invariance, <1>1, PTL

\* verify_queue.py calls a timeout only if the successes were not there when its
\* last fetch began, or stale commits have undone some of them since.
THEOREM TimeoutIsTrue == Spec => []NoFalseTimeout
<1>1. IInv => NoFalseTimeout
  BY DEF IInv
<1> QED
  BY Invariance, <1>1, PTL
=============================================================================
