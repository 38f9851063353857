--------------------------- MODULE RowLocksProofs ---------------------------
(***************************************************************************)
(* No set of transactions waits in a circle, for any number of jobs,       *)
(* workers and requests.                                                   *)
(*                                                                         *)
(* Transactions other than scans take one job row at most before a worker  *)
(* row, and wait for nothing once they have the worker row; so a circle    *)
(* could only be one of scans that wait for each other's worker rows.  Two *)
(* scans never want the same one: what the later of them finds in          *)
(* current_job_id is a job claimed after the earlier had looked, whose     *)
(* lease has not lapsed as long as scans fit the lease.                    *)
(***************************************************************************)
EXTENDS RowLocks, TLAPS

\* A row is locked by one transaction at a time; one that has ended has none.
Exclusive == \A a, b \in Actors : a # b => holds[a] \cap holds[b] = {}
Idle == \A a \in Actors : op[a] = "none" => holds[a] = {} /\ todo[a] = {}

\* A transaction that is not a scan: at most one job, then its own worker row.
Plain(a) ==
    /\ holds[a] \cap Workers # {} => todo[a] = {}
    /\ todo[a] \cap Jobs # {} => holds[a] = {}
    /\ todo[a] \cap Workers \subseteq {a}
    /\ \A r, s \in todo[a] \cap Jobs : r = s
PlainShape == \A a \in Actors : op[a] # "scan" => Plain(a)

\* A scan holds lapsed jobs and takes worker rows.
ScanShape ==
    /\ \A c \in Clients : op[c] # "scan"
    /\ \A w \in Workers : op[w] = "scan" =>
          /\ todo[w] \subseteq Workers
          /\ left[w] \subseteq holds[w]
          /\ holds[w] \cap Jobs \subseteq lapsed
    /\ \A w \in Workers : op[w] # "scan" =>
          left[w] = {} /\ loaded[w] = Nothing /\ recent[w] = {}

\* What a claim has selected is pending and locked, and a completion locks the
\* job of its task.
ClaimShape ==
    \A w \in Workers : op[w] = "claim" =>
        /\ todo[w] \cap Jobs = {}
        /\ \A j \in holds[w] \cap Jobs : owner[j] = NULL
CompletionShape ==
    \A w \in Workers : op[w] = "completion" => task[w] \in Jobs \cap (holds[w] \cup todo[w])

Shape == Exclusive /\ Idle /\ PlainShape /\ ScanShape /\ ClaimShape /\ CompletionShape

\* The worker rows that a scan clears, or might come to clear because the
\* pointer it has read is one of its jobs.
Clearing(w) ==
    {v \in Workers : \/ v \in holds[w] \cup todo[w]
                     \/ v \in DOMAIN loaded[w] /\ loaded[w][v] \in holds[w] \cap Jobs}

\* Such a row still points at a job of the scan, or at one claimed since.
PointersKnown ==
    \A w \in Workers : op[w] = "scan" =>
        \A v \in Clearing(w) : pointer[v] \in {NULL} \cup recent[w] \cup holds[w]

\* The contract: what was claimed since a scan began has not lapsed.
RecentLive == \A w \in Workers : recent[w] \cap lapsed = {}

ClearingDisjoint ==
    \A u, v \in Workers : u # v /\ op[u] = "scan" /\ op[v] = "scan" =>
        Clearing(u) \cap Clearing(v) = {}

Contract == ScansFitLease => RecentLive /\ ClearingDisjoint

IInv == TypeOK /\ Shape /\ PointersKnown /\ Contract

-----------------------------------------------------------------------------
\* The circle-free order follows from the invariant.
LEMMA NoDeadlockFollows == IInv => NoDeadlock
<1> SUFFICES ASSUME IInv, ScansFitLease,
                    NEW S \in SUBSET Actors, S # {},
                    \A a \in S : \E b \in S : WaitsFor(a, b)
             PROVE  FALSE
  BY DEF NoDeadlock
<1> USE RowsAssumption DEF Actors
<1>1. \A a \in S : todo[a] # {}
  BY DEF WaitsFor, Wants
<1>2. \A a \in Actors : todo[a] \subseteq Jobs \cup Workers /\ holds[a] \subseteq Jobs \cup Workers
  BY DEF IInv, TypeOK, Rows
<1>3. ASSUME NEW a \in S, op[a] = "scan" PROVE FALSE
  <2>1. a \in Workers /\ Wants(a) \subseteq todo[a] /\ todo[a] \subseteq Workers
    BY <1>3 DEF IInv, Shape, ScanShape, Wants
  <2>2. PICK b \in S : WaitsFor(a, b)
    OBVIOUS
  <2>3. PICK r \in Workers : r \in todo[a] /\ r \in holds[b]
    BY <2>1, <2>2 DEF WaitsFor
  <2>4. op[b] = "scan"
    BY <1>1, <2>3 DEF IInv, Shape, PlainShape, Plain
  <2>5. b \in Workers
    BY <2>4 DEF IInv, Shape, ScanShape
  <2>6. r \in Clearing(a) \cap Clearing(b)
    BY <2>3 DEF Clearing
  <2> QED
    BY <1>3, <2>1, <2>2, <2>4, <2>5, <2>6 DEF IInv, Contract, ClearingDisjoint, WaitsFor
<1>4. ASSUME NEW a \in S PROVE todo[a] \cap Jobs # {} /\ \E b \in S : holds[b] \cap Jobs # {}
  <2>1. PICK b \in S : WaitsFor(a, b)
    OBVIOUS
  <2>2. PICK r \in todo[a] : r \in holds[b]
    BY <2>1 DEF WaitsFor, Wants
  <2>3. r \notin Workers
    BY <1>1, <1>3, <2>2 DEF IInv, Shape, PlainShape, Plain
  <2> QED
    BY <1>2, <2>2, <2>3
<1>5. PICK b \in S : holds[b] # {}
  BY <1>4
<1> QED
  BY <1>3, <1>4, <1>5 DEF IInv, Shape, PlainShape, Plain

\* Scans clear different worker rows.
LEMMA DifferentWorkersFollow == IInv => ScansClearDifferentWorkers
<1> SUFFICES ASSUME IInv, ScansFitLease, NEW u \in Workers, NEW v \in Workers,
                    u # v, op[u] = "scan", op[v] = "scan",
                    NEW r \in (holds[u] \cup todo[u]) \cap (holds[v] \cup todo[v])
             PROVE  FALSE
  BY DEF ScansClearDifferentWorkers
<1> USE RowsAssumption DEF Actors
<1>1. CASE r \in Workers
  <2>1. r \in Clearing(u) \cap Clearing(v)
    BY <1>1 DEF Clearing
  <2> QED
    BY <2>1 DEF IInv, Contract, ClearingDisjoint
<1>2. CASE r \notin Workers
  <2>1. r \in holds[u] \cap holds[v]
    BY <1>2 DEF IInv, Shape, ScanShape
  <2> QED
    BY <2>1 DEF IInv, Shape, Exclusive
<1> QED
  BY <1>1, <1>2

LEMMA NothingLoaded == Nothing \in Session
BY DEF Nothing, Session

\* The initial state.
LEMMA InitIInv == Init => IInv
<1> SUFFICES ASSUME Init PROVE IInv
  OBVIOUS
<1> USE RowsAssumption DEF Init, Actors
<1>1. TypeOK
  BY NothingLoaded DEF TypeOK, Rows
<1>2. Shape
  BY DEF Shape, Exclusive, Idle, PlainShape, Plain, ScanShape, ClaimShape, CompletionShape
<1>3. PointersKnown /\ Contract
  BY DEF PointersKnown, Contract, RecentLive, ClearingDisjoint
<1> QED
  BY <1>1, <1>2, <1>3 DEF IInv

-----------------------------------------------------------------------------
(* Steps.                                                                  *)

\* A step that is of no scan and moves no pointer leaves what scans clear.
LEMMA ScansUntouched ==
    ASSUME IInv,
           \A w \in Workers : (op'[w] = "scan") <=> (op[w] = "scan"),
           \A w \in Workers : op[w] = "scan" => holds'[w] = holds[w] /\ todo'[w] = todo[w],
           UNCHANGED <<loaded, recent, pointer>>, lapsed' \subseteq lapsed
    PROVE  PointersKnown' /\ Contract'
<1>1. \A w \in Workers : op[w] = "scan" => Clearing(w)' = Clearing(w)
  BY DEF Clearing
<1>2. PointersKnown'
  BY <1>1 DEF IInv, PointersKnown
<1>3. Contract'
  BY <1>1 DEF IInv, Contract, RecentLive, ClearingDisjoint
<1> QED
  BY <1>2, <1>3

LEMMA RequestStep ==
    ASSUME IInv, NEW c \in Clients, Request(c)
    PROVE  IInv'
<1> USE RowsAssumption DEF Actors, data, scans
<1>1. ASSUME NEW j \in Jobs, RequestBegins(c, j) PROVE IInv'
  <2> USE <1>1 DEF RequestBegins, Begin
  <2>1. TypeOK'
    BY DEF IInv, TypeOK, Rows
  <2>2. Shape'
    <3>1. Exclusive' /\ Idle'
      BY DEF IInv, TypeOK, Shape, Exclusive, Idle
    <3>2. PlainShape'
      BY DEF IInv, TypeOK, Shape, PlainShape, Plain
    <3>3. ScanShape' /\ ClaimShape' /\ CompletionShape'
      BY DEF IInv, TypeOK, Shape, ScanShape, ClaimShape, CompletionShape
    <3> QED
      BY <3>1, <3>2, <3>3 DEF Shape
  <2>3. PointersKnown' /\ Contract'
    BY ScansUntouched DEF IInv, TypeOK
  <2> QED
    BY <2>1, <2>2, <2>3 DEF IInv
<1>2. ASSUME RequestCommits(c) PROVE IInv'
  <2>1. PICK js \in {{}, holds[c]} :
          /\ owner' = [j \in Jobs |-> IF j \in js THEN NULL ELSE owner[j]]
          /\ lapsed' = lapsed \ js
    BY <1>2 DEF RequestCommits
  <2> USE <1>2, <2>1 DEF RequestCommits, End
  <2>2. TypeOK'
    BY DEF IInv, TypeOK, Rows
  <2>3. Shape'
    <3>1. Exclusive' /\ Idle'
      BY DEF IInv, TypeOK, Shape, Exclusive, Idle
    <3>2. PlainShape'
      BY DEF IInv, TypeOK, Shape, PlainShape, Plain
    <3>3. ScanShape' /\ ClaimShape' /\ CompletionShape'
      BY DEF IInv, TypeOK, Shape, Exclusive, ScanShape, ClaimShape, CompletionShape
    <3> QED
      BY <3>1, <3>2, <3>3 DEF Shape
  <2>4. PointersKnown' /\ Contract'
    BY ScansUntouched DEF IInv, TypeOK
  <2> QED
    BY <2>2, <2>3, <2>4 DEF IInv
<1>3. ASSUME RequestFails(c) PROVE IInv'
  <2> USE <1>3 DEF RequestFails, Rollback
  <2>1. TypeOK'
    BY DEF IInv, TypeOK, Rows
  <2>2. Shape'
    <3>1. Exclusive' /\ Idle'
      BY DEF IInv, TypeOK, Shape, Exclusive, Idle
    <3>2. PlainShape'
      BY DEF IInv, TypeOK, Shape, PlainShape, Plain
    <3>3. ScanShape' /\ ClaimShape' /\ CompletionShape'
      BY DEF IInv, TypeOK, Shape, ScanShape, ClaimShape, CompletionShape
    <3> QED
      BY <3>1, <3>2, <3>3 DEF Shape
  <2>3. PointersKnown' /\ Contract'
    BY ScansUntouched DEF IInv, TypeOK
  <2> QED
    BY <2>1, <2>2, <2>3 DEF IInv
<1> QED
  BY <1>1, <1>2, <1>3 DEF Request

\* The steps of a worker that are of no scan and move no pointer.
LEMMA PlainStep ==
    ASSUME IInv, NEW w \in Workers,
           \/ HeartbeatBegins(w) \/ HeartbeatCommits(w) \/ CompletionBegins(w) \/ GiveUp(w)
           \/ \E j \in Jobs : ClaimBegins(w, j)
    PROVE  IInv'
<1> USE RowsAssumption DEF Actors, data, scans
<1>1. ASSUME HeartbeatBegins(w) PROVE IInv'
  <2> USE <1>1 DEF HeartbeatBegins, Begin
  <2>1. TypeOK'
    BY DEF IInv, TypeOK, Rows
  <2>2. Shape'
    <3>1. Exclusive' /\ Idle'
      BY DEF IInv, TypeOK, Shape, Exclusive, Idle
    <3>2. PlainShape'
      BY DEF IInv, TypeOK, Shape, PlainShape, Plain
    <3>3. ScanShape' /\ ClaimShape' /\ CompletionShape'
      BY DEF IInv, TypeOK, Shape, Exclusive, ScanShape, ClaimShape, CompletionShape
    <3> QED
      BY <3>1, <3>2, <3>3 DEF Shape
  <2>3. PointersKnown' /\ Contract'
    BY ScansUntouched DEF IInv, TypeOK, Shape, ScanShape
  <2> QED
    BY <2>1, <2>2, <2>3 DEF IInv
<1>2. ASSUME HeartbeatCommits(w) PROVE IInv'
  <2> USE <1>2 DEF HeartbeatCommits, End
  <2>1. TypeOK'
    BY DEF IInv, TypeOK, Rows
  <2>2. Shape'
    <3>1. Exclusive' /\ Idle'
      BY DEF IInv, TypeOK, Shape, Exclusive, Idle
    <3>2. PlainShape'
      BY DEF IInv, TypeOK, Shape, PlainShape, Plain
    <3>3. ScanShape' /\ ClaimShape' /\ CompletionShape'
      BY DEF IInv, TypeOK, Shape, Exclusive, ScanShape, ClaimShape, CompletionShape
    <3> QED
      BY <3>1, <3>2, <3>3 DEF Shape
  <2>3. PointersKnown' /\ Contract'
    BY ScansUntouched DEF IInv, TypeOK, Shape, ScanShape
  <2> QED
    BY <2>1, <2>2, <2>3 DEF IInv
<1>3. ASSUME CompletionBegins(w) PROVE IInv'
  <2> USE <1>3 DEF CompletionBegins, Begin
  <2>1. TypeOK'
    BY DEF IInv, TypeOK, Rows
  <2>2. Shape'
    <3>1. Exclusive' /\ Idle'
      BY DEF IInv, TypeOK, Shape, Exclusive, Idle
    <3>2. PlainShape'
      BY DEF IInv, TypeOK, Shape, PlainShape, Plain
    <3>3. ScanShape' /\ ClaimShape' /\ CompletionShape'
      BY DEF IInv, TypeOK, Shape, Exclusive, ScanShape, ClaimShape, CompletionShape
    <3> QED
      BY <3>1, <3>2, <3>3 DEF Shape
  <2>3. PointersKnown' /\ Contract'
    BY ScansUntouched DEF IInv, TypeOK, Shape, ScanShape
  <2> QED
    BY <2>1, <2>2, <2>3 DEF IInv
<1>4. ASSUME GiveUp(w) PROVE IInv'
  <2> USE <1>4 DEF GiveUp
  <2>1. TypeOK'
    BY DEF IInv, TypeOK, Rows
  <2>2. Shape'
    <3>1. Exclusive' /\ Idle'
      BY DEF IInv, TypeOK, Shape, Exclusive, Idle
    <3>2. PlainShape'
      BY DEF IInv, TypeOK, Shape, PlainShape, Plain
    <3>3. ScanShape' /\ ClaimShape' /\ CompletionShape'
      BY DEF IInv, TypeOK, Shape, Exclusive, ScanShape, ClaimShape, CompletionShape
    <3> QED
      BY <3>1, <3>2, <3>3 DEF Shape
  <2>3. PointersKnown' /\ Contract'
    BY ScansUntouched DEF IInv, TypeOK, Shape, ScanShape
  <2> QED
    BY <2>1, <2>2, <2>3 DEF IInv
<1>5. ASSUME NEW j \in Jobs, ClaimBegins(w, j) PROVE IInv'
  <2> USE <1>5 DEF ClaimBegins, Begin, Claimable, Free
  <2>1. TypeOK'
    BY DEF IInv, TypeOK, Rows
  <2>2. Shape'
    <3>1. Exclusive' /\ Idle'
      BY DEF IInv, TypeOK, Shape, Exclusive, Idle
    <3>2. PlainShape'
      BY DEF IInv, TypeOK, Shape, PlainShape, Plain
    <3>3. ScanShape' /\ ClaimShape' /\ CompletionShape'
      BY DEF IInv, TypeOK, Shape, Exclusive, ScanShape, ClaimShape, CompletionShape
    <3> QED
      BY <3>1, <3>2, <3>3 DEF Shape
  <2>3. PointersKnown' /\ Contract'
    BY ScansUntouched DEF IInv, TypeOK, Shape, ScanShape
  <2> QED
    BY <2>1, <2>2, <2>3 DEF IInv
<1> QED
  BY <1>1, <1>2, <1>3, <1>4, <1>5

\* A claim: the worker points at a job that is recent for every open scan.
LEMMA ClaimCommitStep ==
    ASSUME IInv, NEW w \in Workers, ClaimCommits(w)
    PROVE  IInv'
<1> USE RowsAssumption DEF Actors, data, scans
<1> PICK j \in holds[w] \cap Jobs :
        /\ owner' = [owner EXCEPT ![j] = w]
        /\ pointer' = [pointer EXCEPT ![w] = j]
        /\ task' = [task EXCEPT ![w] = j]
        /\ recent' = [v \in Workers |-> IF op[v] = "scan" THEN recent[v] \cup {j} ELSE recent[v]]
  BY DEF ClaimCommits
<1>0. owner[j] = NULL /\ j \notin lapsed
  BY DEF ClaimCommits, End, IInv, TypeOK, Shape, ClaimShape
<1>1. QED
  <2> USE <1>0 DEF ClaimCommits, End
  <2>1. TypeOK'
    BY DEF IInv, TypeOK, Rows
  <2>2. Shape'
    <3>1. Exclusive' /\ Idle'
      BY DEF IInv, TypeOK, Shape, Exclusive, Idle
    <3>2. PlainShape'
      BY DEF IInv, TypeOK, Shape, PlainShape, Plain
    <3>3. ScanShape' /\ ClaimShape' /\ CompletionShape'
      BY DEF IInv, TypeOK, Shape, Exclusive, ScanShape, ClaimShape, CompletionShape
    <3> QED
      BY <3>1, <3>2, <3>3 DEF Shape
  <2>3. \A v \in Workers : op[v] = "scan" => Clearing(v)' = Clearing(v)
    BY DEF IInv, TypeOK, Clearing
  <2>4. \A v \in Workers : op'[v] = "scan" <=> op[v] = "scan"
    BY DEF IInv, TypeOK
  <2>5. PointersKnown'
    BY <2>3, <2>4 DEF IInv, TypeOK, PointersKnown
  <2>6. Contract'
    BY <2>3, <2>4 DEF IInv, TypeOK, Contract, RecentLive, ClearingDisjoint
  <2> QED
    BY <2>1, <2>2, <2>5, <2>6 DEF IInv

\* A completion: the worker points at nothing.
LEMMA CompletionCommitStep ==
    ASSUME IInv, NEW w \in Workers, CompletionCommits(w)
    PROVE  IInv'
<1> USE RowsAssumption DEF Actors, data, scans
<1>0. task[w] \in holds[w] \cap Jobs
  BY DEF CompletionCommits, End, IInv, Shape, CompletionShape
<1>1. QED
  <2> USE <1>0 DEF CompletionCommits, End
  <2>1. TypeOK'
    BY DEF IInv, TypeOK, Rows
  <2>2. Shape'
    <3>1. Exclusive' /\ Idle'
      BY DEF IInv, TypeOK, Shape, Exclusive, Idle
    <3>2. PlainShape'
      BY DEF IInv, TypeOK, Shape, PlainShape, Plain
    <3>3. ScanShape' /\ ClaimShape' /\ CompletionShape'
      BY DEF IInv, TypeOK, Shape, Exclusive, ScanShape, ClaimShape, CompletionShape
    <3> QED
      BY <3>1, <3>2, <3>3 DEF Shape
  <2>3. \A v \in Workers : op[v] = "scan" => Clearing(v)' = Clearing(v)
    BY DEF IInv, TypeOK, Clearing
  <2>4. \A v \in Workers : op'[v] = "scan" <=> op[v] = "scan"
    BY DEF IInv, TypeOK
  <2>5. PointersKnown'
    BY <2>3, <2>4 DEF IInv, TypeOK, PointersKnown
  <2>6. Contract'
    BY <2>3, <2>4 DEF IInv, TypeOK, Contract, RecentLive, ClearingDisjoint
  <2> QED
    BY <2>1, <2>2, <2>5, <2>6 DEF IInv

\* A lease lapses, but none that is recent for an open scan.
LEMMA LapseStep ==
    ASSUME IInv, NEW j \in Jobs, Lapse(j)
    PROVE  IInv'
<1> USE RowsAssumption DEF Actors, data, scans
<1>1. QED
  <2> USE DEF Lapse
  <2>1. TypeOK'
    BY DEF IInv, TypeOK, Rows
  <2>2. Shape'
    <3>1. Exclusive' /\ Idle'
      BY DEF IInv, TypeOK, Shape, Exclusive, Idle
    <3>2. PlainShape'
      BY DEF IInv, TypeOK, Shape, PlainShape, Plain
    <3>3. ScanShape' /\ ClaimShape' /\ CompletionShape'
      BY DEF IInv, TypeOK, Shape, Exclusive, ScanShape, ClaimShape, CompletionShape
    <3> QED
      BY <3>1, <3>2, <3>3 DEF Shape
  <2>3. \A v \in Workers : op[v] = "scan" => Clearing(v)' = Clearing(v)
    BY DEF IInv, TypeOK, Clearing
  <2>4. \A v \in Workers : op'[v] = "scan" <=> op[v] = "scan"
    BY DEF IInv, TypeOK
  <2>5. PointersKnown'
    BY <2>3, <2>4 DEF IInv, TypeOK, PointersKnown
  <2>6. Contract'
    BY <2>3, <2>4 DEF IInv, TypeOK, Contract, RecentLive, ClearingDisjoint
  <2> QED
    BY <2>1, <2>2, <2>5, <2>6 DEF IInv

\* A row is locked: by what is in todo, jobs before workers.
LEMMA LockStep ==
    ASSUME IInv, NEW a \in Actors, NEW r \in Rows, Lock(a, r)
    PROVE  IInv'
<1> USE RowsAssumption DEF Actors, data, scans
<1> USE DEF Lock
<1>0. r \in todo[a] /\ op[a] # "none"
  BY DEF Wants, IInv, Shape, Idle
<1>1. TypeOK'
  BY DEF IInv, TypeOK, Rows
<1>2. Exclusive' /\ Idle'
  BY <1>0 DEF IInv, TypeOK, Shape, Exclusive, Idle, Free
<1>3. PlainShape'
  <2> SUFFICES ASSUME NEW b \in Actors, op[b] # "scan" PROVE Plain(b)'
    BY DEF PlainShape
  <2>1. CASE b # a
    BY <2>1 DEF IInv, TypeOK, Shape, PlainShape, Plain
  <2>2. CASE b = a /\ r \in Jobs
    <3>1. Plain(a) /\ holds[a] = {} /\ todo[a] \cap Jobs = {r}
      BY <1>0, <2>2 DEF IInv, Shape, PlainShape, Plain
    <3>2. holds'[a] = {r} /\ todo'[a] = todo[a] \ {r}
      BY <3>1 DEF IInv, TypeOK
    <3> QED
      BY <2>2, <3>1, <3>2 DEF Plain
  <2>3. CASE b = a /\ r \notin Jobs
    <3>1. todo[a] = {r}
      BY <1>0, <2>3 DEF Wants, IInv, TypeOK, Rows, Shape, PlainShape, Plain
    <3>2. todo'[a] = {}
      BY <3>1 DEF IInv, TypeOK
    <3> QED
      BY <2>3, <3>2 DEF Plain
  <2> QED
    BY <2>1, <2>2, <2>3
<1>4. ScanShape' /\ ClaimShape' /\ CompletionShape'
  <2>1. ASSUME NEW w \in Workers, op[w] = "scan" PROVE holds'[w] \cap Jobs = holds[w] \cap Jobs
    BY <1>0, <2>1 DEF IInv, TypeOK, Shape, ScanShape
  <2>2. ScanShape'
    BY <2>1 DEF IInv, TypeOK, Shape, ScanShape
  <2>3. ASSUME NEW w \in Workers, op[w] = "claim" PROVE holds'[w] \cap Jobs = holds[w] \cap Jobs
    BY <1>0, <2>3 DEF IInv, TypeOK, Shape, ClaimShape
  <2> QED
    BY <2>2, <2>3 DEF IInv, TypeOK, Shape, ClaimShape, CompletionShape
<1>5. \A w \in Workers : op[w] = "scan" =>
        Clearing(w)' = Clearing(w) /\ holds[w] \subseteq holds'[w]
  <2> SUFFICES ASSUME NEW w \in Workers, op[w] = "scan"
               PROVE  Clearing(w)' = Clearing(w) /\ holds[w] \subseteq holds'[w]
    OBVIOUS
  <2>1. holds'[w] \cap Jobs = holds[w] \cap Jobs
    BY <1>0 DEF IInv, TypeOK, Shape, ScanShape
  <2>2. holds'[w] \cup todo'[w] = holds[w] \cup todo[w] /\ holds[w] \subseteq holds'[w]
    BY <1>0 DEF IInv, TypeOK
  <2> QED
    BY <2>1, <2>2 DEF Clearing
<1>6. PointersKnown'
  BY <1>5 DEF IInv, PointersKnown
<1>7. Contract'
  BY <1>5 DEF IInv, Contract, RecentLive, ClearingDisjoint
<1> QED
  BY <1>1, <1>2, <1>3, <1>4, <1>6, <1>7 DEF IInv, Shape

\* A scan selects lapsed jobs that nobody holds.
LEMMA ScanBeginsStep ==
    ASSUME IInv, NEW w \in Workers, ScanBegins(w)
    PROVE  IInv'
<1> USE RowsAssumption DEF Actors, data, scans
<1> DEFINE found == {j \in lapsed : Free(j)}
<1> USE DEF ScanBegins, Begin
<1>1. TypeOK'
  BY DEF IInv, TypeOK, Rows
<1>2. Exclusive' /\ Idle'
  BY DEF IInv, TypeOK, Shape, Exclusive, Idle, Free
<1>3. PlainShape'
  BY DEF IInv, TypeOK, Shape, PlainShape, Plain
<1>4. ScanShape' /\ ClaimShape' /\ CompletionShape'
  BY DEF IInv, TypeOK, Shape, ScanShape, ClaimShape, CompletionShape
<1>5. Clearing(w)' = {}
  <2>1. loaded'[w] = Nothing /\ todo'[w] = {} /\ holds'[w] \subseteq Jobs
    BY DEF IInv, TypeOK, Shape, ScanShape
  <2> QED
    BY <2>1 DEF Clearing, Nothing
<1>6. \A v \in Workers \ {w} : op[v] = "scan" =>
        Clearing(v)' = Clearing(v) /\ holds'[v] = holds[v]
  BY DEF IInv, TypeOK, Clearing
<1>7. \A v \in Workers \ {w} : op'[v] = op[v]
  BY DEF IInv, TypeOK
<1>8. PointersKnown'
  BY <1>5, <1>6, <1>7 DEF IInv, PointersKnown
<1>9. Contract'
  BY <1>5, <1>6, <1>7 DEF IInv, Contract, RecentLive, ClearingDisjoint
<1> QED
  BY <1>1, <1>2, <1>3, <1>4, <1>8, <1>9 DEF IInv, Shape

\* The end of a transaction of w that forgets its scan, if any.
LEMMA ScanForgotten ==
    ASSUME IInv, NEW w \in Workers, Forget(w), op'[w] = "none",
           \A v \in Workers \ {w} : op'[v] = op[v] /\ holds'[v] = holds[v] /\ todo'[v] = todo[v],
           lapsed' \subseteq lapsed,
           \A v \in Workers : pointer'[v] \in {NULL, pointer[v]}
    PROVE  PointersKnown' /\ Contract'
<1> USE DEF Forget
<1>1. \A v \in Workers \ {w} : /\ Clearing(v)' = Clearing(v)
                                 /\ recent'[v] = recent[v]
  BY DEF IInv, TypeOK, Clearing
<1>2. recent'[w] = {}
  BY DEF IInv, TypeOK
<1>3. PointersKnown'
  BY <1>1 DEF IInv, TypeOK, PointersKnown, Clearing
<1>4. Contract'
  BY <1>1, <1>2 DEF IInv, Contract, RecentLive, ClearingDisjoint
<1> QED
  BY <1>3, <1>4

LEMMA ScanCommitsStep ==
    ASSUME IInv, NEW w \in Workers, ScanCommits(w)
    PROVE  IInv'
<1> USE RowsAssumption DEF Actors, data, scans
<1>0. Forget(w)
  BY DEF ScanCommits
<1> USE DEF ScanCommits, End, LapsedAfterScan
<1>1. TypeOK'
  BY NothingLoaded DEF IInv, TypeOK, Rows, Forget
<1>2. Exclusive' /\ Idle'
  BY DEF IInv, TypeOK, Shape, Exclusive, Idle
<1>3. PlainShape'
  BY DEF IInv, TypeOK, Shape, PlainShape, Plain
<1>4. ScanShape' /\ ClaimShape' /\ CompletionShape'
  BY DEF IInv, TypeOK, Shape, Exclusive, ScanShape, ClaimShape, CompletionShape, Forget
<1>5. PointersKnown' /\ Contract'
  <2>1. \A v \in Workers : pointer'[v] \in {NULL, pointer[v]}
    OBVIOUS
  <2>2. \A v \in Workers \ {w} : op'[v] = op[v] /\ holds'[v] = holds[v] /\ todo'[v] = todo[v]
    BY DEF IInv, TypeOK
  <2>3. op'[w] = "none" /\ lapsed' \subseteq lapsed
    BY DEF IInv, TypeOK
  <2> QED
    BY ONLY IInv, <1>0, <2>1, <2>2, <2>3, ScanForgotten
<1> QED
  BY <1>1, <1>2, <1>3, <1>4, <1>5 DEF IInv, Shape

LEMMA CrashStep ==
    ASSUME IInv, NEW w \in Workers, Crash(w)
    PROVE  IInv'
<1> USE RowsAssumption DEF Actors, data, scans
<1>0. Forget(w)
  BY DEF Crash
<1> USE DEF Crash, Rollback
<1>1. TypeOK'
  BY NothingLoaded DEF IInv, TypeOK, Rows, Forget
<1>2. Exclusive' /\ Idle'
  BY DEF IInv, TypeOK, Shape, Exclusive, Idle
<1>3. PlainShape'
  BY DEF IInv, TypeOK, Shape, PlainShape, Plain
<1>4. ScanShape' /\ ClaimShape' /\ CompletionShape'
  BY DEF IInv, TypeOK, Shape, ScanShape, ClaimShape, CompletionShape, Forget
<1>5. PointersKnown' /\ Contract'
  <2>2. \A v \in Workers \ {w} : op'[v] = op[v] /\ holds'[v] = holds[v] /\ todo'[v] = todo[v]
    BY DEF IInv, TypeOK
  <2>3. op'[w] = "none" /\ lapsed' \subseteq lapsed /\ \A v \in Workers : pointer'[v] \in {NULL, pointer[v]}
    BY DEF IInv, TypeOK
  <2> QED
    BY ONLY IInv, <1>0, <2>2, <2>3, ScanForgotten
<1> QED
  BY <1>1, <1>2, <1>3, <1>4, <1>5 DEF IInv, Shape

\* One turn of a scan's loop: the worker row that it newly comes to clear
\* points at a job of this scan, so no other scan has come to clear it.
LEMMA ScanNextStep ==
    ASSUME IInv, NEW w \in Workers, NEW j \in Jobs, ScanNext(w, j)
    PROVE  IInv'
<1> USE RowsAssumption DEF Actors, data, scans
<1> PICK kept \in BOOLEAN :
        LET v == owner[j]
            current == IF kept THEN loaded[w][v] ELSE PointerRead(w, v)
            clear == PointsAt(current, j)
        IN  /\ IF kept THEN v \in DOMAIN loaded[w] ELSE todo[w] = {}
            /\ loaded' = [loaded EXCEPT ![w] =
                             [u \in DOMAIN @ \cup {v} |->
                                 IF u # v THEN @[u] ELSE IF clear THEN NULL ELSE current]]
            /\ todo' = [todo EXCEPT ![w] = IF clear /\ v \notin holds[w] THEN @ \cup {v} ELSE @]
  BY DEF ScanNext
<1> DEFINE v == owner[j]
           current == IF kept THEN loaded[w][v] ELSE PointerRead(w, v)
           clear == PointsAt(current, j)
           session == [u \in DOMAIN loaded[w] \cup {v} |->
                         IF u # v THEN loaded[w][u] ELSE IF clear THEN NULL ELSE current]
           changed == IF clear /\ v \notin holds[w] THEN todo[w] \cup {v} ELSE todo[w]
<1>1. /\ loaded' = [loaded EXCEPT ![w] = session]
      /\ todo' = [todo EXCEPT ![w] = changed]
      /\ left' = [left EXCEPT ![w] = @ \ {j}]
      /\ UNCHANGED <<owner, lapsed, pointer, task, op, holds, recent>>
      /\ j \in left[w]
      /\ kept => v \in DOMAIN loaded[w]
  BY DEF ScanNext
<1>2. op[w] = "scan" /\ j \in holds[w] \cap lapsed /\ v \in Workers
  <2>1. op[w] = "scan"
    BY <1>1 DEF IInv, TypeOK, Shape, ScanShape
  <2> QED
    BY <1>1, <2>1 DEF IInv, TypeOK, Shape, ScanShape
<1>3. session \in Session /\ current \in Jobs \cup {NULL}
  <2>1. PICK V \in SUBSET Workers : loaded[w] \in [V -> Jobs \cup {NULL}]
    BY DEF IInv, TypeOK, Session
  <2>2. current \in Jobs \cup {NULL}
    BY <1>1, <1>2, <2>1 DEF IInv, TypeOK, PointerRead
  <2>3. session \in [V \cup {v} -> Jobs \cup {NULL}]
    BY <2>1, <2>2
  <2>4. V \cup {v} \in SUBSET Workers
    BY <1>2
  <2> HIDE DEF session, current, v
  <2> QED
    BY <2>2, <2>3, <2>4 DEF Session
<1>4. /\ DOMAIN session = DOMAIN loaded[w] \cup {v}
      /\ \A u \in DOMAIN loaded[w] \ {v} : session[u] = loaded[w][u]
      /\ session[v] = IF clear THEN NULL ELSE current
  OBVIOUS
<1>5. /\ loaded'[w] = session /\ todo'[w] = changed
      /\ \A u \in Workers \ {w} : loaded'[u] = loaded[u] /\ todo'[u] = todo[u] /\ left'[u] = left[u]
      /\ \A a \in Actors \ {w} : todo'[a] = todo[a]
      /\ left'[w] \subseteq left[w]
  BY <1>1 DEF IInv, TypeOK
<1>6. changed \subseteq todo[w] \cup {v} /\ (changed # todo[w] => clear)
  OBVIOUS
<1> HIDE DEF session, changed
<1>7. TypeOK'
  BY <1>1, <1>2, <1>3, <1>6 DEF IInv, TypeOK, Rows
<1>8. Exclusive' /\ Idle'
  BY <1>1, <1>2, <1>5 DEF IInv, Shape, Exclusive, Idle
<1>9. PlainShape'
  BY <1>1, <1>2, <1>5 DEF IInv, Shape, PlainShape, Plain
<1>10. ScanShape' /\ ClaimShape' /\ CompletionShape'
  BY <1>1, <1>2, <1>5, <1>6 DEF IInv, Shape, ScanShape, ClaimShape, CompletionShape
<1>11. \A u \in Clearing(w)' :
         u \in Clearing(w) \/ (u = v /\ pointer[v] \in holds[w] \cap Jobs)
  <2> SUFFICES ASSUME NEW u \in Clearing(w)', u \notin Clearing(w)
               PROVE  u = v /\ pointer[v] \in holds[w] \cap Jobs
    OBVIOUS
  <2>1. u \in Workers /\ u \notin holds[w] \cup todo[w]
        /\ ~(u \in DOMAIN loaded[w] /\ loaded[w][u] \in holds[w] \cap Jobs)
    BY <1>1 DEF Clearing
  <2>2. u \in changed \/ (u \in DOMAIN session /\ session[u] \in holds[w] \cap Jobs)
    BY <1>1, <1>5, <2>1 DEF Clearing
  <2>3. u = v
    BY <1>4, <1>6, <2>1, <2>2
  <2>4. clear => current = j
    BY DEF PointsAt
  <2>5. current \in holds[w] \cap Jobs
    BY <1>2, <1>4, <1>6, <2>1, <2>2, <2>3, <2>4
  <2> QED
    BY <1>1, <2>1, <2>3, <2>5 DEF PointerRead
<1>12. \A x \in Workers \ {w} : Clearing(x)' = Clearing(x)
  BY <1>1, <1>5 DEF Clearing
<1>13. PointersKnown'
  BY <1>1, <1>11, <1>12 DEF IInv, PointersKnown
<1>14. Contract'
  <2> SUFFICES ASSUME ScansFitLease PROVE RecentLive' /\ ClearingDisjoint'
    BY DEF Contract
  <2>1. RecentLive' /\ RecentLive /\ ClearingDisjoint
    BY <1>1 DEF IInv, Contract, RecentLive
  <2>2. ASSUME NEW x \in Workers \ {w}, op[x] = "scan" PROVE Clearing(w)' \cap Clearing(x) = {}
    <3> SUFFICES ASSUME NEW u \in Clearing(w)', u \in Clearing(x) PROVE FALSE
      OBVIOUS
    <3>1. u = v /\ pointer[v] \in holds[w] \cap Jobs
      BY <1>2, <1>11, <2>1, <2>2 DEF ClearingDisjoint
    <3>2. pointer[v] \in {NULL} \cup recent[x] \cup holds[x]
      BY <2>2, <3>1 DEF IInv, PointersKnown
    <3>3. pointer[v] \notin holds[x]
      BY <3>1 DEF IInv, Shape, Exclusive
    <3>4. pointer[v] \in lapsed
      BY <1>2, <3>1 DEF IInv, Shape, ScanShape
    <3> QED
      BY <2>1, <3>1, <3>2, <3>3, <3>4 DEF RecentLive
  <2>3. ClearingDisjoint'
    BY <1>1, <1>12, <2>1, <2>2 DEF ClearingDisjoint
  <2> QED
    BY <2>1, <2>3
<1> QED
  BY <1>7, <1>8, <1>9, <1>10, <1>13, <1>14 DEF IInv, Shape

-----------------------------------------------------------------------------
(* The theorems.                                                           *)

LEMMA NextIInv == IInv /\ [Next]_vars => IInv'
<1> SUFFICES ASSUME IInv, [Next]_vars PROVE IInv'
  OBVIOUS
<1>1. CASE \E a \in Actors, r \in Rows : Lock(a, r)
  BY <1>1, LockStep
<1>2. CASE \E c \in Clients : Request(c)
  BY <1>2, RequestStep
<1>3. ASSUME NEW w \in Workers, Worker(w) PROVE IInv'
  BY <1>3, PlainStep, ClaimCommitStep, CompletionCommitStep, ScanBeginsStep, ScanNextStep,
     ScanCommitsStep, CrashStep DEF Worker
<1>4. CASE \E j \in Jobs : Lapse(j)
  BY <1>4, LapseStep
<1>5. CASE UNCHANGED vars
  BY <1>5 DEF vars, IInv, TypeOK, Shape, Exclusive, Idle, PlainShape, Plain, ScanShape,
     ClaimShape, CompletionShape, PointersKnown, Contract, RecentLive, ClearingDisjoint, Clearing
<1> QED
  BY <1>1, <1>2, <1>3, <1>4, <1>5 DEF Next

LEMMA Invariance == Spec => []IInv
<1> QED
  BY InitIInv, NextIInv, PTL DEF Spec

\* The variables keep their types, for any numbers of rows and transactions.
THEOREM TypeCorrect == Spec => []TypeOK
<1>1. IInv => TypeOK
  BY DEF IInv
<1> QED
  BY <1>1, Invariance, PTL

\* No two open scans clear the same worker row, as long as scans fit the lease.
THEOREM DifferentWorkers == Spec => []ScansClearDifferentWorkers
<1> QED
  BY DifferentWorkersFollow, Invariance, PTL

\* No transactions wait for each other in a circle, as long as scans fit the
\* lease: the row locks of the services never end in a deadlock.
THEOREM DeadlockFree == Spec => []NoDeadlock
<1> QED
  BY NoDeadlockFollows, Invariance, PTL
=============================================================================
