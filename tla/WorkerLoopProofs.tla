-------------------------- MODULE WorkerLoopProofs --------------------------
(***************************************************************************)
(* The latencies and the choices of the worker loop, for any number of     *)
(* jobs and workers and any durations.                                     *)
(***************************************************************************)
EXTENDS WorkerLoop, TLAPS

\* A job's clock does not run before the job is there, and a lease is never
\* longer than it was when it was taken.
ClocksOK ==
    \A j \in Jobs : /\ clock[j] >= -Horizon
                    /\ status[j] = "none" => clock[j] = 0
                    /\ status[j] = "running" => clock[j] <= LeaseSeconds /\ attempts[j] >= 1

\* How old the last scan and the last heartbeat will be at most when the timer
\* has run down: the loop reaches both in each round.
TimersOK ==
    \A w \in Workers :
        /\ phase[w] = "waiting" =>
              since_scan[w] + timer[w] <= Longest /\ since_beat[w] + timer[w] <= PollInterval
        /\ phase[w] = "claiming" =>
              timer[w] = 0 /\ since_scan[w] < RecoveryInterval /\ since_beat[w] = 0
        /\ phase[w] = "executing" =>
              since_scan[w] + timer[w] <= Longest - PollInterval /\ since_beat[w] + timer[w] <= MaxHandler
        /\ phase[w] = "resting" =>
              since_scan[w] + timer[w] <= Longest /\ since_beat[w] + timer[w] <= MaxHandler + PollInterval

\* FOR UPDATE: the row of a claim stays due until the claim commits, and no two
\* claims have the same.
ClaimsOK ==
    \A w \in Workers : phase[w] = "claiming" =>
        /\ task[w] \in Jobs /\ Due(task[w])
        /\ \A v \in Workers : phase[v] = "claiming" /\ task[v] = task[w] => v = w

\* A claim that has chosen a job of low priority passes over no urgent job but
\* one that becomes due in this very moment.
ChoiceOK ==
    \A w \in Workers : phase[w] = "claiming" /\ task[w] \notin urgent =>
        \A j \in urgent : Waits(j) => clock[j] >= 0

\* A lease that is over ended after the last scan of each worker that is up.
ScannedOK ==
    \A w \in Workers : phase[w] # "down" /\ w \notin fresh =>
        \A j \in Jobs : Lapsed(j) => -clock[j] <= since_scan[w]

TInv == TypeOK /\ ClocksOK /\ TimersOK /\ ClaimsOK

IInv ==
    /\ TInv /\ ScannedOK /\ IdleWorkerTakesDueJobs
    /\ ChoiceOK /\ PriorityKept /\ BackoffWithinBounds

-----------------------------------------------------------------------------
(* The constants.                                                          *)

\* The durations are numbers.
LEMMA Numbers ==
    /\ PollInterval \in Nat /\ LeaseSeconds \in Nat /\ RecoveryInterval \in Nat
    /\ BaseDelay \in Nat /\ MaxDelay \in Nat /\ MaxHandler \in Nat /\ StaleSeconds \in Nat
    /\ NumJobs \in Nat /\ MaxAttempts \in Nat /\ Horizon \in Nat /\ Longest \in Nat
    /\ PollInterval > 0 /\ LeaseSeconds > 0 /\ RecoveryInterval > 0 /\ MaxAttempts > 0
    /\ Horizon = Longest + 1 /\ Longest = RecoveryInterval - 1 + MaxHandler + PollInterval
BY DurationsAssumption DEF Horizon, Longest

-----------------------------------------------------------------------------
(* The delay of a retry.                                                   *)

\* Every delay is bounded by the cap and by the exponential of the attempt.
LEMMA DelayBounds ==
    ASSUME NEW n \in Nat, n >= 1, NEW d \in RetryDelays(n)
    PROVE  d \in Nat /\ d <= MaxDelay /\ d <= BaseDelay * 2 ^ (n - 1)
<1>1. BaseDelay * 2 ^ (n - 1) \in Int
  BY Numbers
<1>2. (IF n > 1 THEN n - 1 ELSE 0) = n - 1
  OBVIOUS
<1>3. NominalDelay(n) = IF BaseDelay * 2 ^ (n - 1) < MaxDelay THEN BaseDelay * 2 ^ (n - 1) ELSE MaxDelay
  BY <1>2 DEF NominalDelay
<1>4. NominalDelay(n) <= MaxDelay /\ NominalDelay(n) <= BaseDelay * 2 ^ (n - 1)
  BY <1>1, <1>3, Numbers
<1> QED
  BY <1>1, <1>3, <1>4, Numbers DEF RetryDelays

-----------------------------------------------------------------------------
(* The types, the clocks and the timers, action by action.                 *)

\* Nothing has happened at the start.
LEMMA InitIInv == Init => IInv
<1> SUFFICES ASSUME Init PROVE IInv
  OBVIOUS
<1>1. TypeOK
  BY Numbers DEF Init, TypeOK, Phase
<1>2. ClocksOK /\ TimersOK /\ ClaimsOK
  BY Numbers DEF Init, ClocksOK, TimersOK, ClaimsOK
<1>3. ScannedOK /\ IdleWorkerTakesDueJobs /\ ChoiceOK /\ PriorityKept /\ BackoffWithinBounds
  BY DEF Init, ScannedOK, IdleWorkerTakesDueJobs, ChoiceOK, PriorityKept, BackoffWithinBounds
<1> QED
  BY <1>1, <1>2, <1>3 DEF IInv, TInv

\* The types are kept.
LEMMA NextType == TInv /\ [Next]_vars => TypeOK'
<1> SUFFICES ASSUME TInv, [Next]_vars PROVE TypeOK'
  OBVIOUS
<1>0. TypeOK /\ NULL \notin Workers /\ NULL \notin Jobs
  BY DurationsAssumption DEF TInv, Jobs
<1>1. ASSUME NEW j \in Jobs, Submit(j) PROVE TypeOK'
  BY <1>1, <1>0 DEF Submit, TypeOK
<1>2. ASSUME NEW w \in Workers, Start(w) PROVE TypeOK'
  BY <1>2, <1>0, Numbers DEF Start, TypeOK, Phase, jobs
<1>3. ASSUME NEW w \in Workers, StopOrCrash(w) PROVE TypeOK'
  <2>1. dropped' \subseteq Jobs
    BY <1>3, <1>0 DEF StopOrCrash, TInv, ClaimsOK, TypeOK
  <2> QED
    BY <1>3, <1>0, <2>1, Numbers DEF StopOrCrash, TypeOK, Phase, jobs
<1>4. ASSUME NEW w \in Workers, Scan(w) PROVE TypeOK'
  BY <1>4, <1>0, Numbers DEF Scan, Lapsed, TypeOK
<1>5. ASSUME NEW w \in Workers, NEW j \in Jobs, ClaimBegins(w, j) \/ ClaimCommits(w, j) PROVE TypeOK'
  <2>1. CASE ClaimBegins(w, j)
    BY <2>1, <1>0, Numbers DEF ClaimBegins, RoundBegins, Polling, Beat, TypeOK, Phase, jobs
  <2>2. CASE ClaimCommits(w, j)
    BY <2>2, <1>0, Numbers DEF ClaimCommits, TypeOK, Phase
  <2> QED
    BY <1>5, <2>1, <2>2
<1>6. ASSUME NEW w \in Workers, ClaimNothing(w) PROVE TypeOK'
  BY <1>6, <1>0, Numbers DEF ClaimNothing, RoundBegins, Polling, Beat, TypeOK, Phase, jobs
<1>7. ASSUME NEW w \in Workers, HandlerEnds(w), Rest(w)
      PROVE  /\ task[w] \in Jobs
             /\ phase' \in [Workers -> Phase] /\ task' \in [Workers -> Jobs \cup {NULL}]
             /\ \A v \in Workers : phase'[v] \in {"claiming", "executing"} <=> task'[v] # NULL
             /\ timer' \in [Workers -> Nat]
  BY <1>7, <1>0, Numbers DEF HandlerEnds, Rest, TypeOK, Phase
<1>8. ASSUME NEW w \in Workers, End(w) \/ GiveUp(w) PROVE TypeOK'
  BY <1>7, <1>8, <1>0 DEF End, GiveUp, Owns, Rest, TypeOK
<1>9. ASSUME NEW w \in Workers, Retry(w) PROVE TypeOK'
  <2>1. PICK d \in RetryDelays(attempts[task[w]]) : clock' = [clock EXCEPT ![task[w]] = d]
    BY <1>9 DEF Retry
  <2>2. d \in Int
    BY DEF RetryDelays
  <2>3. clock' \in [Jobs -> Int]
    BY <1>0, <2>1, <2>2 DEF TypeOK
  <2> QED
    BY <1>7, <1>9, <1>0, <2>3 DEF Retry, Owns, Rest, TypeOK
<1>10. CASE Tick
  <2>1. \A j \in Jobs : Earlier(clock[j]) \in Int
    BY <1>0, Numbers DEF Earlier, TypeOK
  <2>2. clock' \in [Jobs -> Int]
    BY <1>10, <1>0, <2>1 DEF Tick, TypeOK
  <2>3. timer' \in [Workers -> Nat]
    BY <1>10, <1>0 DEF Tick, TypeOK
  <2>4. \A n \in 0 .. Horizon : Older(n) \in 0 .. Horizon
    BY Numbers DEF Older
  <2>5. since_scan' \in [Workers -> 0 .. Horizon] /\ since_beat' \in [Workers -> 0 .. Horizon]
    BY <1>10, <1>0, <2>4, Numbers DEF Tick, TypeOK
  <2> QED
    BY <1>10, <1>0, <2>2, <2>3, <2>5 DEF Tick, TypeOK
<1>11. CASE UNCHANGED vars
  BY <1>11, <1>0 DEF vars, jobs, TypeOK
<1> QED
  BY <1>1, <1>2, <1>3, <1>4, <1>5, <1>6, <1>8, <1>9, <1>10, <1>11 DEF Next, Round

\* The facts about types the invariants below use.
LEMMA Types ==
    ASSUME TInv
    PROVE  /\ \A j \in Jobs : /\ clock[j] \in Int /\ clock[j] >= -Horizon
                              /\ attempts[j] \in Nat /\ attempts[j] <= MaxAttempts + 1
           /\ \A w \in Workers : /\ timer[w] \in Nat /\ since_scan[w] \in Nat /\ since_beat[w] \in Nat
                                 /\ phase[w] = "executing" => task[w] \in Jobs
BY Numbers DEF TInv, TypeOK, ClocksOK

\* The delay a retry chooses.
LEMMA RetryClock ==
    ASSUME TInv, NEW w \in Workers, Retry(w)
    PROVE  /\ task[w] \in Jobs /\ attempts[task[w]] \in 1 .. (MaxAttempts - 1)
           /\ \E d \in Nat : /\ clock' = [clock EXCEPT ![task[w]] = d]
                             /\ d <= MaxDelay
                             /\ d <= BaseDelay * 2 ^ (attempts[task[w]] - 1)
<1>1. task[w] \in Jobs /\ status[task[w]] = "running" /\ attempts[task[w]] < MaxAttempts
  BY Types DEF Retry, HandlerEnds, Owns, AttemptsLeft
<1>2. attempts[task[w]] \in 1 .. (MaxAttempts - 1)
  BY <1>1, Types, Numbers DEF TInv, ClocksOK
<1>3. PICK d \in RetryDelays(attempts[task[w]]) : clock' = [clock EXCEPT ![task[w]] = d]
  BY DEF Retry
<1>4. d \in Nat /\ d <= MaxDelay /\ d <= BaseDelay * 2 ^ (attempts[task[w]] - 1)
  BY <1>2, <1>3, DelayBounds
<1> QED
  BY <1>1, <1>2, <1>3, <1>4

\* The clocks stay in their ranges.
LEMMA NextClocks == TInv /\ [Next]_vars => ClocksOK'
<1> SUFFICES ASSUME TInv, [Next]_vars PROVE ClocksOK'
  OBVIOUS
<1>0. TypeOK /\ ClocksOK
  BY DEF TInv
<1>1. CASE UNCHANGED jobs
  BY <1>0, <1>1 DEF jobs, ClocksOK
<1>2. ASSUME NEW j \in Jobs, Submit(j) PROVE ClocksOK'
  BY <1>0, <1>2 DEF Submit, TypeOK, ClocksOK
<1>3. ASSUME NEW w \in Workers,
             Start(w) \/ StopOrCrash(w) \/ (\E j \in Jobs : ClaimBegins(w, j)) \/ ClaimNothing(w)
      PROVE  ClocksOK'
  BY <1>1, <1>3 DEF Start, StopOrCrash, ClaimBegins, ClaimNothing
<1>4. ASSUME NEW w \in Workers, Scan(w) PROVE ClocksOK'
  BY <1>0, <1>4, Numbers DEF Scan, TypeOK, ClocksOK
<1>5. ASSUME NEW w \in Workers, NEW j \in Jobs, ClaimCommits(w, j) PROVE ClocksOK'
  BY <1>0, <1>5, Numbers, Types DEF ClaimCommits, TypeOK, ClocksOK
<1>6. ASSUME NEW w \in Workers, End(w) \/ GiveUp(w) PROVE ClocksOK'
  BY <1>0, <1>6, Numbers, Types DEF End, GiveUp, HandlerEnds, Rest, TypeOK, ClocksOK
<1>7. ASSUME NEW w \in Workers, Retry(w) PROVE ClocksOK'
  <2>1. PICK d \in Nat : clock' = [clock EXCEPT ![task[w]] = d]
    BY <1>7, RetryClock
  <2> QED
    BY <1>0, <1>7, <2>1, RetryClock, Numbers DEF Retry, Rest, TypeOK, ClocksOK
<1>8. CASE Tick
  <2>1. \A j \in Jobs : Earlier(clock[j]) >= -Horizon /\ Earlier(clock[j]) <= clock[j]
    BY <1>0, Numbers, Types DEF Earlier
  <2> QED
    <3> SUFFICES ASSUME NEW j \in Jobs
                 PROVE  /\ clock'[j] \in Int /\ clock'[j] >= -Horizon
                        /\ clock'[j] <= clock[j] /\ (status[j] = "none" => clock'[j] = clock[j])
      BY <1>0, <1>8, Types, Numbers DEF Tick, ClocksOK
    <3> QED
      BY <1>8, <2>1, Types, Numbers DEF Tick, Earlier
<1>9. CASE UNCHANGED vars
  BY <1>1, <1>9 DEF vars
<1> QED
  BY <1>2, <1>3, <1>4, <1>5, <1>6, <1>7, <1>8, <1>9 DEF Next, Round

\* Each round of the loop comes in time.
LEMMA NextTimers == TInv /\ [Next]_vars => TimersOK'
<1> SUFFICES ASSUME TInv, [Next]_vars PROVE TimersOK'
  OBVIOUS
<1>0. TypeOK /\ TimersOK
  BY DEF TInv
<1>1. CASE UNCHANGED <<phase, timer, since_scan, since_beat>>
  BY <1>0, <1>1 DEF TimersOK
<1>2. ASSUME NEW j \in Jobs, Submit(j) PROVE TimersOK'
  BY <1>1, <1>2 DEF Submit
<1>3. ASSUME NEW w \in Workers, Start(w) \/ StopOrCrash(w) PROVE TimersOK'
  BY <1>0, <1>3, Numbers DEF Start, StopOrCrash, TypeOK, TimersOK
<1>4. ASSUME NEW w \in Workers, Scan(w) PROVE TimersOK'
  BY <1>0, <1>4, Numbers, Types DEF Scan, RoundBegins, Polling, TypeOK, TimersOK
<1>5. ASSUME NEW w \in Workers, NEW j \in Jobs, ClaimBegins(w, j) \/ ClaimCommits(w, j) PROVE TimersOK'
  <2>1. CASE ClaimBegins(w, j)
    BY <1>0, <2>1, Numbers, Types DEF ClaimBegins, RoundBegins, ScanDue, Beat, TypeOK, TimersOK
  <2>2. CASE ClaimCommits(w, j)
    <3>1. PICK d \in 0 .. MaxHandler : timer' = [timer EXCEPT ![w] = d]
      BY <2>2 DEF ClaimCommits
    <3> QED
      BY <1>0, <2>2, <3>1, Numbers, Types DEF ClaimCommits, TypeOK, TimersOK
  <2> QED
    BY <1>5, <2>1, <2>2
<1>6. ASSUME NEW w \in Workers, ClaimNothing(w) PROVE TimersOK'
  BY <1>0, <1>6, Numbers, Types DEF ClaimNothing, ScanDue, Beat, TypeOK, TimersOK
<1>7. ASSUME NEW w \in Workers, End(w) \/ Retry(w) \/ GiveUp(w) PROVE TimersOK'
  <2>1. HandlerEnds(w) /\ Rest(w)
    BY <1>7 DEF End, Retry, GiveUp
  <2> QED
    BY <1>0, <2>1, Numbers, Types DEF HandlerEnds, Rest, TypeOK, TimersOK
<1>8. CASE Tick
  <2>1. \A n \in Nat : Older(n) \in Nat /\ Older(n) <= n + 1
    BY DEF Older
  <2> SUFFICES ASSUME NEW w \in Workers, phase[w] # "down"
               PROVE  /\ phase'[w] = phase[w] /\ timer'[w] + 1 = timer[w]
                      /\ since_scan'[w] <= since_scan[w] + 1 /\ since_beat'[w] <= since_beat[w] + 1
                      /\ timer'[w] \in Nat /\ since_scan'[w] \in Nat /\ since_beat'[w] \in Nat
    BY <1>0, <1>8, Numbers, Types DEF Tick, TimersOK
  <2> QED
    BY <1>8, <2>1, Types DEF Tick
<1>9. CASE UNCHANGED vars
  BY <1>1, <1>9 DEF vars
<1> QED
  BY <1>2, <1>3, <1>4, <1>5, <1>6, <1>7, <1>8, <1>9 DEF Next, Round

\* A locked row is left alone by everyone but its claim, and time stands still
\* until the claim commits.
LEMMA NextClaims == TInv /\ [Next]_vars => ClaimsOK'
<1> SUFFICES ASSUME TInv, [Next]_vars PROVE ClaimsOK'
  OBVIOUS
<1>0. TypeOK /\ ClaimsOK
  BY DEF TInv
<1>1. ASSUME \A w \in Workers : phase'[w] = "claiming" => phase[w] = "claiming" /\ task'[w] = task[w],
             \A w \in Workers : phase'[w] = "claiming" => Due(task[w])'
      PROVE  ClaimsOK'
  BY <1>0, <1>1 DEF ClaimsOK, Due
<1>2. ASSUME NEW j \in Jobs, Submit(j) PROVE ClaimsOK'
  BY <1>0, <1>1, <1>2 DEF Submit, TypeOK, ClaimsOK, Due
<1>3. ASSUME NEW w \in Workers, Start(w) \/ StopOrCrash(w) \/ ClaimNothing(w) PROVE ClaimsOK'
  <2>1. /\ \A v \in Workers \ {w} : phase'[v] = phase[v] /\ task'[v] = task[v]
        /\ phase'[w] # "claiming" /\ UNCHANGED jobs
    BY <1>0, <1>3 DEF Start, StopOrCrash, ClaimNothing, TypeOK
  <2> QED
    BY <1>0, <1>1, <2>1 DEF jobs, ClaimsOK, Due
<1>4. ASSUME NEW w \in Workers, Scan(w) PROVE ClaimsOK'
  <2>1. phase' = phase /\ task' = task /\ \A j \in Jobs : Due(j) => Due(j)'
    BY <1>4 DEF Scan, Lapsed, Due
  <2> QED
    BY <1>0, <1>1, <2>1 DEF ClaimsOK
<1>5. ASSUME NEW w \in Workers, NEW j \in Jobs, ClaimBegins(w, j) PROVE ClaimsOK'
  <2>1. /\ \A v \in Workers : phase'[v] = IF v = w THEN "claiming" ELSE phase[v]
        /\ \A v \in Workers : task'[v] = IF v = w THEN j ELSE task[v]
        /\ Due(j) /\ ~Locked(j) /\ UNCHANGED jobs
    BY <1>0, <1>5 DEF ClaimBegins, IsNext, TypeOK
  <2> QED
    BY <1>0, <2>1 DEF jobs, ClaimsOK, Locked, Due
<1>6. ASSUME NEW w \in Workers, NEW j \in Jobs, ClaimCommits(w, j) PROVE ClaimsOK'
  <2>1. /\ \A v \in Workers \ {w} : phase'[v] = phase[v]
        /\ phase'[w] = "executing" /\ task' = task /\ phase[w] = "claiming" /\ task[w] = j
        /\ \A k \in Jobs \ {j} : status'[k] = status[k] /\ clock'[k] = clock[k]
    BY <1>0, <1>6 DEF ClaimCommits, TypeOK
  <2>2. \A v \in Workers : phase'[v] = "claiming" => phase[v] = "claiming" /\ task[v] \in Jobs \ {j}
    BY <1>0, <2>1 DEF ClaimsOK
  <2> QED
    BY <1>0, <1>1, <2>1, <2>2 DEF ClaimsOK, Due
<1>7. ASSUME NEW w \in Workers, End(w) \/ Retry(w) \/ GiveUp(w) PROVE ClaimsOK'
  <2>1. /\ \A v \in Workers \ {w} : phase'[v] = phase[v] /\ task'[v] = task[v]
        /\ phase'[w] # "claiming"
    BY <1>0, <1>7 DEF End, Retry, GiveUp, Rest, TypeOK
  <2>2. \A j \in Jobs : Due(j) => status'[j] = status[j] /\ clock'[j] = clock[j]
    BY <1>0, <1>7 DEF End, Retry, GiveUp, Owns, TypeOK, Due
  <2> QED
    BY <1>0, <1>1, <2>1, <2>2 DEF ClaimsOK, Due
<1>8. CASE Tick
  <2>1. phase' = phase /\ \A w \in Workers : phase[w] # "claiming"
    BY <1>8 DEF Tick, TInv, TimersOK
  <2> QED
    BY <2>1 DEF ClaimsOK
<1>9. CASE UNCHANGED vars
  BY <1>0, <1>9 DEF vars, jobs, ClaimsOK, Due
<1> QED
  BY <1>2, <1>3, <1>4, <1>5, <1>6, <1>7, <1>8, <1>9 DEF Next, Round

\* So these four are inductive together.
LEMMA NextTInv == TInv /\ [Next]_vars => TInv'
BY NextType, NextClocks, NextTimers, NextClaims DEF TInv

-----------------------------------------------------------------------------
(* The latencies and the choices, action by action.                        *)

\* What one second does to the clocks of jobs and workers.
LEMMA TickEffect ==
    ASSUME TInv, Tick
    PROVE  /\ \A j \in Jobs : status[j] \in {"pending", "running"} => clock'[j] = Earlier(clock[j])
           /\ \A j \in Jobs : /\ Earlier(clock[j]) <= clock[j] /\ clock'[j] \in Int
                              /\ clock[j] > 0 => Earlier(clock[j]) >= 0
                              /\ -Earlier(clock[j]) <= 1 - clock[j]
                              /\ clock[j] > -Horizon => Earlier(clock[j]) = clock[j] - 1
           /\ \A w \in Workers : phase[w] # "down" =>
                 /\ timer'[w] = timer[w] - 1 /\ timer[w] > 0 /\ timer'[w] \in Nat
                 /\ since_scan'[w] = since_scan[w] + 1
<1>1. \A j \in Jobs : status[j] \in {"pending", "running"} => clock'[j] = Earlier(clock[j])
  BY DEF Tick
<1>2. \A j \in Jobs : /\ Earlier(clock[j]) <= clock[j]
                      /\ clock[j] > 0 => Earlier(clock[j]) >= 0
                      /\ -Earlier(clock[j]) <= 1 - clock[j]
                      /\ clock[j] > -Horizon => Earlier(clock[j]) = clock[j] - 1
  BY Types, Numbers DEF Earlier
<1>3. \A j \in Jobs : clock'[j] \in Int
  BY Types, Numbers DEF Tick, Earlier
<1>4. ASSUME NEW w \in Workers, phase[w] # "down"
      PROVE  /\ timer'[w] = timer[w] - 1 /\ timer[w] > 0 /\ timer'[w] \in Nat
             /\ since_scan'[w] = since_scan[w] + 1
  <2>1. timer'[w] = timer[w] - 1 /\ timer[w] > 0 /\ timer'[w] \in Nat
    BY <1>4, Types DEF Tick
  <2>2. since_scan[w] + timer[w] <= Longest
    BY <1>4, Types, Numbers DEF TInv, TypeOK, TimersOK, Phase
  <2>3. since_scan[w] < Horizon
    BY <2>1, <2>2, Types, Numbers
  <2> QED
    BY <1>4, <2>1, <2>3 DEF Tick, Older
<1> QED
  BY <1>1, <1>2, <1>3, <1>4

\* A scan finds every lease that is over, and afterwards a lease is as long over
\* as the clock has run since.
LEMMA NextScanned == TInv /\ ScannedOK /\ [Next]_vars => ScannedOK'
<1> SUFFICES ASSUME TInv, ScannedOK, [Next]_vars PROVE ScannedOK'
  OBVIOUS
<1>0. TypeOK
  BY DEF TInv
<1>1. CASE UNCHANGED <<status, clock, phase, since_scan, fresh>>
  BY <1>1 DEF ScannedOK, Lapsed
<1>2. ASSUME NEW j \in Jobs, Submit(j) PROVE ScannedOK'
  BY <1>0, <1>2 DEF Submit, TypeOK, ScannedOK, Lapsed
<1>3. ASSUME NEW w \in Workers, Start(w) \/ StopOrCrash(w) PROVE ScannedOK'
  BY <1>0, <1>3 DEF Start, StopOrCrash, jobs, TypeOK, ScannedOK, Lapsed
<1>4. ASSUME NEW w \in Workers, Scan(w) PROVE ScannedOK'
  BY <1>4 DEF Scan, ScannedOK, Lapsed
<1>5. ASSUME NEW w \in Workers, NEW j \in Jobs, ClaimBegins(w, j) \/ ClaimCommits(w, j) PROVE ScannedOK'
  <2>1. CASE ClaimBegins(w, j)
    BY <1>0, <2>1 DEF ClaimBegins, RoundBegins, Polling, jobs, TypeOK, ScannedOK, Lapsed
  <2>2. CASE ClaimCommits(w, j)
    BY <1>0, <2>2, Numbers DEF ClaimCommits, TypeOK, ScannedOK, Lapsed
  <2> QED
    BY <1>5, <2>1, <2>2
<1>6. ASSUME NEW w \in Workers, ClaimNothing(w) PROVE ScannedOK'
  BY <1>0, <1>6 DEF ClaimNothing, RoundBegins, Polling, jobs, TypeOK, ScannedOK, Lapsed
<1>7. ASSUME NEW w \in Workers, End(w) \/ Retry(w) \/ GiveUp(w) PROVE ScannedOK'
  <2>1. /\ task[w] \in Jobs /\ phase[w] # "down"
        /\ \A j \in Jobs : Lapsed(j)' => Lapsed(j) /\ clock'[j] = clock[j]
    BY <1>0, <1>7, Types DEF End, Retry, GiveUp, HandlerEnds, TypeOK, Lapsed
  <2>2. since_scan' = since_scan /\ fresh' = fresh /\ \A v \in Workers \ {w} : phase'[v] = phase[v]
    BY <1>0, <1>7 DEF End, Retry, GiveUp, Rest, TypeOK
  <2> QED
    BY <2>1, <2>2 DEF ScannedOK
<1>8. CASE Tick
  <2> SUFFICES ASSUME NEW w \in Workers, phase[w] # "down", w \notin fresh,
                      NEW j \in Jobs, status[j] = "running", clock'[j] < 0
               PROVE  -clock'[j] <= since_scan'[w]
    BY <1>8 DEF Tick, ScannedOK, Lapsed
  <2>1. /\ clock'[j] = Earlier(clock[j]) /\ -clock'[j] <= 1 - clock[j]
        /\ since_scan'[w] = since_scan[w] + 1 /\ since_scan[w] >= 0
    BY <1>8, TickEffect, Types
  <2>2. clock[j] < 0 => -clock[j] <= since_scan[w]
    BY DEF ScannedOK, Lapsed
  <2> QED
    BY <1>8, <2>1, <2>2, TickEffect, Types
<1>9. CASE UNCHANGED vars
  BY <1>1, <1>9 DEF vars, jobs
<1> QED
  BY <1>2, <1>3, <1>4, <1>5, <1>6, <1>7, <1>8, <1>9 DEF Next, Round

\* A job that waits after a step has waited before it, or waits from now on: a
\* claim that takes it off the others' list commits or is noted as dropped.
LEMMA WaitingJobs ==
    ASSUME TInv, [Next]_vars, NEW j \in Jobs, Waits(j)'
    PROVE  \/ clock'[j] >= 0
           \/ /\ Waits(j) /\ (j \in urgent' => j \in urgent)
              /\ Tick \/ clock'[j] = clock[j]
<1>0. TypeOK /\ ClaimsOK /\ clock[j] \in Int
  BY Types DEF TInv
<1> DEFINE Same == Waits(j) /\ (j \in urgent' => j \in urgent) /\ clock'[j] = clock[j]
<1>1. ASSUME NEW k \in Jobs, Submit(k) PROVE clock'[j] >= 0 \/ Same
  <2>1. CASE j = k
    BY <1>1, <2>1 DEF Submit, TInv, ClocksOK
  <2>2. CASE j # k
    BY <1>0, <1>1, <2>2 DEF Submit, TypeOK, Waits, Due, Locked
  <2> QED
    BY <2>1, <2>2
<1>2. ASSUME NEW v \in Workers, Start(v) \/ StopOrCrash(v) PROVE Same
  <2>1. UNCHANGED jobs /\ \A u \in Workers \ {v} : phase'[u] = phase[u] /\ task'[u] = task[u]
    BY <1>0, <1>2 DEF Start, StopOrCrash, TypeOK
  <2>2. j \notin dropped /\ ~(phase[v] = "claiming" /\ task[v] = j)
    BY <1>0, <1>2 DEF Start, StopOrCrash, Waits
  <2> QED
    BY <2>1, <2>2 DEF jobs, Waits, Due, Locked
<1>3. ASSUME NEW v \in Workers, Scan(v) PROVE clock'[j] >= 0 \/ Same
  BY <1>3 DEF Scan, Lapsed, Waits, Due, Locked
<1>4. ASSUME NEW v \in Workers, NEW k \in Jobs, ClaimBegins(v, k) PROVE Same
  <2>1. UNCHANGED jobs /\ dropped' = dropped /\ phase[v] # "claiming"
        /\ \A u \in Workers \ {v} : phase'[u] = phase[u] /\ task'[u] = task[u]
    BY <1>0, <1>4 DEF ClaimBegins, RoundBegins, Polling, TypeOK
  <2> QED
    BY <2>1 DEF jobs, Waits, Due, Locked
<1>5. ASSUME NEW v \in Workers, NEW k \in Jobs, ClaimCommits(v, k) PROVE Same
  <2>1. k # j
    BY <1>0, <1>5 DEF ClaimCommits, TypeOK, Waits, Due
  <2>2. /\ status'[j] = status[j] /\ clock'[j] = clock[j] /\ urgent' = urgent /\ dropped' = dropped \ {k}
        /\ task' = task /\ task[v] = k /\ \A u \in Workers \ {v} : phase'[u] = phase[u]
    BY <1>0, <1>5, <2>1 DEF ClaimCommits, TypeOK
  <2> QED
    BY <2>1, <2>2 DEF Waits, Due, Locked
<1>6. ASSUME NEW v \in Workers, ClaimNothing(v) PROVE Same
  <2>1. UNCHANGED jobs /\ task' = task /\ dropped' = dropped /\ phase[v] # "claiming"
        /\ \A u \in Workers \ {v} : phase'[u] = phase[u]
    BY <1>0, <1>6 DEF ClaimNothing, RoundBegins, Polling, TypeOK
  <2> QED
    BY <2>1 DEF jobs, Waits, Due, Locked
<1>7. ASSUME NEW v \in Workers, End(v) \/ Retry(v) \/ GiveUp(v) PROVE clock'[j] >= 0 \/ Same
  <2>1. /\ phase[v] # "claiming" /\ task[v] \in Jobs /\ dropped' = dropped /\ urgent' = urgent
        /\ \A u \in Workers \ {v} : phase'[u] = phase[u] /\ task'[u] = task[u]
    BY <1>0, <1>7, Types DEF End, Retry, GiveUp, HandlerEnds, Rest, TypeOK
  <2>2. ~Locked(j)
    BY <2>1 DEF Waits, Locked
  <2>3. CASE End(v) \/ GiveUp(v)
    BY <1>0, <2>1, <2>2, <2>3 DEF End, GiveUp, TypeOK, Waits, Due
  <2>4. CASE Retry(v)
    <3>1. PICK d \in Nat : clock' = [clock EXCEPT ![task[v]] = d]
      BY <2>4, RetryClock
    <3> QED
      BY <1>0, <2>1, <2>2, <2>4, <3>1 DEF Retry, TypeOK, Waits, Due
  <2> QED
    BY <1>7, <2>3, <2>4
<1>8. CASE Tick
  <2>1. /\ status' = status /\ phase' = phase /\ task' = task /\ dropped' = dropped /\ urgent' = urgent
        /\ status[j] = "pending" /\ ~Locked(j) /\ j \notin dropped
    BY <1>8 DEF Tick, Waits, Due, Locked
  <2>2. clock'[j] >= 0 \/ clock[j] <= 0
    BY <1>0, <1>8, <2>1, TickEffect
  <2> QED
    BY <1>8, <2>1, <2>2 DEF Waits, Due
<1>9. CASE UNCHANGED vars
  BY <1>9 DEF vars, jobs, Waits, Due, Locked
<1> QED
  BY <1>1, <1>2, <1>3, <1>4, <1>5, <1>6, <1>7, <1>8, <1>9 DEF Next, Round

\* How a worker comes to wait, to claim and to execute, and what it keeps while
\* others act and no time passes.
LEMMA WorkerSteps ==
    ASSUME TInv, [Next]_vars, ~Tick, NEW w \in Workers
    PROVE  /\ phase'[w] = "waiting" /\ timer'[w] > 0 =>
                 ClaimNothing(w) \/ (phase[w] = "waiting" /\ timer'[w] = timer[w])
           /\ phase'[w] = "claiming" =>
                 \/ phase[w] = "claiming" /\ task'[w] = task[w]
                 \/ \E k \in Jobs : ClaimBegins(w, k) /\ task'[w] = k
           /\ phase'[w] = "executing" /\ Owns(w)' =>
                 \/ ClaimCommits(w, task[w]) /\ task'[w] = task[w] /\ clock'[task[w]] = LeaseSeconds
                 \/ /\ phase[w] = "executing" /\ task'[w] = task[w] /\ Owns(w)
                    /\ clock'[task[w]] = clock[task[w]]
           /\ urgent \subseteq urgent'
<1>0. TypeOK /\ ClaimsOK /\ (phase[w] = "executing" => task[w] \in Jobs)
  BY Types DEF TInv
<1> DEFINE Keeps == phase'[w] = phase[w] /\ timer'[w] = timer[w] /\ task'[w] = task[w]
           Holds == phase[w] = "executing" /\ Owns(w)' => Owns(w) /\ clock'[task[w]] = clock[task[w]]
           Unchanged == Keeps /\ Holds /\ urgent \subseteq urgent'
           Waited == phase'[w] = "waiting" /\ timer'[w] > 0 =>
                    ClaimNothing(w) \/ (phase[w] = "waiting" /\ timer'[w] = timer[w])
           Claims == phase'[w] = "claiming" =>
                    \/ phase[w] = "claiming" /\ task'[w] = task[w]
                    \/ \E k \in Jobs : ClaimBegins(w, k) /\ task'[w] = k
           Executes == phase'[w] = "executing" /\ Owns(w)' =>
                    \/ ClaimCommits(w, task[w]) /\ task'[w] = task[w] /\ clock'[task[w]] = LeaseSeconds
                    \/ /\ phase[w] = "executing" /\ task'[w] = task[w] /\ Owns(w)
                       /\ clock'[task[w]] = clock[task[w]]
           Result == Waited /\ Claims /\ Executes /\ urgent \subseteq urgent'
<1> SUFFICES Result
  OBVIOUS
<1>1. Unchanged => Result
  OBVIOUS
<1>2. ASSUME NEW j \in Jobs, Submit(j) PROVE Result
  <2>1. Unchanged
    BY <1>0, <1>2 DEF Submit, TypeOK, Owns
  <2> QED
    BY <1>1, <2>1
<1>3. ASSUME NEW v \in Workers, Start(v) \/ StopOrCrash(v) \/ ClaimNothing(v) PROVE Result
  <2>1. CASE v = w
    BY <1>0, <1>3, <2>1 DEF Start, StopOrCrash, ClaimNothing, jobs, TypeOK
  <2>2. CASE v # w
    <3>1. Unchanged
      BY <1>0, <1>3, <2>2 DEF Start, StopOrCrash, ClaimNothing, jobs, TypeOK, Owns
    <3> QED
      BY <1>1, <3>1
  <2> QED
    BY <2>1, <2>2
<1>4. ASSUME NEW v \in Workers, Scan(v) PROVE Result
  <2>1. Unchanged
    BY <1>0, <1>4 DEF Scan, TypeOK, Owns
  <2> QED
    BY <1>1, <2>1
<1>5. ASSUME NEW v \in Workers, NEW k \in Jobs, ClaimBegins(v, k) PROVE Result
  <2>1. CASE v = w
    BY <1>0, <1>5, <2>1 DEF ClaimBegins, jobs, TypeOK
  <2>2. CASE v # w
    <3>1. Unchanged
      BY <1>0, <1>5, <2>2 DEF ClaimBegins, jobs, TypeOK, Owns
    <3> QED
      BY <1>1, <3>1
  <2> QED
    BY <2>1, <2>2
<1>6. ASSUME NEW v \in Workers, NEW k \in Jobs, ClaimCommits(v, k) PROVE Result
  <2>1. CASE v = w
    BY <1>0, <1>6, <2>1 DEF ClaimCommits, TypeOK
  <2>2. CASE v # w
    <3>1. Keeps /\ urgent' = urgent /\ owner'[k] = v
      BY <1>0, <1>6, <2>2 DEF ClaimCommits, TypeOK
    <3>2. ASSUME phase[w] = "executing", Owns(w)' PROVE Owns(w) /\ clock'[task[w]] = clock[task[w]]
      <4>1. task[w] \in Jobs /\ task[w] # k
        BY <1>0, <2>2, <3>1, <3>2 DEF Owns
      <4> QED
        BY <1>0, <1>6, <3>1, <3>2, <4>1 DEF ClaimCommits, TypeOK, Owns
    <3> QED
      BY <1>1, <3>1, <3>2
  <2> QED
    BY <2>1, <2>2
<1>7. ASSUME NEW v \in Workers, End(v) \/ Retry(v) \/ GiveUp(v) PROVE Result
  <2>1. CASE v = w
    BY <1>0, <1>7, <2>1 DEF End, Retry, GiveUp, Rest, TypeOK
  <2>2. CASE v # w
    <3>1. Keeps /\ urgent' = urgent /\ task[v] \in Jobs
      BY <1>0, <1>7, <2>2, Types DEF End, Retry, GiveUp, HandlerEnds, Rest, TypeOK
    <3>2. ASSUME phase[w] = "executing", Owns(w)' PROVE Owns(w) /\ clock'[task[w]] = clock[task[w]]
      <4>1. CASE GiveUp(v)
        BY <3>1, <3>2, <4>1 DEF GiveUp, Owns
      <4>2. CASE End(v)
        BY <1>0, <3>1, <3>2, <4>2 DEF End, TypeOK, Owns
      <4>3. CASE Retry(v)
        <5>1. PICK d \in Nat : clock' = [clock EXCEPT ![task[v]] = d]
          BY <4>3, RetryClock
        <5> QED
          BY <1>0, <3>1, <3>2, <4>3, <5>1 DEF Retry, TypeOK, Owns
      <4> QED
        BY <1>7, <4>1, <4>2, <4>3
    <3> QED
      BY <1>1, <3>1, <3>2
  <2> QED
    BY <2>1, <2>2
<1>8. CASE UNCHANGED vars
  BY <1>0, <1>1, <1>8 DEF vars, jobs, Owns
<1> HIDE DEF Result
<1> QED
  BY <1>2, <1>3, <1>4, <1>5, <1>6, <1>7, <1>8 DEF Next, Round

\* A poll wait begins when nothing waits that could be claimed.
LEMMA NextIdleWorker ==
    TInv /\ IdleWorkerTakesDueJobs /\ [Next]_vars => IdleWorkerTakesDueJobs'
<1> SUFFICES ASSUME TInv, IdleWorkerTakesDueJobs, [Next]_vars,
                    NEW w \in Workers, phase'[w] = "waiting", timer'[w] > 0,
                    NEW j \in Jobs, Waits(j)'
             PROVE  -clock'[j] <= PollInterval - timer'[w]
  BY DEF IdleWorkerTakesDueJobs, Waits, Due
<1>0. /\ timer[w] \in Nat /\ timer'[w] \in Nat /\ timer'[w] <= PollInterval
      /\ clock[j] \in Int /\ clock'[j] \in Int
  <2>1. TInv' /\ TypeOK' /\ TimersOK'
    BY NextTInv DEF TInv
  <2>2. timer'[w] \in Nat /\ since_beat'[w] \in 0 .. Horizon /\ since_beat'[w] + timer'[w] <= PollInterval
    BY <2>1 DEF TypeOK, TimersOK
  <2> QED
    BY <2>1, <2>2, Types, Numbers DEF TypeOK
<1>1. CASE clock'[j] >= 0
  BY <1>0, <1>1, Numbers
<1>2. CASE Waits(j) /\ ~Tick /\ clock'[j] = clock[j]
  <2>1. ~ClaimNothing(w)
    BY <1>2 DEF ClaimNothing, Waits
  <2>2. phase[w] = "waiting" /\ timer'[w] = timer[w]
    BY <1>2, <2>1, WorkerSteps
  <2> QED
    BY <1>2, <2>2 DEF IdleWorkerTakesDueJobs
<1>3. CASE Waits(j) /\ Tick
  <2>1. /\ phase[w] = "waiting" /\ status[j] = "pending"
        /\ timer'[w] = timer[w] - 1 /\ timer[w] > 0 /\ clock'[j] = Earlier(clock[j])
    BY <1>3, TickEffect DEF Tick, Waits, Due
  <2>2. -clock'[j] <= 1 - clock[j] /\ -clock[j] <= PollInterval - timer[w]
    BY <1>3, <2>1, TickEffect DEF IdleWorkerTakesDueJobs
  <2> QED
    BY <1>0, <2>1, <2>2, Numbers
<1> QED
  BY <1>1, <1>2, <1>3, WaitingJobs

\* Retries wait at most as long as their attempt allows.
LEMMA NextBackoff == TInv /\ BackoffWithinBounds /\ [Next]_vars => BackoffWithinBounds'
<1> DEFINE Hidden(j) == /\ attempts[j] \in 1 .. (MaxAttempts - 1)
                        /\ clock[j] <= MaxDelay
                        /\ clock[j] <= BaseDelay * 2 ^ (attempts[j] - 1)
<1> SUFFICES ASSUME TInv, BackoffWithinBounds, [Next]_vars,
                    NEW j \in Jobs, status'[j] = "pending", clock'[j] > 0
             PROVE  Hidden(j)'
  BY DEF BackoffWithinBounds
<1>0. TypeOK /\ clock[j] \in Int /\ attempts[j] \in Nat
  BY Types DEF TInv
<1>1. status[j] = "pending" /\ clock[j] > 0 => Hidden(j)
  BY DEF BackoffWithinBounds
<1>2. CASE status[j] = "pending" /\ clock'[j] = clock[j] /\ attempts'[j] = attempts[j]
  BY <1>1, <1>2
<1>3. ASSUME NEW k \in Jobs, Submit(k) PROVE Hidden(j)'
  <2>1. clock[k] = 0
    BY <1>3 DEF Submit, TInv, ClocksOK
  <2> QED
    BY <1>0, <1>2, <1>3, <2>1 DEF Submit, TypeOK
<1>4. ASSUME NEW w \in Workers,
             \/ Start(w) \/ StopOrCrash(w) \/ ClaimNothing(w) \/ GiveUp(w)
             \/ \E k \in Jobs : ClaimBegins(w, k)
      PROVE  Hidden(j)'
  BY <1>2, <1>4 DEF Start, StopOrCrash, ClaimBegins, ClaimNothing, GiveUp, Rest, jobs
<1>5. ASSUME NEW w \in Workers, Scan(w) PROVE Hidden(j)'
  BY <1>2, <1>5 DEF Scan
<1>6. ASSUME NEW w \in Workers, NEW k \in Jobs, ClaimCommits(w, k) PROVE Hidden(j)'
  <2>1. j # k
    BY <1>0, <1>6 DEF ClaimCommits, TypeOK
  <2> QED
    BY <1>0, <1>2, <1>6, <2>1 DEF ClaimCommits, TypeOK
<1>7. ASSUME NEW w \in Workers, End(w) PROVE Hidden(j)'
  <2>1. task[w] \in Jobs /\ j # task[w]
    BY <1>0, <1>7, Types DEF End, HandlerEnds, TypeOK
  <2> QED
    BY <1>0, <1>2, <1>7, <2>1 DEF End, Rest, TypeOK
<1>8. ASSUME NEW w \in Workers, Retry(w) PROVE Hidden(j)'
  <2>1. PICK d \in Nat : /\ clock' = [clock EXCEPT ![task[w]] = d] /\ d <= MaxDelay
                         /\ d <= BaseDelay * 2 ^ (attempts[task[w]] - 1)
    BY <1>8, RetryClock
  <2>2. task[w] \in Jobs /\ attempts[task[w]] \in 1 .. (MaxAttempts - 1) /\ attempts' = attempts
    BY <1>8, RetryClock DEF Retry, Rest
  <2>3. CASE j = task[w]
    BY <1>0, <2>1, <2>2, <2>3 DEF TypeOK
  <2>4. CASE j # task[w]
    BY <1>0, <1>2, <1>8, <2>1, <2>2, <2>4 DEF Retry, TypeOK
  <2> QED
    BY <2>3, <2>4
<1>9. CASE Tick
  <2>1. /\ status[j] = "pending" /\ attempts' = attempts
        /\ clock'[j] = Earlier(clock[j]) /\ clock'[j] \in Int /\ clock'[j] <= clock[j]
    BY <1>9, TickEffect DEF Tick
  <2>2. clock[j] > 0 /\ Hidden(j)
    BY <1>0, <1>1, <2>1
  <2>3. BaseDelay * 2 ^ (attempts[j] - 1) \in Int
    BY <2>2, Numbers
  <2> QED
    BY <1>0, <2>1, <2>2, <2>3, Numbers
<1>10. CASE UNCHANGED vars
  BY <1>2, <1>10 DEF vars, jobs
<1> QED
  BY <1>3, <1>4, <1>5, <1>6, <1>7, <1>8, <1>9, <1>10 DEF Next, Round

\* A claim takes a job of low priority only when no urgent one waits.
LEMMA NextChoice == TInv /\ ChoiceOK /\ [Next]_vars => ChoiceOK'
<1> SUFFICES ASSUME TInv, ChoiceOK, [Next]_vars,
                    NEW w \in Workers, phase'[w] = "claiming", task'[w] \notin urgent',
                    NEW j \in urgent', Waits(j)', ~(clock'[j] >= 0)
             PROVE  FALSE
  BY DEF ChoiceOK, Waits, Due, Locked
<1>0. j \in Jobs
  BY NextTInv DEF TInv, TypeOK
<1>1. ~Tick
  <2> SUFFICES ASSUME Tick PROVE FALSE
    OBVIOUS
  <2>1. phase[w] = "claiming"
    BY DEF Tick
  <2> QED
    BY <2>1 DEF Tick, TInv, TimersOK
<1>2. Waits(j) /\ j \in urgent /\ clock'[j] = clock[j] /\ urgent \subseteq urgent'
  BY <1>0, <1>1, WaitingJobs, WorkerSteps
<1>3. CASE phase[w] = "claiming" /\ task'[w] = task[w]
  BY <1>2, <1>3 DEF ChoiceOK
<1>4. ASSUME NEW k \in Jobs, ClaimBegins(w, k), task'[w] = k PROVE FALSE
  <2>1. k \notin urgent /\ Precedes(k, j)
    BY <1>0, <1>2, <1>4 DEF ClaimBegins, IsNext, Waits
  <2> QED
    BY <1>2, <2>1 DEF Precedes
<1> QED
  BY <1>1, <1>3, <1>4, WorkerSteps

\* So the job it executes is at least as old a claim as the urgent one is due.
LEMMA NextPriority == TInv /\ ChoiceOK /\ PriorityKept /\ [Next]_vars => PriorityKept'
<1> SUFFICES ASSUME TInv, ChoiceOK, PriorityKept, [Next]_vars,
                    NEW w \in Workers, phase'[w] = "executing", Owns(w)', task'[w] \notin urgent',
                    NEW j \in urgent', Waits(j)'
             PROVE  -clock'[j] <= LeaseSeconds - clock'[task'[w]]
  BY DEF PriorityKept, Waits, Due, Locked
<1>0. /\ j \in Jobs /\ clock[j] \in Int /\ clock'[j] \in Int
      /\ task'[w] \in Jobs /\ clock'[task'[w]] \in Int /\ clock'[task'[w]] <= LeaseSeconds
  <2>1. TInv' /\ TypeOK' /\ ClocksOK'
    BY NextTInv DEF TInv
  <2>2. j \in Jobs /\ task'[w] \in Jobs /\ status'[task'[w]] = "running"
    BY <2>1, DurationsAssumption DEF TypeOK, Owns, Jobs
  <2> QED
    BY <2>1, <2>2, Types DEF TypeOK, ClocksOK
<1>1. CASE clock'[j] >= 0
  BY <1>0, <1>1, Numbers
<1>2. CASE Waits(j) /\ j \in urgent /\ ~Tick /\ clock'[j] = clock[j]
  <2>1. urgent \subseteq urgent'
    BY <1>2, WorkerSteps
  <2>2. CASE ClaimCommits(w, task[w]) /\ task'[w] = task[w]
    <3>1. clock[j] >= 0
      BY <1>2, <2>1, <2>2 DEF ClaimCommits, ChoiceOK
    <3> QED
      BY <1>1, <1>2, <3>1
  <2>3. CASE phase[w] = "executing" /\ task'[w] = task[w] /\ Owns(w) /\ clock'[task[w]] = clock[task[w]]
    BY <1>2, <2>1, <2>3 DEF PriorityKept
  <2> QED
    BY <1>2, <2>2, <2>3, WorkerSteps
<1>3. CASE Waits(j) /\ Tick
  <2> DEFINE t == task[w]
  <2>1. /\ phase' = phase /\ task' = task /\ urgent' = urgent /\ status' = status /\ owner' = owner
        /\ t \in Jobs /\ Owns(w) /\ t \notin urgent
    BY <1>0, <1>3 DEF Tick, Owns
  <2>2. /\ clock[t] \in Int /\ clock[t] <= LeaseSeconds /\ clock[t] >= -Horizon
        /\ clock'[t] = Earlier(clock[t]) /\ clock'[t] \in Int /\ clock'[t] <= clock[t]
        /\ clock[t] > -Horizon => clock'[t] = clock[t] - 1
    BY <1>3, <2>1, Types, TickEffect DEF TInv, ClocksOK, Owns
  <2>3. /\ clock'[j] = Earlier(clock[j]) /\ -clock'[j] <= 1 - clock[j]
        /\ clock'[j] >= -Horizon
    <3>1. ClocksOK'
      BY NextTInv DEF TInv
    <3> QED
      BY <1>0, <1>3, <3>1, TickEffect DEF Waits, Due, ClocksOK
  <2>4. -clock[j] <= LeaseSeconds - clock[t]
    BY <1>3, <2>1 DEF PriorityKept
  <2>5. -clock'[j] <= LeaseSeconds - clock'[t]
    BY <1>0, <2>2, <2>3, <2>4, Numbers
  <2> QED
    BY <2>1, <2>5
<1> QED
  BY <1>0, <1>1, <1>2, <1>3, WaitingJobs

-----------------------------------------------------------------------------
(* The theorems.                                                           *)

\* The inductive invariant.
LEMMA Invariance == Spec => []IInv
<1>1. IInv /\ [Next]_vars => IInv'
  BY NextTInv, NextScanned, NextIdleWorker, NextChoice, NextPriority, NextBackoff DEF IInv
<1> QED
  BY InitIInv, <1>1, PTL DEF Spec

\* The variables keep their types, and a job runs exactly while it has an owner.
THEOREM TypeCorrect == Spec => []TypeOK
<1>1. IInv => TypeOK
  BY DEF IInv, TInv
<1> QED
  BY Invariance, <1>1, PTL

\* recover_expired_leases is called in time, whatever else a worker finds to do,
\* and no lease stays over for longer than a worker's last scan is ago.
THEOREM RecoveryInTime == Spec => []RecoveredInTime
<1>1. IInv => RecoveredInTime
  <2> SUFFICES ASSUME IInv, NEW w \in Workers, phase[w] # "down" PROVE since_scan[w] <= Longest
    BY DEF IInv, ScannedOK, RecoveredInTime
  <2>1. phase[w] \in {"waiting", "resting", "claiming", "executing"}
    BY DEF IInv, TInv, TypeOK, Phase
  <2> QED
    BY <2>1, Types, Numbers DEF IInv, TInv, TimersOK
<1> QED
  BY Invariance, <1>1, PTL

\* No job is due for longer than an idle worker's poll wait has lasted.
THEOREM DueJobsAreTaken == Spec => []IdleWorkerTakesDueJobs
<1>1. IInv => IdleWorkerTakesDueJobs
  BY DEF IInv
<1> QED
  BY Invariance, <1>1, PTL

\* claim_next_job never prefers a job of low priority to an urgent one.
THEOREM NoInversion == Spec => []PriorityKept
<1>1. IInv => PriorityKept
  BY DEF IInv
<1> QED
  BY Invariance, <1>1, PTL

\* The retry policy hides a job for no longer than its attempt allows.
THEOREM BackoffBounded == Spec => []BackoffWithinBounds
<1>1. IInv => BackoffWithinBounds
  BY DEF IInv
<1> QED
  BY Invariance, <1>1, PTL

\* With a threshold that fits the handlers, the dashboard calls no worker stale
\* that is up.
THEOREM StaleIsDown == Spec => []StaleMeansDown
<1>1. IInv => StaleMeansDown
  <2> SUFFICES ASSUME IInv, MaxHandler + PollInterval <= StaleSeconds, NEW w \in Workers,
                      phase[w] # "down"
               PROVE  since_beat[w] <= StaleSeconds
    BY DEF StaleMeansDown, LooksHealthy
  <2>1. phase[w] \in {"waiting", "resting", "claiming", "executing"}
    BY DEF IInv, TInv, TypeOK, Phase
  <2> QED
    BY <2>1, Types, Numbers DEF IInv, TInv, TimersOK
<1> QED
  BY Invariance, <1>1, PTL

-----------------------------------------------------------------------------
(* The lifecycle of the jobs.                                              *)

\* Every action of the loop, the clock included, is a step of the lifecycle.
LEMMA NextLifecycle == TypeOK /\ ClaimsOK /\ [Next]_vars => [Lifecycle!Next]_(Lifecycle!vars)
<1> SUFFICES ASSUME TypeOK, ClaimsOK, [Next]_vars PROVE Lifecycle!Next
  OBVIOUS
<1>0. /\ DOMAIN status = Jobs /\ DOMAIN attempts = Jobs /\ DOMAIN owner = Jobs
      /\ \A j \in Jobs : /\ owner[j] # NULL <=> status[j] = "running"
                         /\ attempts[j] \in Nat
                         /\ status[j] \in {"none", "pending", "running", "ended"}
      /\ MaxAttempts \in Nat
      /\ \A w \in Workers : phase[w] = "executing" => task[w] \in Jobs
  BY Numbers DEF TypeOK
<1>1. SUFFICES ASSUME NEW k \in Jobs PROVE Lifecycle!Stay(k) \/ Lifecycle!Step(k)
  BY DEF Lifecycle!Next
<1>2. ASSUME status'[k] = status[k], owner'[k] = owner[k], attempts'[k] = attempts[k]
      PROVE  Lifecycle!Stay(k)
  BY <1>2 DEF Lifecycle!Stay
<1>3. ASSUME NEW j \in Jobs, Submit(j) PROVE Lifecycle!Stay(k) \/ Lifecycle!Step(k)
  <2>1. CASE k = j
    BY <1>0, <1>3, <2>1 DEF Submit, Lifecycle!Step, Lifecycle!Create, Lifecycle!Move
  <2>2. CASE k # j
    BY <1>0, <1>2, <1>3, <2>2 DEF Submit
  <2> QED
    BY <2>1, <2>2
<1>4. ASSUME NEW w \in Workers, NEW j \in Jobs, ClaimCommits(w, j) PROVE Lifecycle!Stay(k) \/ Lifecycle!Step(k)
  <2>1. CASE k = j
    BY <1>0, <1>4, <2>1 DEF ClaimCommits, ClaimsOK, Due, Lifecycle!Step, Lifecycle!Claim, Lifecycle!Move
  <2>2. CASE k # j
    BY <1>0, <1>2, <1>4, <2>2 DEF ClaimCommits
  <2> QED
    BY <2>1, <2>2
<1>5. ASSUME NEW w \in Workers, End(w) \/ Retry(w) PROVE Lifecycle!Stay(k) \/ Lifecycle!Step(k)
  <2>1. task[w] \in Jobs /\ status[task[w]] = "running" /\ attempts' = attempts
    BY <1>0, <1>5 DEF End, Retry, Rest, HandlerEnds, Owns
  <2>2. CASE k # task[w]
    BY <1>0, <1>2, <1>5, <2>1, <2>2 DEF End, Retry
  <2>3. CASE k = task[w] /\ End(w)
    BY <1>0, <2>1, <2>3 DEF End, Lifecycle!Step, Lifecycle!Succeed, Lifecycle!Move, Lifecycle!Release
  <2>4. CASE k = task[w] /\ Retry(w)
    BY <1>0, <2>1, <2>4
    DEF Retry, AttemptsLeft, Lifecycle!Step, Lifecycle!FailAndRetry, Lifecycle!Move, Lifecycle!Release
  <2> QED
    BY <1>5, <2>2, <2>3, <2>4
<1>6. ASSUME NEW w \in Workers, Scan(w) PROVE Lifecycle!Stay(k) \/ Lifecycle!Step(k)
  <2>1. CASE Lapsed(k)
    BY <1>0, <1>6, <2>1
    DEF Scan, Lapsed, Lifecycle!Step, Lifecycle!Expire, Lifecycle!Move, Lifecycle!Release
  <2>2. CASE ~Lapsed(k)
    BY <1>2, <1>6, <2>2 DEF Scan
  <2> QED
    BY <2>1, <2>2
<1>7. ASSUME NEW w \in Workers,
             \/ Start(w) \/ StopOrCrash(w) \/ ClaimNothing(w) \/ GiveUp(w)
             \/ \E j \in Jobs : ClaimBegins(w, j)
      PROVE  Lifecycle!Stay(k)
  BY <1>2, <1>7 DEF Start, StopOrCrash, ClaimBegins, ClaimNothing, GiveUp, Rest, jobs
<1>8. CASE Tick \/ UNCHANGED vars
  BY <1>2, <1>8 DEF Tick, vars, jobs
<1> QED
  BY <1>3, <1>4, <1>5, <1>6, <1>7, <1>8 DEF Next, Round

\* The loop moves each job along the lifecycle, and a recovery scan as many as
\* it finds at once; time alone changes no job.
THEOREM Implements == Spec => FollowsLifecycle
<1>1. Init => Lifecycle!Init
  BY DEF Init, Lifecycle!Init
<1>2. IInv /\ [Next]_vars => [Lifecycle!Next]_(Lifecycle!vars)
  BY NextLifecycle DEF IInv, TInv
<1> QED
  BY <1>1, <1>2, Invariance, PTL DEF Spec, FollowsLifecycle, Lifecycle!Spec
=============================================================================
