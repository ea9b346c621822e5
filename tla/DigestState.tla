----------------------------- MODULE DigestState -----------------------------
(***************************************************************************)
(* What Digests keeps, and what it promises: the subscription, its         *)
(* digest_runs rows, the jobs and actors at work on them, what was mailed, *)
(* and the invariants.                                                     *)
(***************************************************************************)
EXTENDS Integers

CONSTANTS
  DigestRuns,     \* digest_runs rows that may be inserted
  Actors,         \* ticks of the scheduler and trigger requests between two calls
  NoRun,
  Cadence,        \* time between two scheduled digests
  Week,           \* how far back the first digest reaches
  MaxTime,        \* bound on the clock
  MaxFaults       \* bound on failing calls and dying workers

ASSUME DigestAssumption ==
  /\ NoRun \notin DigestRuns
  /\ Cadence \in Nat /\ Week \in Nat /\ MaxTime \in Nat /\ MaxFaults \in Nat

VARIABLES
  digSub,         \* the subscription: active, inactive or deleted
  digNow,         \* the clock
  digRuns,        \* digest_runs rows
  digJobs,        \* the job of each run: where it stands and what it read
  digActors,      \* what a tick or a request is about to do, for which run
  digMailed,      \* history: the runs and periods that were mailed
  digFaults,      \* history: how many calls failed or workers died
  digOverlap      \* history: two jobs were under way at once

digVars == <<digSub, digNow, digRuns, digJobs, digActors, digMailed, digFaults, digOverlap>>

DigestStatuses == {"none", "pending", "running", "completed", "failed", "skipped"}
DigestStages ==
  {"none", "queued", "read", "start", "period", "mail", "complete", "fail", "return", "ended"}
Times == (-Week)..MaxTime

Completed == {r \in DigestRuns : digRuns[r].status = "completed"}

(***************************************************************************)
(* Properties                                                              *)
(***************************************************************************)
DigestRun == [status : DigestStatuses, finished : 0..MaxTime, order : Nat, end : 0..MaxTime]
DigestJob == [at : DigestStages, start : Times, end : 0..MaxTime]
DigestActor == [at : {"idle", "insertRun", "enqueue"}, run : DigestRuns \cup {NoRun}]

DigestTypeOK ==
  /\ digSub \in {"active", "inactive", "deleted"}
  /\ digNow \in 0..MaxTime
  /\ digRuns \in [DigestRuns -> DigestRun]
  /\ digJobs \in [DigestRuns -> DigestJob]
  /\ digActors \in [Actors -> DigestActor]
  /\ \A m \in digMailed : m.run \in DigestRuns /\ m.start \in Times /\ m.end \in 0..MaxTime
  /\ digFaults \in 0..MaxFaults
  /\ digOverlap \in BOOLEAN

\* The step of the clock from t on is in a digest that was mailed.
Covered(t) == \E m \in digMailed : m.start <= t /\ t + 1 <= m.end

\* Nothing falls between two digests: what happened in the week before the end of a
\* completed run's period is in a digest that was mailed, in whatever order runs
\* overlap, fail or are repeated; and so is all that happened between the periods of
\* two completed runs, unless two jobs overlapped (a first digest that is sent while
\* another is under way reaches back a week, and no further).
NoGap ==
  /\ \A r \in Completed : \A t \in (digRuns[r].end - Week)..(digRuns[r].end - 1) : Covered(t)
  /\ ~digOverlap =>
       \A r, s \in Completed : \A t \in digRuns[s].end..(digRuns[r].end - 1) : Covered(t)

\* Nothing is mailed twice, unless two jobs overlapped, a call failed or a worker
\* died, or the subscription was deleted under a job, which then reaches back a
\* week again.  (While a run is under way every tick finds the digest due again.)
MailedOnce ==
  digFaults = 0 /\ ~digOverlap /\ digSub # "deleted" =>
    \A m, n \in digMailed : m # n => m.end <= n.start \/ n.end <= m.start

\* Types; every moment is in a digest, and in no more than one, but for the causes
\* above (checkDigestSubscriptions, processDigestSendJob).
DigestsInv == DigestTypeOK /\ NoGap /\ MailedOnce
=============================================================================
