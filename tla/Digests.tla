------------------------------ MODULE Digests ------------------------------
(***************************************************************************)
(* The digests of one subscription (routes/digests, the digest part of     *)
(* scheduler.ts, processors/digest-send.ts).  A tick of the scheduler or a *)
(* request inserts a digest_runs row and queues a job; the job mails what  *)
(* happened since the end of the period of the last completed run, then    *)
(* completes its own.  Time is counted in steps of the clock.              *)
(***************************************************************************)
EXTENDS DigestState, FiniteSetsExt

Under(r) == digJobs[r].at \in {"start", "period", "mail", "complete", "fail"}
\* The completed run that finished last: order tells runs of one step of the clock
\* apart.
LastRuns == {r \in Completed : \A s \in Completed : digRuns[s].order <= digRuns[r].order}

Step(r, at) == digJobs' = [digJobs EXCEPT ![r].at = at]
SetRun(r, status) == digRuns' = [digRuns EXCEPT ![r].status = status]

(***************************************************************************)
(* The subscription and the clock                                          *)
(***************************************************************************)
\* PATCH /digests/:id
Toggle ==
  /\ digSub # "deleted"
  /\ digSub' = IF digSub = "active" THEN "inactive" ELSE "active"
  /\ UNCHANGED <<digNow, digRuns, digJobs, digActors, digMailed, digFaults, digOverlap>>

\* DELETE /digests/:id: its runs go with it (ON DELETE CASCADE).
DeleteSub ==
  /\ digSub # "deleted"
  /\ digSub' = "deleted"
  /\ digRuns' = [r \in DigestRuns |-> [digRuns[r] EXCEPT !.status = "none"]]
  /\ UNCHANGED <<digNow, digJobs, digActors, digMailed, digFaults, digOverlap>>

Pass ==
  /\ digNow < MaxTime
  /\ digNow' = digNow + 1
  /\ UNCHANGED <<digSub, digRuns, digJobs, digActors, digMailed, digFaults, digOverlap>>

(***************************************************************************)
(* Scheduling                                                              *)
(***************************************************************************)
\* A mutant of IsDue: the last run need not be completed.
IsDueOnce == \A r \in DigestRuns : digRuns[r].status = "none"

\* isDue, of the last completed run; a run that is pending does not count.
IsDue ==
  \/ Completed = {}
  \/ \E r \in LastRuns : digNow - digRuns[r].finished >= Cadence

Fresh == {r \in DigestRuns : digJobs[r].at = "none"
                             /\ \A a \in Actors : digActors[a].run # r}

\* checkDigestSubscriptions, at any time: ticks are not awaited.
CheckSubscription(a) ==
  /\ digActors[a].at = "idle"
  /\ digSub = "active"
  /\ IsDue
  /\ \E r \in Fresh : digActors' = [digActors EXCEPT ![a] = [at |-> "insertRun", run |-> r]]
  /\ UNCHANGED <<digSub, digNow, digRuns, digJobs, digMailed, digFaults, digOverlap>>

\* POST /digests/:id/trigger, active or not
Trigger(a) ==
  /\ digActors[a].at = "idle"
  /\ digSub # "deleted"
  /\ \E r \in Fresh : digActors' = [digActors EXCEPT ![a] = [at |-> "insertRun", run |-> r]]
  /\ UNCHANGED <<digSub, digNow, digRuns, digJobs, digMailed, digFaults, digOverlap>>

\* The foreign key refuses the run of a deleted subscription.
InsertRun(a) ==
  /\ digActors[a].at = "insertRun"
  /\ digSub # "deleted"
  /\ SetRun(digActors[a].run, "pending")
  /\ digActors' = [digActors EXCEPT ![a].at = "enqueue"]
  /\ UNCHANGED <<digSub, digNow, digJobs, digMailed, digFaults, digOverlap>>

\* The jobs row and the queue entry.
Enqueue(a) ==
  /\ digActors[a].at = "enqueue"
  /\ Step(digActors[a].run, "queued")
  /\ digActors' = [digActors EXCEPT ![a] = [at |-> "idle", run |-> NoRun]]
  /\ UNCHANGED <<digSub, digNow, digRuns, digMailed, digFaults, digOverlap>>

Refused(a) == digActors[a].at = "insertRun" /\ digSub = "deleted"

\* Any call may fail; what is written stays, and the run's id is lost.
SchedulingFails(a) ==
  /\ digActors[a].at # "idle"
  /\ digFaults < MaxFaults \/ Refused(a)
  /\ digActors' = [digActors EXCEPT ![a] = [at |-> "idle", run |-> NoRun]]
  /\ Step(digActors[a].run, "ended")
  /\ digFaults' = IF Refused(a) THEN digFaults ELSE digFaults + 1
  /\ UNCHANGED <<digSub, digNow, digRuns, digMailed, digOverlap>>

(***************************************************************************)
(* processDigestSendJob                                                    *)
(***************************************************************************)
Fetch(r) ==
  /\ digJobs[r].at = "queued"
  /\ Step(r, "read")
  /\ UNCHANGED <<digSub, digNow, digRuns, digActors, digMailed, digFaults, digOverlap>>

\* An inactive subscription's run is skipped, a deleted one's throws into the catch.
ReadSubscription(r) ==
  /\ digJobs[r].at = "read"
  /\ Step(r, CASE digSub = "active" -> "start" [] digSub = "deleted" -> "fail"
               [] OTHER -> "return")
  /\ IF digSub = "inactive" THEN SetRun(r, "skipped") ELSE UNCHANGED digRuns
  /\ digOverlap' = (digOverlap \/ \E s \in DigestRuns \ {r} : Under(s))
  /\ UNCHANGED <<digSub, digNow, digActors, digMailed, digFaults>>

\* Updates by id; of a row that is gone they change nothing.
StartRun(r) ==
  /\ digJobs[r].at = "start"
  /\ IF digSub = "deleted" THEN UNCHANGED digRuns ELSE SetRun(r, "running")
  /\ Step(r, "period")
  /\ UNCHANGED <<digSub, digNow, digActors, digMailed, digFaults, digOverlap>>

\* A mutant of ReadPeriod: it starts when the last run finished.
ReadFinished(r) ==
  /\ digJobs[r].at = "period"
  /\ \E start \in IF Completed = {} THEN {digNow - Week}
                  ELSE {digRuns[s].finished : s \in LastRuns} :
       digJobs' = [digJobs EXCEPT ![r] = [at |-> "mail", start |-> start, end |-> digNow]]
  /\ UNCHANGED <<digSub, digNow, digRuns, digActors, digMailed, digFaults, digOverlap>>

\* The period: from the end of the last completed run's, or a week back, to now.
ReadPeriod(r) ==
  /\ digJobs[r].at = "period"
  /\ \E start \in IF Completed = {} THEN {digNow - Week}
                  ELSE {digRuns[s].end : s \in LastRuns} :
       digJobs' = [digJobs EXCEPT ![r] = [at |-> "mail", start |-> start, end |-> digNow]]
  /\ UNCHANGED <<digSub, digNow, digRuns, digActors, digMailed, digFaults, digOverlap>>

\* aggregateDigestContent and sendDigestEmails.  A mail that fails is counted,
\* and the run completes all the same.
Mail(r) ==
  /\ digJobs[r].at = "mail"
  /\ digMailed' = digMailed \cup {[run |-> r, start |-> digJobs[r].start, end |-> digJobs[r].end]}
  /\ Step(r, "complete")
  /\ UNCHANGED <<digSub, digNow, digRuns, digActors, digFaults, digOverlap>>

Latest == Max({digRuns[s].order : s \in DigestRuns})

Complete(r) ==
  /\ digJobs[r].at = "complete"
  /\ digRuns' = IF digSub = "deleted" THEN digRuns
                ELSE [digRuns EXCEPT ![r] = [status |-> "completed", finished |-> digNow, order |-> Latest + 1,
                                             end |-> digJobs[r].end]]
  /\ Step(r, "return")
  /\ UNCHANGED <<digSub, digNow, digActors, digMailed, digFaults, digOverlap>>

\* The catch block: the run is failed, the job returns and is not repeated.
Fail(r) ==
  /\ digJobs[r].at = "fail"
  /\ IF digSub = "deleted" THEN UNCHANGED digRuns ELSE SetRun(r, "failed")
  /\ Step(r, "return")
  /\ UNCHANGED <<digSub, digNow, digActors, digMailed, digFaults, digOverlap>>

\* The handler records the job and BullMQ ends it.
Return(r) ==
  /\ digJobs[r].at = "return"
  /\ Step(r, "ended")
  /\ UNCHANGED <<digSub, digNow, digRuns, digActors, digMailed, digFaults, digOverlap>>

Throws(r) ==
  /\ digJobs[r].at \in {"read", "start", "period", "mail", "complete"}
  /\ digFaults < MaxFaults
  /\ Step(r, "fail")
  /\ digFaults' = digFaults + 1
  /\ UNCHANGED <<digSub, digNow, digRuns, digActors, digMailed, digOverlap>>

\* The worker dies: the job is given to another, or, a second time, failed.
Dies(r) ==
  /\ digJobs[r].at \in DigestStages \ {"none", "queued", "ended"}
  /\ digFaults < MaxFaults
  /\ \E at \in {"queued", "ended"} : Step(r, at)
  /\ digFaults' = digFaults + 1
  /\ UNCHANGED <<digSub, digNow, digRuns, digActors, digMailed, digOverlap>>

Init ==
  /\ digSub = "active"
  /\ digNow = 0
  /\ digRuns = [r \in DigestRuns |-> [status |-> "none", finished |-> 0, order |-> 0, end |-> 0]]
  /\ digJobs = [r \in DigestRuns |-> [at |-> "none", start |-> 0, end |-> 0]]
  /\ digActors = [a \in Actors |-> [at |-> "idle", run |-> NoRun]]
  /\ digMailed = {}
  /\ digFaults = 0
  /\ digOverlap = FALSE

Schedule(a) == InsertRun(a) \/ Enqueue(a)
Send(r) ==
  \/ Fetch(r) \/ ReadSubscription(r) \/ StartRun(r) \/ ReadPeriod(r) \/ Mail(r)
  \/ Complete(r) \/ Fail(r) \/ Return(r)

Next ==
  \/ Toggle \/ DeleteSub \/ Pass
  \/ \E a \in Actors : CheckSubscription(a) \/ Trigger(a) \/ Schedule(a) \/ SchedulingFails(a)
  \/ \E r \in DigestRuns : Send(r) \/ Throws(r) \/ Dies(r)

\* The scheduler's timer, its calls and the worker go on.
Fairness ==
  /\ \A a \in Actors : WF_digVars(CheckSubscription(a)) /\ WF_digVars(Schedule(a))
  /\ \A r \in DigestRuns : WF_digVars(Send(r))

Spec == Init /\ [][Next]_digVars /\ Fairness

\* A digest that fails is tried again: one that is left active is completed in the
\* end, because only a completed run puts the next one off.
DigestsComplete == [](digSub = "active") => <>(Completed # {})
=============================================================================
