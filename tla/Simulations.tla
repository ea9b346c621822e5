---------------------------- MODULE Simulations -----------------------------
(***************************************************************************)
(* One simulation from its creation to its results: the routes             *)
(* (apps/api/src/routes/simulations/index.ts) and the processor of its     *)
(* runs (apps/worker/src/processors/simulation-run.ts).  SimEngine says    *)
(* what is computed; here an override is one that lets the engine finish,  *)
(* makes it throw, or makes a percentage too large for its column.         *)
(*                                                                         *)
(* Every database or queue call that decides something is a step.  The     *)
(* processor catches what its statements throw, so that BullMQ runs it     *)
(* again only after a stall.  No code writes the status 'running' that the *)
(* run route refuses, and no code queues a replay.                         *)
(***************************************************************************)
EXTENDS SimState, FiniteSetsExt

Idle == [at |-> "idle", read |-> None, what |-> None]
NoJob == [at |-> "none", read |-> None]

\* By sequence number; the database returns equal numbers in any order.
Readings ==
  {s \in SetToSeqs(Rows) : \A i, j \in DOMAIN s : i < j => simRows[s[i]].seq <= simRows[s[j]].seq}

(***************************************************************************)
(* Requests                                                                *)
(***************************************************************************)
Answered(a) == simActors' = [simActors EXCEPT ![a] = Idle]
Go(a, at, what) ==
  simActors' = [simActors EXCEPT ![a] = [at |-> at, read |-> simStatus, what |-> what]]
On(a, at) == simActors' = [simActors EXCEPT ![a].at = at]

\* A write that the status read no longer allows.
Late(a) ==
  simLate' = (simLate \/ (simActors[a].read = "draft" /\ simStatus # "draft"))

\* POST /simulations, POST /templates/:id/apply: the overrides of a template follow,
\* one by one.
Create(a, template) ==
  /\ simActors[a].at = "idle" /\ ~simCreated
  /\ simCreated' = TRUE /\ simStatus' = "draft"
  /\ IF template = <<>> THEN UNCHANGED simActors
     ELSE simActors' = [simActors EXCEPT ![a] = [at |-> "copy", read |-> "draft", what |-> 1]]
  /\ UNCHANGED <<simRows, simRuns, simJobs, simLate, simFaults>>

CopyOverride(a) ==
  /\ simActors[a].at = "copy" /\ simStatus # None
  /\ LET i == simActors[a].what IN
       \E k \in Places \ Rows :
         /\ \A l \in Places \ Rows : k <= l
         /\ simRows' = [simRows EXCEPT ![k] = [kind |-> SimTemplate[i], seq |-> i - 1]]
         /\ IF i = Len(SimTemplate) THEN Answered(a)
            ELSE simActors' = [simActors EXCEPT ![a].what = i + 1]
  /\ Late(a)
  /\ UNCHANGED <<simStatus, simCreated, simRuns, simJobs, simFaults>>

\* A mutant of AskOverride: in any status.
AskOverrideAnytime(a) ==
  /\ simActors[a].at = "idle" /\ simStatus # None
  /\ \E kind \in SimKinds, seq \in SimSeqs :
       Go(a, "insert override", [kind |-> kind, seq |-> seq])
  /\ UNCHANGED <<simStatus, simCreated, simRows, simRuns, simJobs, simLate, simFaults>>

\* POST /:id/overrides
AskOverride(a) ==
  /\ simActors[a].at = "idle" /\ simStatus = "draft"
  /\ \E kind \in SimKinds, seq \in SimSeqs :
       Go(a, "insert override", [kind |-> kind, seq |-> seq])
  /\ UNCHANGED <<simStatus, simCreated, simRows, simRuns, simJobs, simLate, simFaults>>

InsertOverride(a) ==
  /\ simActors[a].at = "insert override" /\ simStatus # None
  /\ \E k \in Places \ Rows :
       /\ \A l \in Places \ Rows : k <= l
       /\ simRows' = [simRows EXCEPT ![k] = simActors[a].what]
  /\ Answered(a) /\ Late(a)
  /\ UNCHANGED <<simStatus, simCreated, simRuns, simJobs, simFaults>>

\* DELETE /:id/overrides/:overrideId
AskRemove(a) ==
  /\ simActors[a].at = "idle" /\ simStatus = "draft"
  /\ \E k \in Rows : Go(a, "delete override", k)
  /\ UNCHANGED <<simStatus, simCreated, simRows, simRuns, simJobs, simLate, simFaults>>

DeleteOverride(a) ==
  /\ simActors[a].at = "delete override"
  /\ simRows' = [simRows EXCEPT ![simActors[a].what] = None]
  /\ Answered(a) /\ Late(a)
  /\ UNCHANGED <<simStatus, simCreated, simRuns, simJobs, simFaults>>

\* PATCH /:id
AskUpdate(a) ==
  /\ simActors[a].at = "idle" /\ simStatus = "draft"
  /\ \E status \in {"draft", "cancelled"} : Go(a, "update", status)
  /\ UNCHANGED <<simStatus, simCreated, simRows, simRuns, simJobs, simLate, simFaults>>

Update(a) ==
  /\ simActors[a].at = "update"
  /\ simStatus' = IF simStatus = None THEN None ELSE simActors[a].what
  /\ Answered(a) /\ Late(a)
  /\ UNCHANGED <<simCreated, simRows, simRuns, simJobs, simFaults>>

\* DELETE /:id: overrides, runs, results and deltas go with it (ON DELETE CASCADE).
Delete(a) ==
  /\ simActors[a].at = "idle" /\ simStatus # None
  /\ simStatus' = None
  /\ simRows' = [k \in Places |-> None]
  /\ simRuns' = [n \in Numbers |-> None]
  /\ UNCHANGED <<simCreated, simJobs, simActors, simLate, simFaults>>

\* POST /:id/run: in any status that occurs, the next number of those inserted.
AskRun(a) ==
  /\ simActors[a].at = "idle" /\ simStatus # None
  /\ LET n == Max({0} \cup {m \in Numbers : simRuns[m] # None}) + 1 IN
       n \in Numbers /\ Go(a, "insert run", n)
  /\ UNCHANGED <<simStatus, simCreated, simRows, simRuns, simJobs, simLate, simFaults>>

\* A number is taken once (idx_simulation_runs_number).
CanInsertRun(a) == simStatus # None /\ simRuns[simActors[a].what] = None

InsertRun(a) ==
  /\ simActors[a].at = "insert run" /\ CanInsertRun(a)
  /\ simRuns' = [simRuns EXCEPT ![simActors[a].what] =
                   [status |-> "pending", result |-> None, deltas |-> 0]]
  /\ On(a, "set pending")
  /\ UNCHANGED <<simStatus, simCreated, simRows, simJobs, simLate, simFaults>>

SetPending(a) ==
  /\ simActors[a].at = "set pending"
  /\ simStatus' = IF simStatus = None THEN None ELSE "pending"
  /\ On(a, "enqueue")
  /\ UNCHANGED <<simCreated, simRows, simRuns, simJobs, simLate, simFaults>>

\* The audit row, which refers to the run, and the queue entry.
Enqueue(a) ==
  /\ simActors[a].at = "enqueue" /\ simStatus # None
  /\ simJobs' = [simJobs EXCEPT ![simActors[a].what][1].at = "start"]
  /\ Answered(a)
  /\ UNCHANGED <<simStatus, simCreated, simRows, simRuns, simLate, simFaults>>

Refused(a) ==
  \/ (simActors[a].at \in {"copy", "insert override", "enqueue"} /\ simStatus = None)
  \/ (simActors[a].at = "insert run" /\ ~CanInsertRun(a))

\* Any call may fail; what is written stays.
RequestFails(a) ==
  /\ simActors[a].at # "idle"
  /\ simFaults < MaxSimFaults \/ Refused(a)
  /\ simFaults' = IF Refused(a) THEN simFaults ELSE simFaults + 1
  /\ Answered(a)
  /\ UNCHANGED <<simStatus, simCreated, simRows, simRuns, simJobs, simLate>>

(***************************************************************************)
(* processSimulationRunJob                                                 *)
(***************************************************************************)
\* What was read is used once.
Step(n, d, at) == simJobs' = [simJobs EXCEPT ![n][d] = [at |-> at, read |-> None]]
SetRun(n, status) ==
  simRuns' = IF simRuns[n] = None THEN simRuns ELSE [simRuns EXCEPT ![n].status = status]
SetSimulation(status) == simStatus' = IF simStatus = None THEN None ELSE status

MarkRunning(n, d) ==
  /\ simJobs[n][d].at = "start"
  /\ SetRun(n, "running")
  /\ Step(n, d, "load")
  /\ UNCHANGED <<simStatus, simCreated, simRows, simActors, simLate, simFaults>>

\* The simulation and its overrides; the engine runs on what was read.
Load(n, d) ==
  /\ simJobs[n][d].at = "load"
  /\ IF simStatus = None THEN Step(n, d, "fail run")
     ELSE \E s \in Readings :
            simJobs' = [simJobs EXCEPT ![n][d] =
              [at |-> IF \E i \in DOMAIN s : simRows[s[i]].kind = "throws" THEN "fail run"
                      ELSE "result",
               read |-> [i \in DOMAIN s |-> [place |-> s[i], row |-> simRows[s[i]]]]]]
  /\ UNCHANGED <<simStatus, simCreated, simRows, simRuns, simActors, simLate, simFaults>>

Overflows(s) == \E i \in DOMAIN s : s[i].row.kind = "overflows"

\* A mutant of InsertResult: a run's result is replaced.
ReplaceResult(n, d) ==
  /\ simJobs[n][d].at = "result"
  /\ IF simRuns[n] = None \/ Overflows(simJobs[n][d].read)
     THEN Step(n, d, "fail run") /\ UNCHANGED simRuns
     ELSE /\ Step(n, d, "deltas")
          /\ simRuns' = [simRuns EXCEPT ![n].result = simJobs[n][d].read]
  /\ UNCHANGED <<simStatus, simCreated, simRows, simActors, simLate, simFaults>>

\* A run has one result (idx_simulation_results_run_unique); the change in percent has
\* four digits before the point.
InsertResult(n, d) ==
  /\ simJobs[n][d].at = "result"
  /\ IF simRuns[n] = None \/ Overflows(simJobs[n][d].read)
     THEN Step(n, d, "fail run") /\ UNCHANGED simRuns
     ELSE IF simRuns[n].result # None
     THEN Step(n, d, "fail run") /\ UNCHANGED simRuns
     ELSE /\ Step(n, d, "deltas")
          /\ simRuns' = [simRuns EXCEPT ![n].result = simJobs[n][d].read]
  /\ UNCHANGED <<simStatus, simCreated, simRows, simActors, simLate, simFaults>>

\* At most a hundred deltas: one statement.
InsertDeltas(n, d) ==
  /\ simJobs[n][d].at = "deltas"
  /\ IF simRuns[n] = None THEN Step(n, d, "fail run") /\ UNCHANGED simRuns
     ELSE /\ Step(n, d, "complete run")
          /\ simRuns' = [simRuns EXCEPT ![n].deltas = @ + 1]
  /\ UNCHANGED <<simStatus, simCreated, simRows, simActors, simLate, simFaults>>

CompleteRun(n, d) ==
  /\ simJobs[n][d].at = "complete run"
  /\ SetRun(n, "completed")
  /\ Step(n, d, "complete simulation")
  /\ UNCHANGED <<simStatus, simCreated, simRows, simActors, simLate, simFaults>>

CompleteSimulation(n, d) ==
  /\ simJobs[n][d].at = "complete simulation"
  /\ SetSimulation("completed")
  /\ Step(n, d, "audit")
  /\ UNCHANGED <<simCreated, simRows, simRuns, simActors, simLate, simFaults>>

Audit(n, d) ==
  /\ simJobs[n][d].at = "audit"
  /\ Step(n, d, IF simRuns[n] = None THEN "fail run" ELSE "ended")
  /\ UNCHANGED <<simStatus, simCreated, simRows, simRuns, simActors, simLate, simFaults>>

FailRun(n, d) ==
  /\ simJobs[n][d].at = "fail run"
  /\ SetRun(n, "failed")
  /\ Step(n, d, "fail simulation")
  /\ UNCHANGED <<simStatus, simCreated, simRows, simActors, simLate, simFaults>>

\* A mutant of FailSimulation: the run alone is marked.
ForgetSimulation(n, d) ==
  /\ simJobs[n][d].at = "fail simulation"
  /\ Step(n, d, "ended")
  /\ UNCHANGED <<simStatus, simCreated, simRows, simRuns, simActors, simLate, simFaults>>

\* The audit row that follows decides nothing.
FailSimulation(n, d) ==
  /\ simJobs[n][d].at = "fail simulation"
  /\ SetSimulation("failed")
  /\ Step(n, d, "ended")
  /\ UNCHANGED <<simCreated, simRows, simRuns, simActors, simLate, simFaults>>

\* A statement fails: inside the try, or in the catch, whose error BullMQ does not retry.
Throws(n, d) ==
  /\ Working(n, d) /\ simFaults < MaxSimFaults
  /\ simFaults' = simFaults + 1
  /\ Step(n, d, IF simJobs[n][d].at \in InCatch THEN "ended"
                ELSE "fail run")
  /\ UNCHANGED <<simStatus, simCreated, simRows, simRuns, simActors, simLate>>

Dies(n, d) ==
  /\ Working(n, d) /\ simFaults < MaxSimFaults
  /\ simFaults' = simFaults + 1
  /\ Step(n, d, "dead")
  /\ UNCHANGED <<simStatus, simCreated, simRows, simRuns, simActors, simLate>>

\* The first run died, or lives on without its lock.
Stalled(n) ==
  /\ simJobs[n][1].at \notin {"none", "start", "ended"} /\ simJobs[n][2].at = "none"
  /\ simJobs[n][1].at = "dead" \/ simFaults < MaxSimFaults
  /\ simFaults' = IF simJobs[n][1].at = "dead" THEN simFaults ELSE simFaults + 1
  /\ Step(n, 2, "start")
  /\ UNCHANGED <<simStatus, simCreated, simRows, simRuns, simActors, simLate>>

-----------------------------------------------------------------------------
Init ==
  /\ simStatus = None /\ simCreated = FALSE
  /\ simRows = [k \in Places |-> None]
  /\ simRuns = [n \in Numbers |-> None]
  /\ simJobs = [n \in Numbers |-> [d \in 1..2 |-> NoJob]]
  /\ simActors = [a \in SimActors |-> Idle]
  /\ simLate = FALSE /\ simFaults = 0

Request(a) ==
  \/ \E template \in {<<>>, SimTemplate} : Create(a, template)
  \/ CopyOverride(a)
  \/ AskOverride(a) \/ InsertOverride(a)
  \/ AskRemove(a) \/ DeleteOverride(a)
  \/ AskUpdate(a) \/ Update(a)
  \/ Delete(a)
  \/ AskRun(a) \/ InsertRun(a) \/ SetPending(a) \/ Enqueue(a)
  \/ RequestFails(a)

Process(n, d) ==
  \/ MarkRunning(n, d) \/ Load(n, d)
  \/ InsertResult(n, d) \/ InsertDeltas(n, d)
  \/ CompleteRun(n, d) \/ CompleteSimulation(n, d) \/ Audit(n, d)
  \/ FailRun(n, d) \/ FailSimulation(n, d)
  \/ Throws(n, d) \/ Dies(n, d)

Next ==
  \/ \E a \in SimActors : Request(a)
  \/ \E n \in Numbers, d \in 1..2 : Process(n, d)
  \/ \E n \in Numbers : Stalled(n)

Spec == Init /\ [][Next]_simVars
=============================================================================
