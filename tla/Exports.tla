------------------------------- MODULE Exports -------------------------------
(***************************************************************************)
(* An export from the request to the download: the /exports routes         *)
(* (apps/api/src/routes/exports/index.ts), the schedules that the worker's *)
(* Scheduler checks on every tick (apps/worker/src/scheduler.ts), and the  *)
(* CSV and PDF processors (apps/worker/src/processors/export-*.ts), which  *)
(* make the same statements, run by the handler of worker.ts.              *)
(*                                                                         *)
(* Every database, storage or queue call is a step of its own.  The model  *)
(* covers less than one cadence period of one schedule; ids are never used *)
(* again; tenants and roles are left out.  The handler's updates of jobs   *)
(* rows, which no export code reads, are those of JobQueue.                *)
(***************************************************************************)
EXTENDS Integers, FiniteSets

CONSTANTS
  Exports, NoExport,  \* ids of createExportId()
  Jobs, NoJob,        \* ids of createJobId()
  Clients,            \* API requests, one each
  Ticks,              \* ticks of the scheduler, which may overlap
  MaxStalls           \* BullMQ's maxStalledCount (1)

\* Run n of a job is the one BullMQ started after n - 1 stalls.  The queues of
\* exports are opened without attempts, so an error is never retried.
RunNo == 1..(MaxStalls + 1)
Actors == Clients \cup Ticks

ASSUME Absent ==
  NoExport \notin Exports /\ NoJob \notin Jobs /\ Clients \cap Ticks = {}
ASSUME Stalls == MaxStalls \in Nat

VARIABLES
  exports,  \* exports[e]: the row's status and processing_lock
  files,    \* files[e]: the runs that inserted an export_files row of e
  stored,   \* the runs whose object is in the bucket
  audit,    \* audit[e]: the export_audit rows of e, action and author
  runs,     \* runs[e]: the status of the schedule's export_runs row of e
  job,      \* job[j]: the export in its jobs row, and the job in BullMQ
  run,      \* run[j][n]: where a run of the handler is
  actor     \* actor[a]: a request or a tick in progress

vars == <<exports, files, stored, audit, runs, job, run, actor>>

(***************************************************************************)
(* Data                                                                    *)
(***************************************************************************)
Processors == Jobs \X RunNo
ExportStatus == {"none", "pending", "processing", "completed", "failed",
                 "cancelled", "deleted"}
RunStatus == {"none", "pending", "running", "completed", "failed"}
Op == {"none", "create", "schedule", "regenerate", "delete", "download"}
ActorPc == {"idle", "insert_export", "insert_run", "reset", "pick", "audit",
            "remove", "insert_job", "enqueue", "done"}
Answer == {"none", "ok", "processing", "locked", "not_completed", "no_file", "error"}
RunPc == {"new", "begin", "audit_started", "store", "insert_file", "complete",
          "audit_completed", "mark_failed", "audit_failed", "return", "throw",
          "returned", "threw", "dead"}
Over == {"new", "returned", "threw", "dead"}

\* export_audit.action, and who wrote it: a run or an actor.
Audit == [action : {"requested", "started", "completed", "failed", "downloaded",
                    "regenerated", "cancelled", "deleted"},
          by : Processors \cup Actors]

ExportRow == [status : ExportStatus, lock : {"none", "fresh", "old"}]
Job == [export : Exports \cup {NoExport},
        state : {"none", "waiting", "active", "ended", "failed"},
        stalls : 0..(MaxStalls + 1)]
Actor == [op : Op, pc : ActorPc, export : Exports \cup {NoExport}, seen : ExportStatus,
          job : Jobs \cup {NoJob}, answer : Answer]

TypeOK ==
  /\ exports \in [Exports -> ExportRow]
  /\ files \in [Exports -> SUBSET Processors]
  /\ stored \subseteq Processors
  /\ audit \in [Exports -> SUBSET Audit]
  /\ runs \in [Exports -> RunStatus]
  /\ job \in [Jobs -> Job]
  /\ run \in [Jobs -> [RunNo -> RunPc]]
  /\ actor \in [Actors -> Actor]

Init ==
  /\ exports = [e \in Exports |-> [status |-> "none", lock |-> "none"]]
  /\ files = [e \in Exports |-> {}]
  /\ stored = {}
  /\ audit = [e \in Exports |-> {}]
  /\ runs = [e \in Exports |-> "none"]
  /\ job = [j \in Jobs |-> [export |-> NoExport, state |-> "none", stalls |-> 0]]
  /\ run = [j \in Jobs |-> [n \in RunNo |-> "new"]]
  /\ actor = [a \in Actors |-> [op |-> "none", pc |-> "idle", export |-> NoExport,
                                seen |-> "none", job |-> NoJob, answer |-> "none"]]

Exists(e) == exports[e].status \notin {"none", "deleted"}

\* UPDATE exports SET status, processing_lock WHERE id = e: no other condition.
SetExport(e, status, lock) ==
  exports' = IF Exists(e) THEN [exports EXCEPT ![e] = [status |-> status, lock |-> lock]]
             ELSE exports

\* INSERT INTO export_audit, refused by its foreign key once e is deleted.
AddAudit(e, action, by) ==
  /\ Exists(e)
  /\ audit' = [audit EXCEPT ![e] = @ \cup {[action |-> action, by |-> by]}]

(***************************************************************************)
(* The routes and the scheduler                                            *)
(***************************************************************************)
tables == <<exports, files, stored, audit, runs>>

GoOn(a, from, to) ==
  /\ actor[a].pc = from
  /\ actor' = [actor EXCEPT ![a].pc = to]

\* The request is answered, and its local variables are gone.
Answered(a, answer) ==
  actor' = [actor EXCEPT ![a].pc = "done", ![a].answer = answer,
                         ![a].seen = "none", ![a].job = NoJob]

\* POST /exports: the snapshot exists, in whatever status.
RequestExport(c) ==
  /\ actor[c].pc = "idle"
  /\ actor' = [actor EXCEPT ![c].op = "create", ![c].pc = "insert_export"]
  /\ UNCHANGED <<tables, job, run>>

\* isDue: no completed run of the schedule.  A run stays 'pending': no code
\* updates export_runs.
Due == \A e \in Exports : runs[e] # "completed"

\* checkExportSchedules finds the schedule due, and a snapshot to export.
Tick(t) ==
  /\ actor[t].pc = "idle" /\ Due
  /\ actor' = [actor EXCEPT ![t].op = "schedule", ![t].pc = "insert_export"]
  /\ UNCHANGED <<tables, job, run>>

InsertExport(a, e) ==
  /\ actor[a].pc = "insert_export" /\ exports[e].status = "none"
  /\ exports' = [exports EXCEPT ![e].status = "pending"]
  /\ actor' = [actor EXCEPT ![a].export = e,
                 ![a].pc = IF actor[a].op = "create" THEN "audit" ELSE "insert_run"]
  /\ UNCHANGED <<files, stored, audit, runs, job, run>>

\* INSERT INTO export_runs, whose foreign key needs the export.
InsertRun(t) ==
  /\ GoOn(t, "insert_run", "insert_job")
  /\ Exists(actor[t].export)
  /\ runs' = [runs EXCEPT ![actor[t].export] = "pending"]
  /\ UNCHANGED <<exports, files, stored, audit, job, run>>

\* POST /exports/:id/regenerate reads the row: 409 while it is processing, 423
\* while its lock is younger than a minute.
Regenerate(c, e) ==
  /\ actor[c].pc = "idle" /\ Exists(e)
  /\ \E answer \in {"processing", "locked", "none"} :
       /\ answer = CASE exports[e].status = "processing" -> "processing"
                     [] exports[e].lock = "fresh"         -> "locked"
                     [] OTHER                             -> "none"
       /\ actor' = [actor EXCEPT ![c].op = "regenerate", ![c].export = e,
                      ![c].answer = answer,
                      ![c].pc = IF answer = "none" THEN "reset" ELSE "done"]
  /\ UNCHANGED <<tables, job, run>>

\* The status is reset as the row now is; processing_lock is left alone.
Reset(c) ==
  LET e == actor[c].export IN
  /\ GoOn(c, "reset", "audit")
  /\ SetExport(e, "pending", exports[e].lock)
  /\ UNCHANGED <<files, stored, audit, runs, job, run>>

\* DELETE /exports/:id reads the status, and will act on what it read.
Delete(c, e) ==
  /\ actor[c].pc = "idle" /\ Exists(e)
  /\ actor' = [actor EXCEPT ![c].op = "delete", ![c].export = e, ![c].pc = "audit",
                            ![c].seen = exports[e].status]
  /\ UNCHANGED <<tables, job, run>>

\* GET /exports/:id/download: a completed export, then one of its files.
Download(c, e) ==
  /\ actor[c].pc = "idle" /\ Exists(e)
  /\ actor' = [actor EXCEPT
       ![c].op = "download", ![c].export = e,
       ![c].pc = IF exports[e].status = "completed" THEN "pick" ELSE "done",
       ![c].answer = IF exports[e].status = "completed" THEN "none" ELSE "not_completed"]
  /\ UNCHANGED <<tables, job, run>>

PickFile(c) ==
  /\ actor[c].pc = "pick"
  /\ IF files[actor[c].export] = {} THEN Answered(c, "no_file")
                                    ELSE GoOn(c, "pick", "audit")
  /\ UNCHANGED <<tables, job, run>>

\* The export_audit row of a request: before a delete or a cancel is tried,
\* after the change of status for the others.
AuditRequest(c) ==
  LET a == actor[c]
      action == CASE a.op = "create"     -> "requested"
                  [] a.op = "regenerate" -> "regenerated"
                  [] a.op = "download"   -> "downloaded"
                  [] a.seen = "processing" -> "cancelled"
                  [] OTHER               -> "deleted"
  IN
  /\ a.pc = "audit"
  /\ AddAudit(a.export, action, c)
  /\ CASE a.op = "download" -> Answered(c, "ok")
       [] a.op = "delete"   -> GoOn(c, "audit", "remove")
       [] OTHER             -> GoOn(c, "audit", "insert_job")
  /\ UNCHANGED <<exports, files, stored, runs, job, run>>

\* Cancel what was processing when it was read.
Cancel(c) ==
  LET e == actor[c].export IN
  /\ actor[c].pc = "remove" /\ actor[c].seen = "processing"
  /\ SetExport(e, "cancelled", exports[e].lock)
  /\ Answered(c, "ok")
  /\ UNCHANGED <<files, stored, audit, runs, job, run>>

\* Delete anything else, with its files and audit rows (ON DELETE CASCADE).
\* export_runs has no such clause: the delete of a scheduled export fails.
Remove(c) ==
  LET e == actor[c].export IN
  /\ actor[c].pc = "remove" /\ actor[c].seen # "processing"
  /\ runs[e] = "none"
  /\ exports' = [exports EXCEPT ![e] = [status |-> "deleted", lock |-> "none"]]
  /\ files' = [files EXCEPT ![e] = {}]
  /\ audit' = [audit EXCEPT ![e] = {}]
  /\ Answered(c, "ok")
  /\ UNCHANGED <<stored, runs, job, run>>

\* The jobs row of a new job; no foreign key ties it to the export.
InsertJob(a, j) ==
  /\ actor[a].pc = "insert_job" /\ job[j].export = NoExport
  /\ actor' = [actor EXCEPT ![a].pc = "enqueue", ![a].job = j]
  /\ job' = [job EXCEPT ![j].export = actor[a].export]
  /\ UNCHANGED <<tables, run>>

\* queue.add: the last call of a request or of a tick's schedule.
Enqueue(a) ==
  /\ actor[a].pc = "enqueue"
  /\ job' = [job EXCEPT ![actor[a].job].state = "waiting"]
  /\ Answered(a, "ok")
  /\ UNCHANGED <<tables, run>>

\* A call fails (a foreign key, the database, Redis) or the process dies:
\* nothing is undone.  The scheduler catches and logs, the API answers 500.
ActorFails(a) ==
  /\ actor[a].pc \notin {"idle", "done"}
  /\ Answered(a, "error")
  /\ UNCHANGED <<tables, job, run>>

\* A minute passes since the lock was taken.
LockAges(e) ==
  /\ exports[e].lock = "fresh"
  /\ exports' = [exports EXCEPT ![e].lock = "old"]
  /\ UNCHANGED <<files, stored, audit, runs, job, run, actor>>

(***************************************************************************)
(* The handler of worker.ts and the processors                             *)
(***************************************************************************)
Live(j, n) == run[j][n] \notin Over

Advance(j, n, from, to) ==
  /\ run[j][n] = from
  /\ run' = [run EXCEPT ![j][n] = to]

Fetch(j) ==
  /\ job[j].state = "waiting"
  /\ job' = [job EXCEPT ![j].state = "active"]
  /\ run' = [run EXCEPT ![j][job[j].stalls + 1] = "begin"]
  /\ UNCHANGED <<tables, actor>>

\* Whatever its status was: a cancelled or completed export is processed again.
Begin(j, n) ==
  /\ Advance(j, n, "begin", "audit_started")
  /\ SetExport(job[j].export, "processing", "fresh")
  /\ UNCHANGED <<files, stored, audit, runs, job, actor>>

\* A variant for mutation: the audit row is best effort.
AuditStartedMaybe(j, n) ==
  /\ Advance(j, n, "audit_started", "store")
  /\ UNCHANGED <<tables, job, actor>>

AuditStarted(j, n) ==
  /\ Advance(j, n, "audit_started", "store")
  /\ AddAudit(job[j].export, "started", <<j, n>>)
  /\ UNCHANGED <<exports, files, stored, runs, job, actor>>

\* A variant for mutation: the rendered file is recorded without being put.
StoreNothing(j, n) ==
  /\ Advance(j, n, "store", "insert_file")
  /\ UNCHANGED <<tables, job, actor>>

\* Read the snapshot, render, and put the object under a key of this run.
Store(j, n) ==
  /\ Advance(j, n, "store", "insert_file")
  /\ stored' = stored \cup {<<j, n>>}
  /\ UNCHANGED <<exports, files, audit, runs, job, actor>>

\* A variant for mutation: export_files has no foreign key.
InsertFileAnyway(j, n) ==
  LET e == job[j].export IN
  /\ Advance(j, n, "insert_file", "complete")
  /\ files' = [files EXCEPT ![e] = @ \cup {<<j, n>>}]
  /\ UNCHANGED <<exports, stored, audit, runs, job, actor>>

InsertFile(j, n) ==
  LET e == job[j].export IN
  /\ Advance(j, n, "insert_file", "complete")
  /\ Exists(e)
  /\ files' = [files EXCEPT ![e] = @ \cup {<<j, n>>}]
  /\ UNCHANGED <<exports, stored, audit, runs, job, actor>>

Complete(j, n) ==
  /\ Advance(j, n, "complete", "audit_completed")
  /\ SetExport(job[j].export, "completed", "none")
  /\ UNCHANGED <<files, stored, audit, runs, job, actor>>

AuditCompleted(j, n) ==
  /\ Advance(j, n, "audit_completed", "return")
  /\ AddAudit(job[j].export, "completed", <<j, n>>)
  /\ UNCHANGED <<exports, files, stored, runs, job, actor>>

InProcessor == {"begin", "audit_started", "store", "insert_file", "complete",
                "audit_completed"}

\* A statement of the processor's try block throws, a foreign key's refusal
\* among others: to its catch block, also after the status was 'completed'.
ProcessorThrows(j, n) ==
  /\ run[j][n] \in InProcessor
  /\ run' = [run EXCEPT ![j][n] = "mark_failed"]
  /\ UNCHANGED <<tables, job, actor>>

\* A variant for mutation: the catch block only logs.
MarkFailedQuietly(j, n) ==
  /\ Advance(j, n, "mark_failed", "audit_failed")
  /\ UNCHANGED <<tables, job, actor>>

MarkFailed(j, n) ==
  /\ Advance(j, n, "mark_failed", "audit_failed")
  /\ SetExport(job[j].export, "failed", "none")
  /\ UNCHANGED <<files, stored, audit, runs, job, actor>>

\* The processor then returns { success: false }, which the handler records as
\* a completed job.
AuditFailed(j, n) ==
  /\ Advance(j, n, "audit_failed", "return")
  /\ AddAudit(job[j].export, "failed", <<j, n>>)
  /\ UNCHANGED <<exports, files, stored, runs, job, actor>>

\* The handler's own statement before the processor throws, or one of the
\* processor's catch block, or the handler's last ones.
HandlerThrows(j, n) ==
  /\ run[j][n] \in {"begin", "mark_failed", "audit_failed", "return"}
  /\ run' = [run EXCEPT ![j][n] = "throw"]
  /\ UNCHANGED <<tables, job, actor>>

\* BullMQ ends the job, unless this run lost it to a stall.
Leave(j, n) ==
  /\ run[j][n] \in {"return", "throw"}
  /\ run' = [run EXCEPT ![j][n] = IF @ = "return" THEN "returned" ELSE "threw"]
  /\ job' = IF job[j].state = "active" /\ job[j].stalls + 1 = n
            THEN [job EXCEPT ![j].state = "ended"] ELSE job
  /\ UNCHANGED <<tables, actor>>

Crash(j, n) ==
  /\ Live(j, n)
  /\ run' = [run EXCEPT ![j][n] = "dead"]
  /\ UNCHANGED <<tables, job, actor>>

\* A variant for mutation: stalls are not counted against a limit.
StalledAlways(j) ==
  /\ job[j].state = "active"
  /\ job' = [job EXCEPT ![j].stalls = @ + 1, ![j].state = "waiting"]
  /\ UNCHANGED <<tables, run, actor>>

\* The active job's run has not renewed its lock, dead or not: the job waits
\* again, or fails without any handler once it stalled too often.
Stalled(j) ==
  /\ job[j].state = "active"
  /\ job' = [job EXCEPT ![j].stalls = @ + 1,
                        ![j].state = IF job[j].stalls < MaxStalls THEN "waiting"
                                                                  ELSE "failed"]
  /\ UNCHANGED <<tables, run, actor>>

(***************************************************************************)
(* Specification                                                           *)
(***************************************************************************)
ClientStep(c) ==
  \/ RequestExport(c) \/ Reset(c) \/ PickFile(c) \/ AuditRequest(c)
  \/ Cancel(c) \/ Remove(c)
  \/ \E e \in Exports : Regenerate(c, e) \/ Delete(c, e) \/ Download(c, e)

ActorStep(a) ==
  \/ \E e \in Exports : InsertExport(a, e)
  \/ \E j \in Jobs : InsertJob(a, j)
  \/ Enqueue(a) \/ ActorFails(a)

RunStep(j, n) ==
  \/ Begin(j, n) \/ AuditStarted(j, n) \/ Store(j, n) \/ InsertFile(j, n)
  \/ Complete(j, n) \/ AuditCompleted(j, n) \/ ProcessorThrows(j, n)
  \/ MarkFailed(j, n) \/ AuditFailed(j, n) \/ HandlerThrows(j, n) \/ Leave(j, n)

Next ==
  \/ \E c \in Clients : ClientStep(c)
  \/ \E t \in Ticks : Tick(t) \/ InsertRun(t)
  \/ \E a \in Actors : ActorStep(a)
  \/ \E e \in Exports : LockAges(e)
  \/ \E j \in Jobs : Fetch(j) \/ Stalled(j)
  \/ \E j \in Jobs, n \in RunNo : RunStep(j, n) \/ Crash(j, n)

Spec == Init /\ [][Next]_vars

\* BullMQ hands out waiting jobs and notices the stall of a dead run, and a
\* running handler goes on; nobody is obliged to ask, to crash or to stall.
StalledDead(j) ==
  /\ job[j].stalls + 1 \in RunNo => run[j][job[j].stalls + 1] = "dead"
  /\ Stalled(j)

Fairness ==
  /\ \A j \in Jobs : WF_vars(Fetch(j)) /\ WF_vars(StalledDead(j))
  /\ \A j \in Jobs, n \in RunNo : WF_vars(RunStep(j, n))

FairSpec == Spec /\ Fairness

(***************************************************************************)
(* Safety                                                                  *)
(***************************************************************************)

\* Whatever regenerates, stalls and errors overlap: every export_files row has
\* its object in the bucket, and a 'completed' export has a file to download.
CompletedIsDownloadable ==
  \A e \in Exports :
    /\ files[e] \subseteq stored
    /\ exports[e].status = "completed" => files[e] # {}

\* The audit trail of an export that still exists never claims more than was
\* done: a file's run announced its start, a run audited as 'completed' made
\* a file, and no run has both verdicts.
AuditIsEarned ==
  \A e \in Exports : \A r \in Processors :
    LET did(action) == [action |-> action, by |-> r] \in audit[e] IN
    /\ r \in files[e] => did("started")
    /\ did("completed") => r \in files[e] /\ ~did("failed")

\* A request or tick that is about to queue a job of e, a queued one, a run.
Queues(a, e) ==
  actor[a].export = e /\ actor[a].op \in {"create", "schedule", "regenerate"}

InHand(e) ==
  \/ \E a \in Actors : Queues(a, e) /\ actor[a].pc # "done"
  \/ \E j \in Jobs : /\ job[j].export = e
                     /\ job[j].state \in {"waiting", "active"} \/ \E n \in RunNo : Live(j, n)

\* Something of e failed for good: such a request or tick between two calls, a
\* run that died or whose handler or catch block threw, a job that stalled out.
Broken(e) ==
  \/ \E a \in Actors : Queues(a, e) /\ actor[a].answer = "error"
  \/ \E j \in Jobs : /\ job[j].export = e
                     /\ \/ job[j].state = "failed"
                        \/ \E n \in RunNo : run[j][n] \in {"threw", "dead"}

\* An export is left 'pending' or 'processing' with nothing on its way only
\* after such a failure: no interleaving of regenerate, delete, cancel and
\* overlapping runs strands one by itself.
StuckHasACause ==
  \A e \in Exports :
    exports[e].status \in {"pending", "processing"} => InHand(e) \/ Broken(e)

\* Once deleted, an export stays deleted, and no late run or request hangs a
\* file, an audit row or a schedule's run on it.
DeletedForGood ==
  [][\A e \in Exports :
       exports[e].status = "deleted" =>
         /\ exports'[e].status = "deleted"
         /\ files'[e] = {} /\ audit'[e] = {} /\ runs'[e] = "none"]_vars

(***************************************************************************)
(* Liveness                                                                *)
(***************************************************************************)

\* An export whose job is in the queue gets a verdict, is cancelled or is
\* deleted, unless something of it fails for good.
ExportsSettle ==
  \A e \in Exports :
    (\E j \in Jobs : job[j].export = e /\ job[j].state = "waiting")
      ~> \/ exports[e].status \in {"completed", "failed", "cancelled", "deleted"}
         \/ Broken(e)
=============================================================================
