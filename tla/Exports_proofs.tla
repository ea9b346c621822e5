--------------------------- MODULE Exports_proofs ---------------------------
(***************************************************************************)
(* Proofs about Exports for any number of exports, jobs, requests, ticks   *)
(* and stalls.  IInv is the inductive invariant: types; which export each  *)
(* request, tick and job is about; which runs BullMQ has not started yet;  *)
(* what the place a run has reached says about objects, files and audit    *)
(* rows; and who will still give an unfinished export its verdict.         *)
(***************************************************************************)
EXTENDS Exports, TLAPS

\* A request between two calls has an export that was inserted, and one about
\* to queue a job has inserted that job for it.
ActorsOwn ==
  \A a \in Actors :
    /\ actor[a].pc \in {"insert_run", "reset", "pick", "audit", "remove",
                        "insert_job", "enqueue"} => actor[a].export \in Exports
    /\ actor[a].export \in Exports => exports[actor[a].export].status # "none"
    /\ actor[a].pc = "enqueue" => /\ actor[a].job \in Jobs
                                  /\ job[actor[a].job].export = actor[a].export
                                  /\ job[actor[a].job].state = "none"

\* What an actor does at a place is what it was called for.
OpsFit ==
  \A a \in Actors :
    /\ actor[a].pc \in {"idle", "insert_export"} => actor[a].export = NoExport
    /\ actor[a].pc = "insert_export" => actor[a].op \in {"create", "schedule"}
    /\ actor[a].pc = "reset" => actor[a].op = "regenerate"
    /\ actor[a].pc = "pick" => actor[a].op = "download"
    /\ actor[a].pc = "remove" => actor[a].op = "delete"

\* A job is queued by one actor only.
OneQueuer ==
  \A a, b \in Actors :
    actor[a].pc = "enqueue" /\ actor[b].pc = "enqueue" /\ actor[a].job = actor[b].job
      => a = b

\* A queued job and a started run have an export that was inserted.
JobsOwn ==
  \A j \in Jobs :
    /\ job[j].state # "none" => job[j].export \in Exports
    /\ job[j].export \in Exports => exports[job[j].export].status # "none"

\* The runs of a job that BullMQ has not started.
Unstarted ==
  \A j \in Jobs :
    /\ job[j].state = "none" => job[j].stalls = 0
    /\ job[j].state \in {"waiting", "active"} => job[j].stalls <= MaxStalls
    /\ \A n \in RunNo :
         /\ run[j][n] # "new" => job[j].state # "none"
         /\ \/ job[j].state \in {"none", "waiting"} /\ n > job[j].stalls
            \/ job[j].state = "active" /\ n > job[j].stalls + 1
            => run[j][n] = "new"

Did(e, action, r) == [action |-> action, by |-> r] \in audit[e]
Verdicts == {"completed", "failed"}
AfterVerdict == {"return", "throw", "returned", "threw", "dead"}

\* Where a run stands says what it has stored, inserted and announced; without
\* its export, what is left of that is the object.
Reached ==
  \A j \in Jobs, n \in RunNo :
    LET r == <<j, n>>  e == job[j].export IN
    /\ run[j][n] = "insert_file" => r \in stored
    /\ run[j][n] \in {"store", "insert_file"} /\ Exists(e) => Did(e, "started", r)
    /\ run[j][n] \in {"complete", "audit_completed"} /\ Exists(e) => r \in files[e]

\* A run that has written a verdict is past the statements that write one.
OneVerdict ==
  \A j \in Jobs, n \in RunNo, e \in Exports, v \in Verdicts :
    Did(e, v, <<j, n>>) => run[j][n] \in AfterVerdict

\* Nothing hangs on a deleted export or on one not inserted yet.
Bare ==
  \A e \in Exports :
    ~Exists(e) => files[e] = {} /\ audit[e] = {} /\ runs[e] = "none"

\* The places from which a run still writes a verdict, or fails for good.
Undecided == {"begin", "audit_started", "store", "insert_file", "complete",
              "mark_failed", "throw", "threw", "dead"}

\* An unfinished export has a request or tick that will queue a job for it or
\* has failed, a job waiting or stalled out, or a run without a verdict.
Pursued(e) ==
  \/ \E a \in Actors : Queues(a, e) /\ (actor[a].pc # "done" \/ actor[a].answer = "error")
  \/ \E j \in Jobs : job[j].export = e /\ job[j].state \in {"waiting", "failed"}
  \/ \E j \in Jobs, n \in RunNo : job[j].export = e /\ run[j][n] \in Undecided

NoneForgotten ==
  \A e \in Exports : exports[e].status \in {"pending", "processing"} => Pursued(e)

IInv ==
  /\ TypeOK /\ ActorsOwn /\ OpsFit /\ OneQueuer /\ JobsOwn /\ Unstarted
  /\ Reached /\ OneVerdict /\ Bare /\ NoneForgotten
  /\ CompletedIsDownloadable /\ AuditIsEarned

(***************************************************************************)
(* Types                                                                   *)
(***************************************************************************)

\* The members of the status sets, so that the type proof need not expand them.
LEMMA Members ==
  /\ {"none", "pending", "processing", "completed", "failed", "cancelled",
      "deleted"} \subseteq ExportStatus
  /\ {"none", "pending"} \subseteq RunStatus
  /\ {"none", "create", "schedule", "regenerate", "delete",
      "download"} \subseteq Op
  /\ {"idle", "insert_export", "insert_run", "reset", "pick", "audit",
      "remove", "insert_job", "enqueue", "done"} \subseteq ActorPc
  /\ {"none", "ok", "processing", "locked", "not_completed", "no_file",
      "error"} \subseteq Answer
  /\ {"new", "begin", "audit_started", "store", "insert_file", "complete",
      "audit_completed", "mark_failed", "audit_failed", "return", "throw",
      "returned", "threw", "dead"} \subseteq RunPc
  BY DEF ExportStatus, RunStatus, Op, ActorPc, Answer, RunPc

\* What the operators that several actions share do to the types.
LEMMA GoOnType ==
  ASSUME TypeOK, NEW a \in Actors, NEW from, NEW to \in ActorPc, GoOn(a, from, to)
  PROVE  actor' \in [Actors -> Actor]
  BY DEF GoOn, TypeOK, Actor

LEMMA AnsweredType ==
  ASSUME TypeOK, NEW a \in Actors, NEW x \in Answer, Answered(a, x)
  PROVE  actor' \in [Actors -> Actor]
<1>1. /\ [actor[a] EXCEPT !.pc = "done", !.answer = x, !.seen = "none", !.job = NoJob]
           \in Actor
  BY Members DEF TypeOK, Actor
<1> QED
  BY <1>1 DEF Answered, TypeOK

LEMMA SetExportType ==
  ASSUME TypeOK, NEW e, NEW s \in ExportStatus, NEW l \in {"none", "fresh", "old"},
         SetExport(e, s, l)
  PROVE  exports' \in [Exports -> ExportRow]
<1>1. [status |-> s, lock |-> l] \in ExportRow
  BY DEF ExportRow
<1> QED
  BY <1>1 DEF SetExport, TypeOK

LEMMA AddAuditType ==
  ASSUME TypeOK, NEW e, NEW r \in Processors \cup Actors,
         NEW action \in {"requested", "started", "completed", "failed", "downloaded",
                         "regenerated", "cancelled", "deleted"},
         AddAudit(e, action, r)
  PROVE  audit' \in [Exports -> SUBSET Audit]
<1>1. [action |-> action, by |-> r] \in Audit
  BY DEF Audit
<1>2. audit' = [audit EXCEPT ![e] = audit[e] \cup {[action |-> action, by |-> r]}]
  BY DEF AddAudit
<1> QED
  BY <1>1, <1>2 DEF TypeOK

LEMMA AdvanceType ==
  ASSUME TypeOK, NEW j \in Jobs, NEW n \in RunNo, NEW from, NEW to \in RunPc,
         Advance(j, n, from, to)
  PROVE  run' \in [Jobs -> [RunNo -> RunPc]]
  BY DEF Advance, TypeOK

LEMMA ExportOf ==
  ASSUME JobsOwn, Unstarted, NEW j \in Jobs, NEW n \in RunNo, run[j][n] # "new"
  PROVE  job[j].export \in Exports
  BY DEF JobsOwn, Unstarted

LEMMA TypeStep ==
  ASSUME TypeOK, ActorsOwn, Unstarted, [Next]_vars
  PROVE  TypeOK'
<1>1. ASSUME NEW c \in Clients, RequestExport(c) PROVE TypeOK'
  BY <1>1, Members, Stalls DEF RequestExport, tables, TypeOK, Actor, Actors
<1>2. ASSUME NEW c \in Clients, NEW e \in Exports, Regenerate(c, e) PROVE TypeOK'
  BY <1>2, Members, Stalls DEF Regenerate, tables, TypeOK, Actor, Actors
<1>3. ASSUME NEW c \in Clients, Reset(c) PROVE TypeOK'
  BY <1>3, Members, Stalls DEF Reset, SetExport, Exists, GoOn, tables, TypeOK, Actor, Actors, ExportRow
<1>4. ASSUME NEW c \in Clients, NEW e \in Exports, Delete(c, e) PROVE TypeOK'
  BY <1>4, Members, Stalls DEF Delete, tables, TypeOK, Actor, Actors, ExportRow
<1>5. ASSUME NEW c \in Clients, NEW e \in Exports, Download(c, e) PROVE TypeOK'
  BY <1>5, Members, Stalls DEF Download, tables, TypeOK, Actor, Actors
<1>6. ASSUME NEW c \in Clients, PickFile(c) PROVE TypeOK'
  <2>1. CASE Answered(c, "no_file")
    BY <1>6, <2>1, AnsweredType, Members DEF PickFile, TypeOK, tables, Actors
  <2>2. CASE GoOn(c, "pick", "audit")
    BY <1>6, <2>2, GoOnType, Members DEF PickFile, TypeOK, tables, Actors
  <2> QED
    BY <1>6, <2>1, <2>2 DEF PickFile
<1>7. ASSUME NEW c \in Clients, AuditRequest(c) PROVE TypeOK'
  <2>1. audit' \in [Exports -> SUBSET Audit]
    <3> DEFINE action == CASE actor[c].op = "create"     -> "requested"
                           [] actor[c].op = "regenerate" -> "regenerated"
                           [] actor[c].op = "download"   -> "downloaded"
                           [] actor[c].seen = "processing" -> "cancelled"
                           [] OTHER               -> "deleted"
    <3>1. AddAudit(actor[c].export, action, c)
      BY <1>7 DEF AuditRequest
    <3>2. action \in {"requested", "started", "completed", "failed", "downloaded",
                      "regenerated", "cancelled", "deleted"}
      OBVIOUS
    <3> HIDE DEF action
    <3> QED
      BY <3>1, <3>2, AddAuditType DEF Actors
  <2>2. actor' \in [Actors -> Actor]
    <3>1. \/ Answered(c, "ok") \/ GoOn(c, "audit", "remove") \/ GoOn(c, "audit", "insert_job")
      BY <1>7 DEF AuditRequest
    <3> QED
      BY <3>1, AnsweredType, GoOnType, Members DEF Actors
  <2> QED
    BY <1>7, <2>1, <2>2 DEF AuditRequest, TypeOK
<1>8. ASSUME NEW c \in Clients, Cancel(c) PROVE TypeOK'
  BY <1>8, Members, Stalls DEF Cancel, SetExport, Exists, Answered, tables, TypeOK, ExportRow, Actor, Actors
<1>9. ASSUME NEW c \in Clients, Remove(c) PROVE TypeOK'
  <2>1. actor' \in [Actors -> Actor]
    BY <1>9, AnsweredType, Members DEF Remove, Actors
  <2>2. [status |-> "deleted", lock |-> "none"] \in ExportRow
    BY Members DEF ExportRow
  <2>3. exports' \in [Exports -> ExportRow]
    BY <1>9, <2>2 DEF Remove, TypeOK
  <2> QED
    BY <1>9, <2>1, <2>3 DEF Remove, TypeOK
<1>10. ASSUME NEW t \in Ticks, Tick(t) PROVE TypeOK'
  BY <1>10, Members, Stalls DEF Tick, tables, TypeOK, Actor, Actors
<1>11. ASSUME NEW t \in Ticks, InsertRun(t) PROVE TypeOK'
  <2>1. runs' \in [Exports -> RunStatus]
    BY <1>11, Members DEF InsertRun, TypeOK
  <2>2. actor' \in [Actors -> Actor]
    BY <1>11, Members DEF InsertRun, GoOn, TypeOK, Actor, Actors
  <2> QED
    BY <1>11, <2>1, <2>2 DEF InsertRun, TypeOK
<1>12. ASSUME NEW a \in Actors, NEW e \in Exports, InsertExport(a, e) PROVE TypeOK'
  BY <1>12, Members, Stalls DEF InsertExport, tables, TypeOK, Actor, Actors, ExportRow
<1>13. ASSUME NEW a \in Actors, NEW j \in Jobs, InsertJob(a, j) PROVE TypeOK'
  <2>1. actor[a].export \in Exports \cup {NoExport}
    BY DEF TypeOK, Actor
  <2>2. job' \in [Jobs -> Job]
    BY <1>13, <2>1 DEF InsertJob, TypeOK, Job
  <2>3. actor' \in [Actors -> Actor]
    BY <1>13, Members DEF InsertJob, TypeOK, Actor
  <2> QED
    BY <1>13, <2>2, <2>3 DEF InsertJob, TypeOK, tables
<1>14. ASSUME NEW a \in Actors, Enqueue(a) PROVE TypeOK'
  <2>1. job' \in [Jobs -> Job]
    BY <1>14 DEF Enqueue, TypeOK, Job
  <2>2. actor' \in [Actors -> Actor]
    BY <1>14, AnsweredType, Members DEF Enqueue
  <2> QED
    BY <1>14, <2>1, <2>2 DEF Enqueue, TypeOK, tables
<1>15. ASSUME NEW a \in Actors, ActorFails(a) PROVE TypeOK'
  BY <1>15, AnsweredType, Members DEF ActorFails, TypeOK, tables
<1>16. ASSUME NEW e \in Exports, LockAges(e) PROVE TypeOK'
  BY <1>16, Members, Stalls DEF LockAges, tables, TypeOK, ExportRow
<1>17. ASSUME NEW j \in Jobs, Fetch(j) PROVE TypeOK'
  BY <1>17, Members, Stalls DEF Fetch, tables, TypeOK, Job
<1>18. ASSUME NEW j \in Jobs, Stalled(j) PROVE TypeOK'
  BY <1>18, Members, Stalls DEF Stalled, tables, TypeOK, Job
<1>19. ASSUME NEW j \in Jobs, NEW n \in RunNo, Begin(j, n) PROVE TypeOK'
  BY <1>19, Members, Stalls DEF Begin, SetExport, Exists, Advance, tables, TypeOK, ExportRow
<1>20. ASSUME NEW j \in Jobs, NEW n \in RunNo, AuditStarted(j, n) PROVE TypeOK'
  <2>1. audit' \in [Exports -> SUBSET Audit]
    <3>1. <<j, n>> \in Processors \cup Actors
      BY DEF Processors
    <3> QED
      BY <1>20, <3>1, AddAuditType DEF AuditStarted
  <2> QED
    BY <1>20, <2>1, AdvanceType, Members DEF AuditStarted, TypeOK
<1>21. ASSUME NEW j \in Jobs, NEW n \in RunNo, Store(j, n) PROVE TypeOK'
  BY <1>21, AdvanceType, Members DEF Store, TypeOK, Processors
<1>22. ASSUME NEW j \in Jobs, NEW n \in RunNo, InsertFile(j, n) PROVE TypeOK'
  <2>1. files' \in [Exports -> SUBSET Processors]
    <3>1. <<j, n>> \in Processors
      BY DEF Processors
    <3> QED
      BY <1>22, <3>1 DEF InsertFile, TypeOK
  <2> QED
    BY <1>22, <2>1, AdvanceType, Members DEF InsertFile, TypeOK
<1>23. ASSUME NEW j \in Jobs, NEW n \in RunNo, Complete(j, n) PROVE TypeOK'
  BY <1>23, Members, Stalls DEF Complete, SetExport, Exists, Advance, tables, TypeOK, ExportRow
<1>24. ASSUME NEW j \in Jobs, NEW n \in RunNo, AuditCompleted(j, n) PROVE TypeOK'
  <2>1. audit' \in [Exports -> SUBSET Audit]
    <3>1. <<j, n>> \in Processors \cup Actors
      BY DEF Processors
    <3> QED
      BY <1>24, <3>1, AddAuditType DEF AuditCompleted
  <2> QED
    BY <1>24, <2>1, AdvanceType, Members DEF AuditCompleted, TypeOK
<1>25. ASSUME NEW j \in Jobs, NEW n \in RunNo, ProcessorThrows(j, n) PROVE TypeOK'
  BY <1>25, Members, Stalls DEF ProcessorThrows, tables, TypeOK
<1>26. ASSUME NEW j \in Jobs, NEW n \in RunNo, MarkFailed(j, n) PROVE TypeOK'
  BY <1>26, Members, Stalls DEF MarkFailed, SetExport, Exists, Advance, tables, TypeOK, ExportRow
<1>27. ASSUME NEW j \in Jobs, NEW n \in RunNo, AuditFailed(j, n) PROVE TypeOK'
  <2>1. audit' \in [Exports -> SUBSET Audit]
    <3>1. <<j, n>> \in Processors \cup Actors
      BY DEF Processors
    <3> QED
      BY <1>27, <3>1, AddAuditType DEF AuditFailed
  <2> QED
    BY <1>27, <2>1, AdvanceType, Members DEF AuditFailed, TypeOK
<1>28. ASSUME NEW j \in Jobs, NEW n \in RunNo, HandlerThrows(j, n) PROVE TypeOK'
  BY <1>28, Members, Stalls DEF HandlerThrows, tables, TypeOK
<1>29. ASSUME NEW j \in Jobs, NEW n \in RunNo, Leave(j, n) PROVE TypeOK'
  BY <1>29, Members, Stalls DEF Leave, tables, TypeOK, Job
<1>30. ASSUME NEW j \in Jobs, NEW n \in RunNo, Crash(j, n) PROVE TypeOK'
  BY <1>30, Members, Stalls DEF Crash, Live, tables, TypeOK
<1>31. CASE UNCHANGED vars
  BY <1>31, Members, Stalls DEF vars, TypeOK
<1> QED
  BY <1>1, <1>2, <1>3, <1>4, <1>5, <1>6, <1>7, <1>8, <1>9, <1>10, <1>11, <1>12, <1>13, <1>14, <1>15, <1>16, <1>17, <1>18, <1>19, <1>20, <1>21, <1>22, <1>23, <1>24, <1>25, <1>26, <1>27, <1>28, <1>29, <1>30, <1>31 DEF Next, ClientStep, ActorStep, RunStep

(***************************************************************************)
(* What a step may do to one variable                                      *)
(***************************************************************************)

\* An update of exports changes the status of an existing row.
LEMMA SetExportEffect ==
  ASSUME TypeOK, NEW e, NEW s, NEW l, SetExport(e, s, l), NEW f \in Exports
  PROVE  exports'[f].status = IF f = e /\ Exists(e) THEN s ELSE exports[f].status
  BY DEF SetExport, TypeOK

LEMMA GoOnEffect ==
  ASSUME TypeOK, NEW a \in Actors, NEW from, NEW to, GoOn(a, from, to)
  PROVE  /\ actor[a].pc = from /\ actor'[a].pc = to
         /\ actor'[a].export = actor[a].export /\ actor'[a].op = actor[a].op
         /\ actor'[a].job = actor[a].job /\ actor'[a].answer = actor[a].answer
         /\ \A b \in Actors : b # a => actor'[b] = actor[b]
  BY DEF GoOn, TypeOK, Actor

LEMMA AnsweredEffect ==
  ASSUME TypeOK, NEW a \in Actors, NEW x, Answered(a, x)
  PROVE  /\ actor'[a].pc = "done" /\ actor'[a].answer = x
         /\ actor'[a].export = actor[a].export /\ actor'[a].op = actor[a].op
         /\ \A b \in Actors : b # a => actor'[b] = actor[b]
  BY DEF Answered, TypeOK, Actor

\* Requests, ticks and what is common to them leave the runs alone; of the
\* jobs they insert and queue one.
LEMMA ClientFrame ==
  ASSUME NEW c \in Clients, ClientStep(c)
  PROVE  UNCHANGED <<stored, runs, job, run>>
  BY DEF ClientStep, RequestExport, Reset, PickFile, AuditRequest, Cancel, Remove,
         Regenerate, Delete, Download, tables

LEMMA TickFrame ==
  ASSUME NEW t \in Ticks, Tick(t) \/ InsertRun(t)
  PROVE  UNCHANGED <<exports, files, stored, audit, job, run>>
  BY DEF Tick, InsertRun, tables

\* A step of a run advances a run that was started, and no other.
LEMMA RunFrame ==
  ASSUME TypeOK, NEW j \in Jobs, NEW n \in RunNo, RunStep(j, n) \/ Crash(j, n)
  PROVE  /\ UNCHANGED <<runs, actor>>
         /\ run[j][n] \notin {"new", "returned", "threw", "dead"}
         /\ run'[j][n] \notin {"new", "begin"}
         /\ \A i \in Jobs, m \in RunNo : <<i, m>> # <<j, n>> => run'[i][m] = run[i][m]
         /\ Leave(j, n) \/ UNCHANGED job
<1>1. CASE Leave(j, n)
  BY <1>1 DEF Leave, tables, TypeOK
<1>2. CASE Crash(j, n)
  BY <1>2 DEF Crash, Live, Over, tables, TypeOK
<1>3. CASE Begin(j, n) \/ AuditStarted(j, n) \/ Store(j, n) \/ InsertFile(j, n)
  BY <1>3 DEF Begin, AuditStarted, Store, InsertFile, Advance, TypeOK
<1>4. CASE Complete(j, n) \/ AuditCompleted(j, n) \/ MarkFailed(j, n) \/ AuditFailed(j, n)
  BY <1>4 DEF Complete, AuditCompleted, MarkFailed, AuditFailed, Advance, TypeOK
<1>5. CASE ProcessorThrows(j, n) \/ HandlerThrows(j, n)
  BY <1>5 DEF ProcessorThrows, HandlerThrows, InProcessor, tables, TypeOK
<1> QED
  BY <1>1, <1>2, <1>3, <1>4, <1>5 DEF RunStep

LEMMA LeaveEffect ==
  ASSUME TypeOK, NEW j \in Jobs, NEW n \in RunNo, Leave(j, n), NEW i \in Jobs
  PROVE  /\ job'[i].export = job[i].export /\ job'[i].stalls = job[i].stalls
         /\ \/ job'[i].state = job[i].state
            \/ job[i].state = "active" /\ job'[i].state = "ended"
         /\ UNCHANGED <<exports, files, stored, audit, runs, actor>>
  BY DEF Leave, TypeOK, Job, tables

\* No step turns an export's row back into none, nor brings a deleted one back.
LEMMA StatusKept ==
  ASSUME TypeOK, [Next]_vars, NEW e \in Exports
  PROVE  /\ exports[e].status # "none" => exports'[e].status # "none"
         /\ exports[e].status = "deleted" => exports'[e].status = "deleted"
         /\ \/ exports[e].status \in {"none", "deleted"} <=> exports'[e].status \in {"none", "deleted"}
            \/ \E a \in Actors : InsertExport(a, e)
            \/ exports'[e].status = "deleted"
<1> DEFINE Goal == /\ exports[e].status # "none" => exports'[e].status # "none"
                   /\ exports[e].status = "deleted" => exports'[e].status = "deleted"
                   /\ \/ exports[e].status \in {"none", "deleted"}
                         <=> exports'[e].status \in {"none", "deleted"}
                      \/ \E a \in Actors : InsertExport(a, e)
                      \/ exports'[e].status = "deleted"
<1>1. CASE UNCHANGED exports
  BY <1>1
<1>2. ASSUME NEW c \in Clients, ClientStep(c) PROVE Goal
  <2>1. CASE Reset(c)
    BY <2>1, SetExportEffect DEF Reset, Exists
  <2>2. CASE Cancel(c)
    BY <2>2, SetExportEffect DEF Cancel, Exists
  <2>3. CASE Remove(c)
    BY <2>3 DEF Remove, TypeOK
  <2>4. CASE RequestExport(c) \/ PickFile(c) \/ AuditRequest(c)
    BY <2>4 DEF RequestExport, PickFile, AuditRequest, tables
  <2>5. ASSUME NEW f \in Exports, Regenerate(c, f) \/ Delete(c, f) \/ Download(c, f)
        PROVE  Goal
    BY <2>5 DEF Regenerate, Delete, Download, tables
  <2> QED
    BY <1>2, <2>1, <2>2, <2>3, <2>4, <2>5 DEF ClientStep
<1>3. ASSUME NEW a \in Actors, ActorStep(a) PROVE Goal
  <2>1. ASSUME NEW f \in Exports, InsertExport(a, f) PROVE Goal
    BY <2>1 DEF InsertExport, TypeOK, ExportRow
  <2>2. ASSUME NEW j \in Jobs, InsertJob(a, j) PROVE Goal
    BY <2>2 DEF InsertJob, tables
  <2> QED
    BY <1>3, <2>1, <2>2 DEF ActorStep, Enqueue, ActorFails, tables
<1>4. ASSUME NEW f \in Exports, LockAges(f) PROVE Goal
  BY <1>4 DEF LockAges, TypeOK, ExportRow
<1>5. ASSUME NEW j \in Jobs, Fetch(j) \/ Stalled(j) PROVE Goal
  BY <1>5 DEF Fetch, Stalled, tables
<1>6. ASSUME NEW j \in Jobs, NEW n \in RunNo, RunStep(j, n) PROVE Goal
  <2>1. CASE Begin(j, n) \/ Complete(j, n) \/ MarkFailed(j, n)
    BY <2>1, SetExportEffect DEF Begin, Complete, MarkFailed, Exists
  <2> QED
    BY <1>6, <2>1 DEF RunStep, AuditStarted, Store, InsertFile, AuditCompleted,
       ProcessorThrows, AuditFailed, HandlerThrows, Leave, tables
<1>7. ASSUME NEW j \in Jobs, NEW n \in RunNo, Crash(j, n) PROVE Goal
  BY <1>7 DEF Crash, tables
<1> QED
  BY <1>1, <1>2, <1>3, <1>4, <1>5, <1>6, <1>7, TickFrame DEF Next, vars

\* A job's export is set once, before the job is queued.
LEMMA ExportKept ==
  ASSUME TypeOK, Unstarted, ActorsOwn, JobsOwn, [Next]_vars, NEW j \in Jobs,
         job[j].export \in Exports
  PROVE  job'[j].export = job[j].export
<1>1. ASSUME NEW a \in Actors, NEW i \in Jobs, InsertJob(a, i)
      PROVE  job'[j].export = job[j].export
  BY <1>1, Absent DEF InsertJob, TypeOK, Job
<1>2. ASSUME NEW a \in Actors, Enqueue(a) PROVE job'[j].export = job[j].export
  BY <1>2 DEF Enqueue, TypeOK, Job
<1>3. ASSUME NEW i \in Jobs, Fetch(i) \/ Stalled(i) PROVE job'[j].export = job[j].export
  <2>1. CASE Fetch(i)
    BY <2>1 DEF Fetch, TypeOK, Job
  <2>2. CASE Stalled(i)
    BY <2>2 DEF Stalled, TypeOK, Job
  <2> QED
    BY <1>3, <2>1, <2>2
<1>4. ASSUME NEW i \in Jobs, NEW n \in RunNo, RunStep(i, n) \/ Crash(i, n)
      PROVE  job'[j].export = job[j].export
  BY <1>4, RunFrame, LeaveEffect
<1>5. ASSUME NEW a \in Actors, NEW e \in Exports, InsertExport(a, e)
      PROVE  job'[j].export = job[j].export
  BY <1>5 DEF InsertExport
<1>6. ASSUME NEW a \in Actors, ActorFails(a) PROVE job'[j].export = job[j].export
  BY <1>6 DEF ActorFails
<1> QED
  BY <1>1, <1>2, <1>3, <1>4, <1>5, <1>6, ClientFrame, TickFrame
  DEF Next, ActorStep, LockAges, vars

(***************************************************************************)
(* The inductive invariant, part by part                                   *)
(***************************************************************************)

LEMMA ActorsOwnStep ==
  ASSUME TypeOK, ActorsOwn, OneQueuer, JobsOwn, Unstarted, [Next]_vars
  PROVE  ActorsOwn'
<1> DEFINE Own(a) ==
      /\ actor[a].pc \in {"insert_run", "reset", "pick", "audit", "remove",
                          "insert_job", "enqueue"} => actor[a].export \in Exports
      /\ actor[a].export \in Exports => exports[actor[a].export].status # "none"
      /\ actor[a].pc = "enqueue" => /\ actor[a].job \in Jobs
                                    /\ job[actor[a].job].export = actor[a].export
                                    /\ job[actor[a].job].state = "none"
<1>1. \A e \in Exports : exports[e].status # "none" => exports'[e].status # "none"
  BY StatusKept
<1>2. ASSUME NEW a \in Actors, actor'[a] = actor[a],
             actor[a].pc = "enqueue" => job'[actor[a].job] = job[actor[a].job]
      PROVE  Own(a)'
  BY <1>1, <1>2 DEF ActorsOwn
<1>3. ASSUME NEW c \in Clients, ClientStep(c), NEW a \in Actors PROVE Own(a)'
  <2>0. c \in Actors /\ UNCHANGED job
    BY <1>3, ClientFrame DEF Actors
  <2>1. CASE a # c
    <3>1. actor'[a] = actor[a]
      BY <1>3, <2>1 DEF ClientStep, RequestExport, Reset, PickFile, AuditRequest, Cancel,
         Remove, Regenerate, Delete, Download, GoOn, Answered, TypeOK
    <3> QED
      BY <3>1, <2>0, <1>2
  <2>2. CASE a = c /\ RequestExport(c)
    BY <1>1, <2>0, <2>2 DEF RequestExport, TypeOK, Actor, ActorsOwn
  <2>3. CASE a = c /\ (Reset(c) \/ PickFile(c) \/ AuditRequest(c))
    BY <1>1, <2>0, <2>3, GoOnEffect, AnsweredEffect DEF Reset, PickFile, AuditRequest, ActorsOwn
  <2>4. CASE a = c /\ (Cancel(c) \/ Remove(c))
    BY <1>1, <2>0, <2>4, AnsweredEffect DEF Cancel, Remove, ActorsOwn
  <2>5. ASSUME NEW e \in Exports, a = c, Regenerate(c, e) \/ Delete(c, e) \/ Download(c, e)
        PROVE  Own(a)'
    <3>1. exports[e].status # "none"
      BY <2>5 DEF Regenerate, Delete, Download, Exists
    <3>2. actor'[a].export = e /\ actor'[a].pc # "enqueue"
      BY <2>5, <2>0 DEF Regenerate, Delete, Download, TypeOK, Actor
    <3> QED
      BY <3>1, <3>2, <1>1
  <2> QED
    BY <1>3, <2>1, <2>2, <2>3, <2>4, <2>5 DEF ClientStep
<1>4. ASSUME NEW t \in Ticks, Tick(t) \/ InsertRun(t), NEW a \in Actors PROVE Own(a)'
  <2>0. t \in Actors /\ UNCHANGED job
    BY <1>4, TickFrame DEF Actors
  <2>1. CASE a # t
    BY <1>4, <1>2, <2>0, <2>1 DEF Tick, InsertRun, GoOn, TypeOK
  <2>2. CASE a = t /\ Tick(t)
    BY <1>1, <2>0, <2>2 DEF Tick, TypeOK, Actor, ActorsOwn
  <2>3. CASE a = t /\ InsertRun(t)
    BY <1>1, <2>0, <2>3, GoOnEffect DEF InsertRun, ActorsOwn
  <2> QED
    BY <1>4, <2>1, <2>2, <2>3
<1>5. ASSUME NEW b \in Actors, NEW e \in Exports, InsertExport(b, e), NEW a \in Actors
      PROVE  Own(a)'
  <2>1. CASE a # b
    BY <1>5, <1>2, <2>1 DEF InsertExport, TypeOK
  <2>2. CASE a = b
    <3>1. actor'[a].export = e /\ actor'[a].pc \in {"audit", "insert_run"}
      BY <1>5, <2>2 DEF InsertExport, TypeOK, Actor
    <3>2. exports'[e].status = "pending"
      BY <1>5 DEF InsertExport, TypeOK, ExportRow
    <3> QED
      BY <3>1, <3>2
  <2> QED
    BY <2>1, <2>2
<1>6. ASSUME NEW b \in Actors, NEW j \in Jobs, InsertJob(b, j), NEW a \in Actors
      PROVE  Own(a)'
  <2>1. CASE a # b
    <3>1. actor[a].pc = "enqueue" => actor[a].job # j
      BY <1>6, Absent DEF InsertJob, ActorsOwn
    <3> QED
      BY <1>6, <1>2, <2>1, <3>1 DEF InsertJob, TypeOK
  <2>2. CASE a = b
    <3>1. /\ actor'[a].export = actor[a].export /\ actor[a].export \in Exports
          /\ actor'[a].job = j
      BY <1>6, <2>2 DEF InsertJob, TypeOK, Actor, ActorsOwn
    <3>2. job'[j].export = actor[a].export /\ job'[j].state = "none"
      BY <1>6, <2>2, Absent DEF InsertJob, TypeOK, Job, JobsOwn
    <3> QED
      BY <3>1, <3>2, <1>1, <1>6 DEF ActorsOwn
  <2> QED
    BY <2>1, <2>2
<1>7. ASSUME NEW b \in Actors, Enqueue(b), NEW a \in Actors PROVE Own(a)'
  <2>1. CASE a # b
    <3>1. actor[a].pc = "enqueue" => actor[a].job # actor[b].job
      BY <1>7, <2>1 DEF Enqueue, OneQueuer
    <3>2. actor'[a] = actor[a]
      BY <1>7, <2>1, AnsweredEffect DEF Enqueue
    <3> QED
      BY <1>7, <1>2, <3>1, <3>2 DEF Enqueue, TypeOK, ActorsOwn
  <2>2. CASE a = b
    BY <1>1, <1>7, <2>2, AnsweredEffect DEF Enqueue, ActorsOwn
  <2> QED
    BY <2>1, <2>2
<1>8. ASSUME NEW b \in Actors, ActorFails(b), NEW a \in Actors PROVE Own(a)'
  BY <1>1, <1>2, <1>8, AnsweredEffect DEF ActorFails, ActorsOwn
<1>9. ASSUME NEW j \in Jobs, Fetch(j) \/ Stalled(j), NEW a \in Actors PROVE Own(a)'
  <2>1. job[j].state \in {"waiting", "active"} /\ UNCHANGED actor
    BY <1>9 DEF Fetch, Stalled
  <2>2. ASSUME NEW i \in Jobs, i # j PROVE job'[i] = job[i]
    BY <1>9, <2>2 DEF Fetch, Stalled, TypeOK
  <2> QED
    BY <1>2, <2>1, <2>2 DEF ActorsOwn
<1>10. ASSUME NEW j \in Jobs, NEW n \in RunNo, RunStep(j, n) \/ Crash(j, n),
              NEW a \in Actors
       PROVE  Own(a)'
  BY <1>1, <1>10, RunFrame, LeaveEffect DEF ActorsOwn
<1>11. ASSUME UNCHANGED <<actor, job>>, NEW a \in Actors PROVE Own(a)'
  BY <1>2, <1>11
<1> QED
  <2> SUFFICES ASSUME NEW a \in Actors PROVE Own(a)'
    BY DEF ActorsOwn
  <2> QED
    BY <1>3, <1>4, <1>5, <1>6, <1>7, <1>8, <1>9, <1>10, <1>11
    DEF Next, ActorStep, LockAges, vars

LEMMA OneQueuerStep ==
  ASSUME TypeOK, ActorsOwn, OneQueuer, [Next]_vars
  PROVE  OneQueuer'
<1>1. ASSUME NEW a \in Actors, actor'[a].pc = "enqueue"
      PROVE  \/ actor'[a] = actor[a]
             \/ \E j \in Jobs : /\ job[j].export = NoExport /\ actor'[a].job = j
                                /\ \A b \in Actors : b # a => actor'[b] = actor[b]
  <2>1. ASSUME NEW c \in Clients, ClientStep(c) PROVE actor'[a] = actor[a]
    <3>1. CASE RequestExport(c)
      BY <3>1, <1>1 DEF RequestExport, TypeOK, Actor, Actors
    <3>2. CASE Reset(c) \/ PickFile(c) \/ AuditRequest(c) \/ Cancel(c) \/ Remove(c)
      BY <3>2, <1>1, GoOnEffect, AnsweredEffect
      DEF Reset, PickFile, AuditRequest, Cancel, Remove, Actors
    <3>3. ASSUME NEW e \in Exports, Regenerate(c, e) \/ Delete(c, e) \/ Download(c, e)
          PROVE  actor'[a] = actor[a]
      BY <3>3, <1>1 DEF Regenerate, Delete, Download, TypeOK, Actor, Actors
    <3> QED
      BY <2>1, <3>1, <3>2, <3>3 DEF ClientStep
  <2>2. ASSUME NEW t \in Ticks, Tick(t) \/ InsertRun(t) PROVE actor'[a] = actor[a]
    <3>1. CASE Tick(t)
      BY <3>1, <1>1 DEF Tick, TypeOK, Actor, Actors
    <3>2. CASE InsertRun(t)
      BY <3>2, <1>1, GoOnEffect DEF InsertRun, Actors
    <3> QED
      BY <2>2, <3>1, <3>2
  <2>3. ASSUME NEW b \in Actors, NEW e \in Exports, InsertExport(b, e)
        PROVE  actor'[a] = actor[a]
    BY <2>3, <1>1 DEF InsertExport, TypeOK, Actor
  <2>4. ASSUME NEW b \in Actors, NEW j \in Jobs, InsertJob(b, j), a = b
        PROVE  /\ job[j].export = NoExport /\ actor'[a].job = j
               /\ \A d \in Actors : d # a => actor'[d] = actor[d]
    BY <2>4 DEF InsertJob, TypeOK, Actor
  <2>5. ASSUME NEW b \in Actors, NEW j \in Jobs, InsertJob(b, j), a # b
        PROVE  actor'[a] = actor[a]
    BY <2>5 DEF InsertJob, TypeOK
  <2>6. ASSUME NEW b \in Actors, Enqueue(b) \/ ActorFails(b) PROVE actor'[a] = actor[a]
    BY <2>6, <1>1, AnsweredEffect DEF Enqueue, ActorFails
  <2>7. ASSUME NEW j \in Jobs, NEW n \in RunNo, RunStep(j, n) \/ Crash(j, n)
        PROVE  actor'[a] = actor[a]
    BY <2>7, RunFrame
  <2> QED
    BY <2>1, <2>2, <2>3, <2>4, <2>5, <2>6, <2>7
    DEF Next, ActorStep, LockAges, Fetch, Stalled, vars
<1> QED
  BY <1>1, Absent DEF OneQueuer, ActorsOwn

LEMMA JobsOwnStep ==
  ASSUME TypeOK, ActorsOwn, JobsOwn, Unstarted, [Next]_vars
  PROVE  JobsOwn'
<1>1. \A e \in Exports : exports[e].status # "none" => exports'[e].status # "none"
  BY StatusKept
<1>2. \A j \in Jobs : job[j].export \in Exports => job'[j].export = job[j].export
  BY ExportKept
<1>3. ASSUME NEW b \in Actors, NEW j \in Jobs, InsertJob(b, j) PROVE JobsOwn'
  <2>1. actor[b].export \in Exports
    BY <1>3 DEF InsertJob, ActorsOwn
  <2>2. /\ job'[j].export = actor[b].export
        /\ \A i \in Jobs : i # j => job'[i] = job[i]
    BY <1>3 DEF InsertJob, TypeOK, Job
  <2> QED
    BY <1>1, <2>1, <2>2 DEF JobsOwn, ActorsOwn
<1>4. ASSUME NEW b \in Actors, Enqueue(b) PROVE JobsOwn'
  <2>1. /\ actor[b].job \in Jobs /\ job[actor[b].job].export \in Exports
        /\ \A i \in Jobs : i # actor[b].job => job'[i] = job[i]
    BY <1>4 DEF Enqueue, ActorsOwn, TypeOK
  <2>2. \A i \in Jobs : job'[i].export = job[i].export
    BY <1>4 DEF Enqueue, TypeOK, Job
  <2> QED
    BY <1>1, <2>1, <2>2 DEF JobsOwn
<1>5. ASSUME NEW j \in Jobs, Fetch(j) \/ Stalled(j) PROVE JobsOwn'
  <2>1. job[j].state # "none"
    BY <1>5 DEF Fetch, Stalled
  <2>2. \A i \in Jobs : i # j => job'[i] = job[i]
    BY <1>5 DEF Fetch, Stalled, TypeOK
  <2> QED
    BY <1>1, <1>2, <2>1, <2>2 DEF JobsOwn
<1>6. ASSUME NEW j \in Jobs, NEW n \in RunNo, RunStep(j, n) \/ Crash(j, n) PROVE JobsOwn'
  BY <1>1, <1>6, RunFrame, LeaveEffect DEF JobsOwn
<1>7. CASE UNCHANGED job
  BY <1>1, <1>7 DEF JobsOwn
<1> QED
  BY <1>3, <1>4, <1>5, <1>6, <1>7, ClientFrame, TickFrame
  DEF Next, ActorStep, InsertExport, ActorFails, LockAges, vars

LEMMA UnstartedStep ==
  ASSUME TypeOK, ActorsOwn, Unstarted, [Next]_vars
  PROVE  Unstarted'
<1> USE Stalls DEF RunNo
<1>1. CASE UNCHANGED <<job, run>>
  BY <1>1 DEF Unstarted
<1>2. ASSUME NEW a \in Actors, NEW j \in Jobs, InsertJob(a, j) PROVE Unstarted'
  <2>1. \A i \in Jobs : job'[i].state = job[i].state /\ job'[i].stalls = job[i].stalls
    BY <1>2 DEF InsertJob, TypeOK, Job
  <2> QED
    BY <1>2, <2>1 DEF InsertJob, Unstarted, tables
<1>3. ASSUME NEW a \in Actors, Enqueue(a) PROVE Unstarted'
  <2> DEFINE j == actor[a].job
  <2>1. j \in Jobs /\ job[j].state = "none"
    BY <1>3 DEF Enqueue, ActorsOwn
  <2>2. /\ job'[j].state = "waiting" /\ job'[j].stalls = job[j].stalls
        /\ \A i \in Jobs : i # j => job'[i] = job[i]
    BY <1>3, <2>1 DEF Enqueue, TypeOK, Job
  <2>3. UNCHANGED run
    BY <1>3 DEF Enqueue, tables
  <2> QED
    BY <2>1, <2>2, <2>3 DEF Unstarted
<1>4. ASSUME NEW j \in Jobs, Fetch(j) PROVE Unstarted'
  <2>1. /\ job[j].state = "waiting" /\ job'[j].state = "active"
        /\ job'[j].stalls = job[j].stalls
        /\ \A i \in Jobs : i # j => job'[i] = job[i]
    BY <1>4 DEF Fetch, TypeOK, Job
  <2>2. /\ \A i \in Jobs : i # j => run'[i] = run[i]
        /\ \A n \in RunNo : n # job[j].stalls + 1 => run'[j][n] = run[j][n]
    BY <1>4 DEF Fetch, TypeOK
  <2>3. job[j].stalls \in Int
    BY DEF TypeOK, Job
  <2> QED
    BY <2>1, <2>2, <2>3 DEF Unstarted
<1>5. ASSUME NEW j \in Jobs, Stalled(j) PROVE Unstarted'
  <2>1. job[j].stalls \in Int /\ job[j].state = "active"
    BY <1>5 DEF Stalled, TypeOK, Job
  <2>2. /\ job'[j].state = IF job[j].stalls < MaxStalls THEN "waiting" ELSE "failed"
        /\ job'[j].stalls = job[j].stalls + 1
        /\ \A i \in Jobs : i # j => job'[i] = job[i]
        /\ UNCHANGED run
    BY <1>5 DEF Stalled, TypeOK, Job
  <2> QED
    BY <2>1, <2>2 DEF Unstarted
<1>6. ASSUME NEW j \in Jobs, NEW n \in RunNo, RunStep(j, n) \/ Crash(j, n) PROVE Unstarted'
  <2>1. ASSUME NEW i \in Jobs
        PROVE  /\ job'[i].stalls = job[i].stalls
               /\ \/ job'[i].state = job[i].state
                  \/ job[i].state = "active" /\ job'[i].state = "ended"
    BY <1>6, RunFrame, LeaveEffect
  <2>2. ASSUME NEW i \in Jobs, NEW m \in RunNo
        PROVE  run[i][m] = "new" <=> run'[i][m] = "new"
    BY <1>6, RunFrame
  <2> QED
    BY <2>1, <2>2 DEF Unstarted
<1> QED
  BY <1>1, <1>2, <1>3, <1>4, <1>5, <1>6, ClientFrame, TickFrame
  DEF Next, ActorStep, InsertExport, ActorFails, LockAges, vars, tables

(***************************************************************************)
(* What a run has done                                                     *)
(***************************************************************************)
LEMMA AddAuditEffect ==
  ASSUME TypeOK, NEW e, NEW action, NEW by, AddAudit(e, action, by),
         NEW f \in Exports, NEW a, NEW r
  PROVE  /\ Exists(e)
         /\ Did(f, a, r)' <=> Did(f, a, r) \/ (f = e /\ a = action /\ r = by)
<1>1. audit'[f] = IF f = e THEN audit[f] \cup {[action |-> action, by |-> by]}
                           ELSE audit[f]
  BY DEF AddAudit, TypeOK
<1>2. [action |-> a, by |-> r] = [action |-> action, by |-> by] <=> a = action /\ r = by
  OBVIOUS
<1> QED
  BY <1>1, <1>2 DEF Did, AddAudit

\* A run moves when it is fetched, by a step of its own, or by a crash.
LEMMA RunMoves ==
  ASSUME TypeOK, Unstarted, [Next]_vars, NEW j \in Jobs, NEW n \in RunNo
  PROVE  \/ run'[j][n] = run[j][n]
         \/ Fetch(j) /\ run[j][n] = "new" /\ run'[j][n] = "begin"
         \/ RunStep(j, n)
         \/ Crash(j, n) /\ run'[j][n] = "dead"
<1>1. ASSUME NEW i \in Jobs, Fetch(i)
      PROVE  \/ run'[j][n] = run[j][n]
             \/ Fetch(j) /\ run[j][n] = "new" /\ run'[j][n] = "begin"
  <2>1. job[i].stalls \in Int
    BY DEF TypeOK, Job
  <2>2. job[i].stalls + 1 \in RunNo /\ run[i][job[i].stalls + 1] = "new"
    BY <1>1, <2>1, Stalls DEF Fetch, TypeOK, Job, Unstarted, RunNo
  <2>3. /\ run'[i][job[i].stalls + 1] = "begin"
        /\ j # i \/ n # job[i].stalls + 1 => run'[j][n] = run[j][n]
    BY <1>1, <2>2 DEF Fetch, TypeOK
  <2>4. CASE j = i /\ n = job[i].stalls + 1
    BY <1>1, <2>2, <2>3, <2>4
  <2> QED
    BY <2>3, <2>4
<1>2. ASSUME NEW i \in Jobs, NEW m \in RunNo, RunStep(i, m) \/ Crash(i, m)
      PROVE  run'[j][n] = run[j][n] \/ RunStep(j, n) \/ Crash(j, n)
  BY <1>2, RunFrame
<1>3. Crash(j, n) => run'[j][n] = "dead"
  BY DEF Crash, TypeOK
<1> QED
  BY <1>1, <1>2, <1>3, ClientFrame, TickFrame
  DEF Next, ActorStep, InsertExport, InsertJob, Enqueue, ActorFails, LockAges, Stalled,
      vars, tables

\* A file is inserted by the run that has just put its object, for an export
\* that exists, and goes only with the export.
LEMMA FilesChange ==
  ASSUME TypeOK, ActorsOwn, [Next]_vars, NEW e \in Exports, NEW r
  PROVE  /\ r \in files'[e] /\ r \notin files[e] =>
              /\ Exists(e)
              /\ \E j \in Jobs, n \in RunNo :
                   r = <<j, n>> /\ e = job[j].export /\ InsertFile(j, n)
         /\ r \in files[e] => r \in files'[e] \/ ~Exists(e)'
<1>1. CASE UNCHANGED files
  BY <1>1
<1>2. ASSUME NEW c \in Clients, ClientStep(c)
      PROVE  files'[e] = files[e] \/ (files'[e] = {} /\ ~Exists(e)')
  <2>1. CASE Remove(c)
    <3>1. CASE e = actor[c].export
      BY <2>1, <3>1 DEF Remove, Exists, TypeOK
    <3>2. CASE e # actor[c].export
      <4>1. files' = [files EXCEPT ![actor[c].export] = {}]
        BY <2>1 DEF Remove
      <4> QED
        BY <3>2, <4>1 DEF TypeOK
    <3> QED
      BY <3>1, <3>2
  <2>2. CASE AuditRequest(c)
    BY <2>2 DEF AuditRequest
  <2> QED
    BY <1>2, <2>1, <2>2 DEF ClientStep, RequestExport, Reset, PickFile, Cancel,
       Regenerate, Delete, Download, tables
<1>3. ASSUME NEW j \in Jobs, NEW n \in RunNo, InsertFile(j, n)
      PROVE  /\ r \in files[e] => r \in files'[e]
             /\ r \in files'[e] /\ r \notin files[e] =>
                  Exists(e) /\ r = <<j, n>> /\ e = job[j].export
  BY <1>3 DEF InsertFile, TypeOK
<1>4. ASSUME NEW j \in Jobs, NEW n \in RunNo, RunStep(j, n)
      PROVE  InsertFile(j, n) \/ UNCHANGED files
  BY <1>4 DEF RunStep, Begin, AuditStarted, Store, Complete, AuditCompleted,
     ProcessorThrows, MarkFailed, AuditFailed, HandlerThrows, Leave, tables
<1> QED
  BY <1>1, <1>2, <1>3, <1>4, TickFrame
  DEF Next, ActorStep, InsertExport, InsertJob, Enqueue, ActorFails, LockAges, Fetch,
      Stalled, Crash, vars, tables

\* The rows of the audit trail that runs write, and what goes with the export.
LEMMA AuditChanges ==
  ASSUME TypeOK, ActorsOwn, [Next]_vars, NEW e \in Exports, NEW r,
         NEW action \in {"started", "completed", "failed"}
  PROVE  /\ Did(e, action, r)' /\ ~Did(e, action, r) =>
              /\ Exists(e)
              /\ \E j \in Jobs, n \in RunNo :
                   /\ r = <<j, n>> /\ e = job[j].export
                   /\ \/ action = "started" /\ AuditStarted(j, n)
                      \/ action = "completed" /\ AuditCompleted(j, n)
                      \/ action = "failed" /\ AuditFailed(j, n)
         /\ Did(e, action, r) => Did(e, action, r)' \/ ~Exists(e)'
<1> DEFINE Wrote == \E j \in Jobs, n \in RunNo :
                      /\ r = <<j, n>> /\ e = job[j].export
                      /\ \/ action = "started" /\ AuditStarted(j, n)
                         \/ action = "completed" /\ AuditCompleted(j, n)
                         \/ action = "failed" /\ AuditFailed(j, n)
           Goal == /\ Did(e, action, r)' /\ ~Did(e, action, r) => Exists(e) /\ Wrote
                   /\ Did(e, action, r) => Did(e, action, r)' \/ ~Exists(e)'
<1>1. CASE UNCHANGED audit
  BY <1>1 DEF Did
<1>2. ASSUME NEW c \in Clients, ClientStep(c)
      PROVE  \/ Did(e, action, r)' <=> Did(e, action, r)
             \/ ~Did(e, action, r)' /\ ~Exists(e)'
  <2>1. CASE Remove(c)
    <3>1. CASE e = actor[c].export
      BY <2>1, <3>1 DEF Remove, Exists, TypeOK, Did
    <3>2. CASE e # actor[c].export
      BY <2>1, <3>2 DEF Remove, TypeOK, Did
    <3> QED
      BY <3>1, <3>2
  <2>2. CASE AuditRequest(c)
    <3>1. PICK x : AddAudit(actor[c].export, x, c) /\ x \notin {"started", "completed", "failed"}
      BY <2>2 DEF AuditRequest
    <3> QED
      BY <3>1, AddAuditEffect
  <2> QED
    BY <1>2, <2>1, <2>2 DEF ClientStep, RequestExport, Reset, PickFile, Cancel,
       Regenerate, Delete, Download, tables, Did
<1>3. ASSUME NEW j \in Jobs, NEW n \in RunNo, NEW x, AddAudit(job[j].export, x, <<j, n>>)
      PROVE  /\ Did(e, action, r) => Did(e, action, r)'
             /\ Did(e, action, r)' /\ ~Did(e, action, r) =>
                  Exists(e) /\ r = <<j, n>> /\ e = job[j].export /\ x = action
  BY <1>3, AddAuditEffect
<1>4. ASSUME NEW j \in Jobs, NEW n \in RunNo, RunStep(j, n)
      PROVE  \/ AuditStarted(j, n) /\ AddAudit(job[j].export, "started", <<j, n>>)
             \/ AuditCompleted(j, n) /\ AddAudit(job[j].export, "completed", <<j, n>>)
             \/ AuditFailed(j, n) /\ AddAudit(job[j].export, "failed", <<j, n>>)
             \/ UNCHANGED audit
  BY <1>4 DEF RunStep, Begin, AuditStarted, Store, InsertFile, Complete, AuditCompleted,
     ProcessorThrows, MarkFailed, AuditFailed, HandlerThrows, Leave, tables
<1>5. \/ UNCHANGED audit
      \/ \E c \in Clients : ClientStep(c)
      \/ \E j \in Jobs, n \in RunNo : RunStep(j, n)
  BY TickFrame
  DEF Next, ActorStep, InsertExport, InsertJob, Enqueue, ActorFails, LockAges, Fetch,
      Stalled, Crash, vars, tables
<1>6. ASSUME NEW j \in Jobs, NEW n \in RunNo, RunStep(j, n) PROVE Goal
  <2>1. CASE AuditStarted(j, n) /\ AddAudit(job[j].export, "started", <<j, n>>)
    BY <1>3, <2>1
  <2>2. CASE AuditCompleted(j, n) /\ AddAudit(job[j].export, "completed", <<j, n>>)
    BY <1>3, <2>2
  <2>3. CASE AuditFailed(j, n) /\ AddAudit(job[j].export, "failed", <<j, n>>)
    BY <1>3, <2>3
  <2> QED
    BY <1>1, <1>4, <1>6, <2>1, <2>2, <2>3
<1> QED
  <2>1. Goal
    BY <1>1, <1>2, <1>5, <1>6
  <2> QED
    BY <2>1

\* Objects are never taken out of the bucket.
LEMMA StoredKept ==
  ASSUME [Next]_vars
  PROVE  stored \subseteq stored'
<1>1. ASSUME NEW j \in Jobs, NEW n \in RunNo, RunStep(j, n) PROVE stored \subseteq stored'
  BY <1>1 DEF RunStep, Begin, AuditStarted, Store, InsertFile, Complete, AuditCompleted,
     ProcessorThrows, MarkFailed, AuditFailed, HandlerThrows, Leave, tables
<1> QED
  BY <1>1, ClientFrame, TickFrame
  DEF Next, ActorStep, InsertExport, InsertJob, Enqueue, ActorFails, LockAges, Fetch,
      Stalled, Crash, vars, tables

\* The export of a job cannot come into being again.
LEMMA JobExists ==
  ASSUME TypeOK, JobsOwn, [Next]_vars, NEW j \in Jobs, NEW e \in Exports,
         e = job[j].export, Exists(e)'
  PROVE  Exists(e)
<1>1. exports[e].status # "none"
  BY DEF JobsOwn
<1>2. ASSUME NEW a \in Actors, InsertExport(a, e) PROVE FALSE
  BY <1>1, <1>2 DEF InsertExport
<1> QED
  BY <1>2, StatusKept DEF Exists

LEMMA ReachedStep ==
  ASSUME TypeOK, ActorsOwn, JobsOwn, Unstarted, Reached, [Next]_vars
  PROVE  Reached'
<1> SUFFICES ASSUME NEW j \in Jobs, NEW n \in RunNo
             PROVE  /\ run'[j][n] = "insert_file" => <<j, n>> \in stored'
                    /\ run'[j][n] \in {"store", "insert_file"} /\ Exists(job[j].export)' =>
                         Did(job[j].export, "started", <<j, n>>)'
                    /\ run'[j][n] \in {"complete", "audit_completed"} /\ Exists(job[j].export)' =>
                         <<j, n>> \in files'[job'[j].export]
  BY DEF Reached
<1> DEFINE e == job[j].export
           r == <<j, n>>
<1>1. CASE run'[j][n] = "new" \/ run'[j][n] = "begin"
  BY <1>1
<1>2. CASE run[j][n] # "new"
  <2>1. e \in Exports /\ job'[j].export = e
    BY <1>2, ExportOf, ExportKept
  <2>2. Exists(e)' => Exists(e)
    BY <2>1, JobExists
  <2>3. CASE run'[j][n] = run[j][n]
    BY <2>1, <2>2, <2>3, StoredKept, FilesChange, AuditChanges DEF Reached
  <2>4. CASE AuditStarted(j, n)
    <3>1. run'[j][n] = "store" /\ AddAudit(e, "started", r)
      BY <2>4 DEF AuditStarted, Advance, TypeOK
    <3> QED
      BY <2>1, <3>1, AddAuditEffect
  <2>5. CASE Store(j, n)
    <3>1. run[j][n] = "store" /\ run'[j][n] = "insert_file" /\ r \in stored'
      BY <2>5 DEF Store, Advance, TypeOK
    <3> QED
      BY <2>1, <2>2, <3>1, AuditChanges DEF Reached
  <2>6. CASE InsertFile(j, n)
    <3>1. run'[j][n] = "complete" /\ r \in files'[e]
      BY <2>1, <2>6 DEF InsertFile, Advance, TypeOK
    <3> QED
      BY <2>1, <3>1
  <2>7. CASE Complete(j, n)
    <3>1. run[j][n] = "complete" /\ run'[j][n] = "audit_completed"
      BY <2>7 DEF Complete, Advance, TypeOK
    <3> QED
      BY <2>1, <2>2, <3>1, FilesChange DEF Reached
  <2>8. CASE Begin(j, n) \/ AuditCompleted(j, n) \/ ProcessorThrows(j, n) \/ MarkFailed(j, n)
             \/ AuditFailed(j, n) \/ HandlerThrows(j, n) \/ Leave(j, n)
    <3>1. run'[j][n] \notin {"store", "insert_file", "complete", "audit_completed"}
      BY <2>8 DEF Begin, AuditCompleted, ProcessorThrows, MarkFailed, AuditFailed,
         HandlerThrows, Leave, Advance, TypeOK
    <3> QED
      BY <3>1
  <2> QED
    BY <1>2, <2>3, <2>4, <2>5, <2>6, <2>7, <2>8, RunMoves DEF RunStep
<1>3. CASE run[j][n] = "new" /\ run'[j][n] # "new"
  <2>1. ~RunStep(j, n)
    BY <1>3, RunFrame
  <2> QED
    BY <1>1, <1>3, <2>1, RunMoves
<1> QED
  BY <1>1, <1>2, <1>3

LEMMA OneVerdictStep ==
  ASSUME TypeOK, ActorsOwn, JobsOwn, Unstarted, OneVerdict, [Next]_vars
  PROVE  OneVerdict'
<1> SUFFICES ASSUME NEW j \in Jobs, NEW n \in RunNo, NEW e \in Exports, NEW v \in Verdicts,
                    Did(e, v, <<j, n>>)'
             PROVE  run'[j][n] \in AfterVerdict
  BY DEF OneVerdict
<1>1. CASE Did(e, v, <<j, n>>)
  <2>1. run[j][n] \in AfterVerdict
    BY <1>1 DEF OneVerdict
  <2>2. CASE RunStep(j, n)
    BY <2>1, <2>2 DEF RunStep, Begin, AuditStarted, Store, InsertFile, Complete,
       AuditCompleted, ProcessorThrows, InProcessor, MarkFailed, AuditFailed, HandlerThrows,
       Leave, Advance, AfterVerdict, TypeOK
  <2> QED
    BY <2>1, <2>2, RunMoves DEF AfterVerdict
<1>2. CASE ~Did(e, v, <<j, n>>)
  <2>1. PICK i \in Jobs, m \in RunNo :
          <<j, n>> = <<i, m>> /\ (AuditCompleted(i, m) \/ AuditFailed(i, m))
    BY <1>2, AuditChanges DEF Verdicts
  <2> QED
    BY <2>1 DEF AuditCompleted, AuditFailed, Advance, AfterVerdict, TypeOK
<1> QED
  BY <1>1, <1>2

LEMMA BareStep ==
  ASSUME TypeOK, ActorsOwn, Bare, [Next]_vars
  PROVE  Bare'
<1> SUFFICES ASSUME NEW e \in Exports, ~Exists(e)'
             PROVE  files'[e] = {} /\ audit'[e] = {} /\ runs'[e] = "none"
  BY DEF Bare
<1>1. CASE UNCHANGED <<exports, files, audit, runs>>
  BY <1>1 DEF Bare, Exists
<1>2. ASSUME NEW c \in Clients, Remove(c)
      PROVE  files'[e] = {} /\ audit'[e] = {} /\ runs'[e] = "none"
  <2>1. actor[c].export \in Exports
    BY <1>2 DEF Remove, ActorsOwn, Actors
  <2>2. CASE e = actor[c].export
    BY <1>2, <2>1, <2>2 DEF Remove, TypeOK
  <2>3. CASE e # actor[c].export
    BY <1>2, <2>1, <2>3 DEF Remove, TypeOK, Bare, Exists
  <2> QED
    BY <2>2, <2>3
<1>3. ASSUME ~Exists(e), UNCHANGED runs,
             \A f \in Exports : ~Exists(f) => files'[f] = files[f] /\ audit'[f] = audit[f]
      PROVE  files'[e] = {} /\ audit'[e] = {} /\ runs'[e] = "none"
  BY <1>3 DEF Bare
<1>4. ASSUME NEW c \in Clients, ClientStep(c), ~Remove(c)
      PROVE  /\ UNCHANGED runs
             /\ \A f \in Exports : ~Exists(f) => files'[f] = files[f] /\ audit'[f] = audit[f]
             /\ ~Exists(e)
  <2>1. CASE AuditRequest(c)
    <3>1. PICK x : AddAudit(actor[c].export, x, c)
      BY <2>1 DEF AuditRequest
    <3> QED
      BY <2>1, <3>1 DEF AuditRequest, AddAudit, Exists, TypeOK
  <2>2. CASE Reset(c) \/ Cancel(c)
    BY <2>2, SetExportEffect DEF Reset, Cancel, Exists
  <2> QED
    BY <1>4, <2>1, <2>2 DEF ClientStep, RequestExport, PickFile, Regenerate, Delete,
       Download, tables, Exists
<1>5. ASSUME NEW t \in Ticks, Tick(t) \/ InsertRun(t)
      PROVE  files'[e] = {} /\ audit'[e] = {} /\ runs'[e] = "none"
  BY <1>5, TickFrame DEF Tick, InsertRun, Bare, Exists, TypeOK, tables
<1>6. ASSUME NEW a \in Actors, ActorStep(a)
      PROVE  files'[e] = {} /\ audit'[e] = {} /\ runs'[e] = "none"
  <2>1. ASSUME NEW f \in Exports, InsertExport(a, f)
        PROVE  files'[e] = {} /\ audit'[e] = {} /\ runs'[e] = "none"
    BY <2>1 DEF InsertExport, Bare, Exists, TypeOK, ExportRow
  <2> QED
    BY <1>6, <1>1, <2>1 DEF ActorStep, InsertJob, Enqueue, ActorFails, tables
<1>7. ASSUME NEW f \in Exports, LockAges(f)
      PROVE  files'[e] = {} /\ audit'[e] = {} /\ runs'[e] = "none"
  BY <1>7 DEF LockAges, Bare, Exists, TypeOK, ExportRow
<1>8. ASSUME NEW j \in Jobs, NEW n \in RunNo, RunStep(j, n)
      PROVE  /\ UNCHANGED runs
             /\ \A f \in Exports : ~Exists(f) => files'[f] = files[f] /\ audit'[f] = audit[f]
             /\ ~Exists(e)
  <2>1. CASE AuditStarted(j, n) \/ AuditCompleted(j, n) \/ AuditFailed(j, n)
    <3>1. PICK x : AddAudit(job[j].export, x, <<j, n>>)
      BY <2>1 DEF AuditStarted, AuditCompleted, AuditFailed
    <3> QED
      BY <2>1, <3>1 DEF AuditStarted, AuditCompleted, AuditFailed, AddAudit, Exists, TypeOK
  <2>2. CASE Begin(j, n) \/ Complete(j, n) \/ MarkFailed(j, n)
    BY <2>2, SetExportEffect DEF Begin, Complete, MarkFailed, Exists
  <2>3. CASE InsertFile(j, n)
    BY <2>3 DEF InsertFile, Exists, TypeOK
  <2> QED
    BY <1>8, <2>1, <2>2, <2>3 DEF RunStep, Store, ProcessorThrows, HandlerThrows, Leave,
       tables, Exists
<1> QED
  BY <1>1, <1>2, <1>3, <1>4, <1>5, <1>6, <1>7, <1>8
  DEF Next, Fetch, Stalled, Crash, vars, tables

\* Only a run completes an export.
LEMMA Completes ==
  ASSUME TypeOK, [Next]_vars, NEW e \in Exports,
         exports'[e].status = "completed", exports[e].status # "completed"
  PROVE  \E j \in Jobs, n \in RunNo : Complete(j, n) /\ e = job[j].export /\ Exists(e)
<1>1. ASSUME NEW c \in Clients, ClientStep(c) PROVE FALSE
  <2>1. CASE Reset(c) \/ Cancel(c)
    BY <2>1, SetExportEffect DEF Reset, Cancel
  <2>2. CASE Remove(c)
    BY <2>2 DEF Remove, TypeOK
  <2> QED
    BY <1>1, <2>1, <2>2 DEF ClientStep, RequestExport, PickFile, AuditRequest, Regenerate,
       Delete, Download, tables
<1>2. ASSUME NEW a \in Actors, NEW f \in Exports, InsertExport(a, f) PROVE FALSE
  BY <1>2 DEF InsertExport, TypeOK, ExportRow
<1>3. ASSUME NEW f \in Exports, LockAges(f) PROVE FALSE
  BY <1>3 DEF LockAges, TypeOK, ExportRow
<1>4. ASSUME NEW j \in Jobs, NEW n \in RunNo, RunStep(j, n)
      PROVE  Complete(j, n) /\ e = job[j].export /\ Exists(e)
  <2>1. CASE Begin(j, n) \/ MarkFailed(j, n)
    BY <2>1, SetExportEffect DEF Begin, MarkFailed
  <2>2. CASE Complete(j, n)
    BY <2>2, SetExportEffect DEF Complete
  <2> QED
    BY <1>4, <2>1, <2>2 DEF RunStep, AuditStarted, Store, InsertFile, AuditCompleted,
       ProcessorThrows, AuditFailed, HandlerThrows, Leave, tables
<1> QED
  BY <1>1, <1>2, <1>3, <1>4, TickFrame
  DEF Next, ActorStep, InsertJob, Enqueue, ActorFails, Fetch, Stalled, Crash, vars, tables

LEMMA DownloadableStep ==
  ASSUME TypeOK, ActorsOwn, JobsOwn, Unstarted, Reached, CompletedIsDownloadable, [Next]_vars
  PROVE  CompletedIsDownloadable'
<1> SUFFICES ASSUME NEW e \in Exports
             PROVE  /\ files'[e] \subseteq stored'
                    /\ exports'[e].status = "completed" => files'[e] # {}
  BY DEF CompletedIsDownloadable
<1>1. files'[e] \subseteq stored'
  <2> SUFFICES ASSUME NEW r \in files'[e], r \notin files[e] PROVE r \in stored'
    BY StoredKept DEF CompletedIsDownloadable
  <2>1. PICK j \in Jobs, n \in RunNo : r = <<j, n>> /\ InsertFile(j, n)
    BY FilesChange
  <2>2. run[j][n] = "insert_file"
    BY <2>1 DEF InsertFile, Advance
  <2> QED
    BY <2>1, <2>2, StoredKept DEF Reached
<1>2. ASSUME exports'[e].status = "completed" PROVE files'[e] # {}
  <2>1. CASE exports[e].status = "completed"
    <3>1. Exists(e)'
      BY <1>2 DEF Exists
    <3>2. PICK r : r \in files[e]
      BY <2>1 DEF CompletedIsDownloadable
    <3> QED
      BY <3>1, <3>2, FilesChange
  <2>2. CASE exports[e].status # "completed"
    <3>1. PICK j \in Jobs, n \in RunNo : Complete(j, n) /\ e = job[j].export /\ Exists(e)
      BY <1>2, <2>2, Completes
    <3>2. run[j][n] = "complete" /\ UNCHANGED files
      BY <3>1 DEF Complete, Advance
    <3> QED
      BY <3>1, <3>2 DEF Reached
  <2> QED
    BY <2>1, <2>2
<1> QED
  BY <1>1, <1>2

LEMMA EarnedStep ==
  ASSUME TypeOK, ActorsOwn, JobsOwn, Unstarted, Reached, OneVerdict, AuditIsEarned, Bare,
         Bare', [Next]_vars
  PROVE  AuditIsEarned'
<1> SUFFICES ASSUME NEW e \in Exports, NEW j \in Jobs, NEW n \in RunNo
             PROVE  /\ <<j, n>> \in files'[e] => Did(e, "started", <<j, n>>)'
                    /\ Did(e, "completed", <<j, n>>)' =>
                         <<j, n>> \in files'[e] /\ ~Did(e, "failed", <<j, n>>)'
  <2> SUFFICES ASSUME NEW e \in Exports, NEW r \in Processors
               PROVE  /\ r \in files'[e] => Did(e, "started", r)'
                      /\ Did(e, "completed", r)' => r \in files'[e] /\ ~Did(e, "failed", r)'
    BY DEF AuditIsEarned, Did
  <2>1. PICK j \in Jobs, n \in RunNo : r = <<j, n>>
    BY DEF Processors
  <2> QED
    BY <2>1
<1> DEFINE r == <<j, n>>
<1>0. /\ r \in files[e] => Did(e, "started", r)
      /\ Did(e, "completed", r) => r \in files[e] /\ ~Did(e, "failed", r)
  BY DEF AuditIsEarned, Did, Processors
<1>1. CASE ~Exists(e)'
  BY <1>1 DEF Bare, Did
<1>2. CASE Exists(e)'
  <2>1. ASSUME r \in files'[e] PROVE Did(e, "started", r)'
    <3>1. CASE r \in files[e]
      BY <1>0, <1>2, <3>1, AuditChanges
    <3>2. CASE r \notin files[e]
      <4>1. e = job[j].export /\ InsertFile(j, n) /\ Exists(e)
        BY <2>1, <3>2, FilesChange
      <4>2. run[j][n] = "insert_file"
        BY <4>1 DEF InsertFile, Advance
      <4> QED
        BY <1>2, <4>1, <4>2, AuditChanges DEF Reached
    <3> QED
      BY <3>1, <3>2
  <2>2. ASSUME Did(e, "completed", r)' PROVE r \in files'[e] /\ ~Did(e, "failed", r)'
    <3>1. CASE Did(e, "completed", r)
      <4>1. run[j][n] # "audit_failed"
        BY <3>1 DEF OneVerdict, Verdicts, AfterVerdict
      <4>2. ~AuditFailed(j, n)
        BY <4>1 DEF AuditFailed, Advance
      <4> QED
        BY <1>0, <1>2, <3>1, <4>2, FilesChange, AuditChanges
    <3>2. CASE ~Did(e, "completed", r)
      <4>1. e = job[j].export /\ AuditCompleted(j, n) /\ Exists(e)
        BY <2>2, <3>2, AuditChanges
      <4>2. run[j][n] = "audit_completed" /\ run'[j][n] = "return"
        BY <4>1 DEF AuditCompleted, Advance, TypeOK
      <4>3. ~Did(e, "failed", r) /\ ~AuditFailed(j, n)
        BY <4>2 DEF OneVerdict, Verdicts, AfterVerdict, AuditFailed, Advance
      <4> QED
        BY <1>2, <4>1, <4>2, <4>3, FilesChange, AuditChanges DEF Reached
    <3> QED
      BY <3>1, <3>2
  <2> QED
    BY <2>1, <2>2
<1> QED
  BY <1>1, <1>2

(***************************************************************************)
(* Nobody is forgotten                                                     *)
(***************************************************************************)

\* An actor moves by a step of its own.
LEMMA ActorMoves ==
  ASSUME TypeOK, [Next]_vars, NEW a \in Actors
  PROVE  \/ actor'[a] = actor[a]
         \/ a \in Clients /\ ClientStep(a)
         \/ a \in Ticks /\ (Tick(a) \/ InsertRun(a))
         \/ ActorStep(a)
<1>1. ASSUME NEW c \in Clients, ClientStep(c), a # c PROVE actor'[a] = actor[a]
  BY <1>1 DEF ClientStep, RequestExport, Reset, PickFile, AuditRequest, Cancel,
     Remove, Regenerate, Delete, Download, GoOn, Answered, TypeOK
<1>2. ASSUME NEW t \in Ticks, Tick(t) \/ InsertRun(t), a # t PROVE actor'[a] = actor[a]
  BY <1>2 DEF Tick, InsertRun, GoOn, TypeOK
<1>3. ASSUME NEW b \in Actors, ActorStep(b), a # b PROVE actor'[a] = actor[a]
  BY <1>3, AnsweredEffect DEF ActorStep, InsertExport, InsertJob, Enqueue, ActorFails, TypeOK
<1>4. ASSUME NEW j \in Jobs, NEW n \in RunNo, RunStep(j, n) \/ Crash(j, n)
      PROVE  actor'[a] = actor[a]
  BY <1>4, RunFrame
<1> QED
  BY <1>1, <1>2, <1>3, <1>4 DEF Next, LockAges, Fetch, Stalled, vars

LEMMA OpsFitStep ==
  ASSUME TypeOK, OpsFit, [Next]_vars
  PROVE  OpsFit'
<1> DEFINE Fit(a) ==
      /\ actor[a].pc \in {"idle", "insert_export"} => actor[a].export = NoExport
      /\ actor[a].pc = "insert_export" => actor[a].op \in {"create", "schedule"}
      /\ actor[a].pc = "reset" => actor[a].op = "regenerate"
      /\ actor[a].pc = "pick" => actor[a].op = "download"
      /\ actor[a].pc = "remove" => actor[a].op = "delete"
<1> SUFFICES ASSUME NEW a \in Actors PROVE Fit(a)'
  BY DEF OpsFit
<1>0. Fit(a)
  BY DEF OpsFit
<1>1. CASE actor'[a] = actor[a]
  BY <1>0, <1>1
<1>2. CASE ClientStep(a)
  <2>1. CASE RequestExport(a)
    BY <1>0, <2>1 DEF RequestExport, TypeOK, Actor
  <2>2. CASE Reset(a) \/ PickFile(a)
    BY <2>2, GoOnEffect, AnsweredEffect DEF Reset, PickFile
  <2>3. CASE AuditRequest(a)
    <3>1. \/ Answered(a, "ok")
          \/ actor[a].op = "delete" /\ GoOn(a, "audit", "remove")
          \/ GoOn(a, "audit", "insert_job")
      BY <2>3 DEF AuditRequest
    <3> QED
      BY <3>1, GoOnEffect, AnsweredEffect
  <2>4. CASE Cancel(a) \/ Remove(a)
    BY <2>4, AnsweredEffect DEF Cancel, Remove
  <2>5. ASSUME NEW e \in Exports, Regenerate(a, e) PROVE Fit(a)'
    BY <2>5 DEF Regenerate, TypeOK, Actor
  <2>6. ASSUME NEW e \in Exports, Delete(a, e) PROVE Fit(a)'
    BY <2>6 DEF Delete, TypeOK, Actor
  <2>7. ASSUME NEW e \in Exports, Download(a, e) PROVE Fit(a)'
    BY <2>7 DEF Download, TypeOK, Actor
  <2> QED
    BY <1>2, <2>1, <2>2, <2>3, <2>4, <2>5, <2>6, <2>7 DEF ClientStep
<1>3. CASE Tick(a)
  BY <1>0, <1>3 DEF Tick, TypeOK, Actor
<1>4. CASE InsertRun(a)
  BY <1>4, GoOnEffect DEF InsertRun
<1>5. CASE ActorStep(a)
  <2>1. ASSUME NEW e \in Exports, InsertExport(a, e) PROVE Fit(a)'
    BY <2>1 DEF InsertExport, TypeOK, Actor
  <2>2. ASSUME NEW j \in Jobs, InsertJob(a, j) PROVE Fit(a)'
    BY <2>2 DEF InsertJob, TypeOK, Actor
  <2>3. CASE Enqueue(a) \/ ActorFails(a)
    BY <2>3, AnsweredEffect DEF Enqueue, ActorFails
  <2> QED
    BY <1>5, <2>1, <2>2, <2>3 DEF ActorStep
<1> QED
  BY <1>1, <1>2, <1>3, <1>4, <1>5, ActorMoves

\* Who was to queue a job of e still is, has failed, or has queued it.
LEMMA QueuerKept ==
  ASSUME TypeOK, ActorsOwn, OpsFit, [Next]_vars, NEW e \in Exports, NEW a \in Actors,
         Queues(a, e), actor[a].pc # "done" \/ actor[a].answer = "error"
  PROVE  \/ Queues(a, e)' /\ (actor'[a].pc # "done" \/ actor'[a].answer = "error")
         \/ \E j \in Jobs : job'[j].export = e /\ job'[j].state = "waiting"
<1> DEFINE Still == /\ actor'[a].export = e
                    /\ actor'[a].op \in {"create", "schedule", "regenerate"}
                    /\ actor'[a].pc # "done" \/ actor'[a].answer = "error"
<1>0. /\ actor[a].export = e /\ e # NoExport
      /\ actor[a].op \in {"create", "schedule", "regenerate"}
      /\ actor[a].pc \notin {"idle", "insert_export", "pick", "remove"}
  BY Absent DEF Queues, OpsFit
<1>1. CASE actor'[a] = actor[a]
  BY <1>1 DEF Queues
<1>2. ASSUME ClientStep(a) PROVE Still
  <2>1. CASE Reset(a)
    BY <1>0, <2>1, GoOnEffect DEF Reset
  <2>2. CASE AuditRequest(a)
    <3>1. GoOn(a, "audit", "insert_job")
      BY <1>0, <2>2 DEF AuditRequest
    <3> QED
      BY <1>0, <3>1, GoOnEffect
  <2>3. /\ ~RequestExport(a) /\ ~PickFile(a) /\ ~Cancel(a) /\ ~Remove(a)
        /\ \A f \in Exports : ~Regenerate(a, f) /\ ~Delete(a, f) /\ ~Download(a, f)
    BY <1>0 DEF RequestExport, PickFile, Cancel, Remove, Regenerate, Delete, Download
  <2> QED
    BY <1>2, <2>1, <2>2, <2>3 DEF ClientStep
<1>3. ASSUME Tick(a) \/ InsertRun(a) PROVE Still
  BY <1>0, <1>3, GoOnEffect DEF Tick, InsertRun
<1>4. ASSUME NEW j \in Jobs, InsertJob(a, j) PROVE Still
  BY <1>0, <1>4 DEF InsertJob, TypeOK, Actor
<1>5. ASSUME Enqueue(a) PROVE \E j \in Jobs : job'[j].export = e /\ job'[j].state = "waiting"
  BY <1>0, <1>5 DEF Enqueue, ActorsOwn, TypeOK, Job
<1>6. ASSUME ActorFails(a) PROVE Still
  BY <1>0, <1>6, AnsweredEffect DEF ActorFails
<1>7. ~\E f \in Exports : InsertExport(a, f)
  BY <1>0 DEF InsertExport
<1>8. CASE Still
  BY <1>8 DEF Queues
<1> QED
  BY <1>1, <1>2, <1>3, <1>4, <1>5, <1>6, <1>7, <1>8, ActorMoves DEF ActorStep

\* A waiting job is fetched, and one that stalled out stays failed.
LEMMA JobKept ==
  ASSUME TypeOK, ActorsOwn, JobsOwn, Unstarted, [Next]_vars, NEW e \in Exports,
         NEW j \in Jobs, job[j].export = e, job[j].state \in {"waiting", "failed"}
  PROVE  Pursued(e)'
<1>1. job'[j].export = e
  BY ExportKept
<1>2. CASE job'[j].state = job[j].state
  BY <1>1, <1>2 DEF Pursued
<1>3. CASE Fetch(j)
  <2>1. job[j].stalls + 1 \in RunNo
    BY <1>3, Stalls DEF Fetch, Unstarted, TypeOK, Job, RunNo
  <2>2. run'[j][job[j].stalls + 1] = "begin"
    BY <1>3, <2>1 DEF Fetch, TypeOK
  <2> QED
    BY <1>1, <2>1, <2>2 DEF Pursued, Undecided
<1>4. ASSUME NEW i \in Jobs, Fetch(i) \/ Stalled(i), ~Fetch(j)
      PROVE  job'[j].state = job[j].state
  BY <1>4 DEF Fetch, Stalled, TypeOK
<1>5. ASSUME NEW a \in Actors, NEW i \in Jobs, InsertJob(a, i) PROVE job'[j].state = job[j].state
  BY <1>5 DEF InsertJob, TypeOK, Job
<1>6. ASSUME NEW a \in Actors, Enqueue(a) PROVE job'[j].state = job[j].state
  BY <1>6 DEF Enqueue, ActorsOwn, TypeOK
<1>7. ASSUME NEW i \in Jobs, NEW n \in RunNo, RunStep(i, n) \/ Crash(i, n)
      PROVE  job'[j].state = job[j].state
  BY <1>7, RunFrame, LeaveEffect
<1> QED
  BY <1>2, <1>3, <1>4, <1>5, <1>6, <1>7, ClientFrame, TickFrame
  DEF Next, ActorStep, InsertExport, ActorFails, LockAges, vars

\* A run without a verdict goes on, writes one, or fails for good.
LEMMA RunKept ==
  ASSUME TypeOK, ActorsOwn, JobsOwn, Unstarted, [Next]_vars, NEW e \in Exports,
         NEW j \in Jobs, NEW n \in RunNo, job[j].export = e, run[j][n] \in Undecided
  PROVE  Pursued(e)' \/ exports'[e].status \notin {"pending", "processing"}
<1>1. job'[j].export = e
  BY ExportKept
<1>2. CASE run'[j][n] \in Undecided
  BY <1>1, <1>2 DEF Pursued
<1>3. CASE Complete(j, n) \/ MarkFailed(j, n)
  BY <1>3, SetExportEffect DEF Complete, MarkFailed, Exists
<1>4. CASE RunStep(j, n) /\ ~Complete(j, n) /\ ~MarkFailed(j, n)
  <2>1. run'[j][n] \in Undecided
    BY <1>4 DEF RunStep, Begin, AuditStarted, Store, InsertFile, AuditCompleted,
       ProcessorThrows, AuditFailed, HandlerThrows, Leave, Advance, Undecided, TypeOK
  <2> QED
    BY <1>2, <2>1
<1> QED
  BY <1>2, <1>3, <1>4, RunMoves DEF Undecided

\* An export becomes unfinished by an actor that will queue a job, or a run.
LEMMA Reopened ==
  ASSUME TypeOK, ActorsOwn, OpsFit, JobsOwn, Unstarted, [Next]_vars, NEW e \in Exports,
         exports[e].status \notin {"pending", "processing"},
         exports'[e].status \in {"pending", "processing"}
  PROVE  Pursued(e)'
<1>1. ASSUME NEW c \in Clients, ClientStep(c) PROVE Pursued(e)'
  <2>1. CASE Reset(c)
    <3>1. actor[c].export = e
      BY <2>1, SetExportEffect DEF Reset
    <3>2. /\ actor'[c].export = e /\ actor'[c].op = "regenerate" /\ actor'[c].pc = "audit"
          /\ c \in Actors
      BY <2>1, <3>1, GoOnEffect DEF Reset, OpsFit, Actors
    <3> QED
      BY <3>2 DEF Pursued, Queues
  <2>2. CASE Cancel(c)
    BY <2>2, SetExportEffect DEF Cancel
  <2>3. CASE Remove(c)
    BY <2>3 DEF Remove, TypeOK
  <2>4. CASE AuditRequest(c)
    BY <2>4 DEF AuditRequest
  <2> QED
    BY <1>1, <2>1, <2>2, <2>3, <2>4 DEF ClientStep, RequestExport, PickFile, Regenerate,
       Delete, Download, tables
<1>2. ASSUME NEW a \in Actors, NEW f \in Exports, InsertExport(a, f) PROVE Pursued(e)'
  <2>1. e = f
    BY <1>2 DEF InsertExport, TypeOK
  <2>2. /\ actor'[a].export = e /\ actor'[a].op \in {"create", "schedule"}
        /\ actor'[a].pc # "done"
    BY <1>2, <2>1 DEF InsertExport, OpsFit, TypeOK, Actor
  <2> QED
    BY <2>2 DEF Pursued, Queues
<1>3. ASSUME NEW f \in Exports, LockAges(f) PROVE FALSE
  BY <1>3 DEF LockAges, TypeOK, ExportRow
<1>4. ASSUME NEW j \in Jobs, NEW n \in RunNo, RunStep(j, n) PROVE Pursued(e)'
  <2>1. CASE Begin(j, n)
    <3>1. job[j].export = e
      BY <2>1, SetExportEffect DEF Begin
    <3>2. job'[j].export = e
      BY <2>1, <3>1 DEF Begin
    <3>3. run'[j][n] = "audit_started"
      BY <2>1 DEF Begin, Advance, TypeOK
    <3> QED
      BY <3>2, <3>3 DEF Pursued, Undecided
  <2>2. CASE Complete(j, n) \/ MarkFailed(j, n)
    BY <2>2, SetExportEffect DEF Complete, MarkFailed
  <2> QED
    BY <1>4, <2>1, <2>2 DEF RunStep, AuditStarted, Store, InsertFile, AuditCompleted,
       ProcessorThrows, AuditFailed, HandlerThrows, Leave, tables
<1> QED
  BY <1>1, <1>2, <1>3, <1>4, TickFrame
  DEF Next, ActorStep, InsertJob, Enqueue, ActorFails, Fetch, Stalled, Crash, vars, tables

LEMMA NoneForgottenStep ==
  ASSUME TypeOK, ActorsOwn, OpsFit, JobsOwn, Unstarted, NoneForgotten, [Next]_vars
  PROVE  NoneForgotten'
<1> SUFFICES ASSUME NEW e \in Exports, exports'[e].status \in {"pending", "processing"}
             PROVE  Pursued(e)'
  BY DEF NoneForgotten
<1>1. CASE exports[e].status \notin {"pending", "processing"}
  BY <1>1, Reopened
<1>2. CASE Pursued(e)
  <2>1. ASSUME NEW a \in Actors, Queues(a, e),
               actor[a].pc # "done" \/ actor[a].answer = "error"
        PROVE  Pursued(e)'
    BY <2>1, QueuerKept DEF Pursued
  <2> QED
    BY <1>2, <2>1, JobKept, RunKept DEF Pursued
<1> QED
  BY <1>1, <1>2 DEF NoneForgotten

(***************************************************************************)
(* Theorems                                                                *)
(***************************************************************************)
LEMMA InitIInv == Init => IInv
<1> SUFFICES ASSUME Init PROVE IInv
  OBVIOUS
<1>1. TypeOK
  BY Members, Stalls DEF Init, TypeOK, ExportRow, Job, Actor
<1>2. ActorsOwn /\ OpsFit /\ OneQueuer
  BY Absent DEF Init, ActorsOwn, OpsFit, OneQueuer
<1>3. JobsOwn /\ Unstarted
  BY Absent, Stalls DEF Init, JobsOwn, Unstarted
<1>4. Reached /\ OneVerdict /\ Bare
  BY DEF Init, Reached, OneVerdict, Bare, Did
<1>5. NoneForgotten /\ CompletedIsDownloadable /\ AuditIsEarned
  BY DEF Init, NoneForgotten, CompletedIsDownloadable, AuditIsEarned
<1> QED
  BY <1>1, <1>2, <1>3, <1>4, <1>5 DEF IInv

LEMMA NextIInv == IInv /\ [Next]_vars => IInv'
<1> SUFFICES ASSUME IInv, [Next]_vars PROVE IInv'
  OBVIOUS
<1>1. TypeOK' /\ ActorsOwn' /\ OpsFit' /\ OneQueuer' /\ JobsOwn' /\ Unstarted'
  BY TypeStep, ActorsOwnStep, OpsFitStep, OneQueuerStep, JobsOwnStep, UnstartedStep DEF IInv
<1>2. Reached' /\ OneVerdict' /\ Bare' /\ NoneForgotten'
  BY ReachedStep, OneVerdictStep, BareStep, NoneForgottenStep DEF IInv
<1>3. CompletedIsDownloadable' /\ AuditIsEarned'
  BY <1>2, DownloadableStep, EarnedStep DEF IInv
<1> QED
  BY <1>1, <1>2, <1>3 DEF IInv

\* The inductive invariant holds in every reachable state.
THEOREM Invariance == Spec => []IInv
  BY InitIInv, NextIInv, PTL DEF Spec

\* Every variable keeps its type.
THEOREM TypeCorrect == Spec => []TypeOK
<1>1. IInv => TypeOK
  BY DEF IInv
<1> QED
  BY <1>1, Invariance, PTL

\* However regenerates, stalls, crashes and errors overlap, a completed export
\* has a file, and every file its object: Complete comes after InsertFile, and
\* InsertFile after Store, in the run that does them.
THEOREM Downloadable == Spec => []CompletedIsDownloadable
<1>1. IInv => CompletedIsDownloadable
  BY DEF IInv
<1> QED
  BY <1>1, Invariance, PTL

\* The audit trail of the processors claims no more than was done.
THEOREM AuditTrail == Spec => []AuditIsEarned
<1>1. IInv => AuditIsEarned
  BY DEF IInv
<1> QED
  BY <1>1, Invariance, PTL

\* An export is left unfinished only by a failure: whatever requests and runs
\* did to it, somebody was left who would settle it.
THEOREM Unstranded == Spec => []StuckHasACause
<1>1. IInv => StuckHasACause
  <2> SUFFICES ASSUME IInv, NEW e \in Exports, Pursued(e) PROVE InHand(e) \/ Broken(e)
    BY DEF IInv, NoneForgotten, StuckHasACause
  <2>1. ASSUME NEW a \in Actors, Queues(a, e), actor[a].pc # "done" \/ actor[a].answer = "error"
        PROVE  InHand(e) \/ Broken(e)
    BY <2>1 DEF InHand, Broken
  <2>2. ASSUME NEW j \in Jobs, job[j].export = e, job[j].state \in {"waiting", "failed"}
        PROVE  InHand(e) \/ Broken(e)
    BY <2>2 DEF InHand, Broken
  <2>3. ASSUME NEW j \in Jobs, NEW n \in RunNo, job[j].export = e, run[j][n] \in Undecided
        PROVE  InHand(e) \/ Broken(e)
    BY <2>3 DEF InHand, Broken, Live, Over, Undecided
  <2> QED
    BY <2>1, <2>2, <2>3 DEF Pursued
<1> QED
  BY <1>1, Invariance, PTL

\* Nothing brings a deleted export back or hangs anything on it.
THEOREM Deletion == Spec => DeletedForGood
<1>1. IInv /\ IInv' /\ [Next]_vars =>
        [\A e \in Exports :
           exports[e].status = "deleted" =>
             /\ exports'[e].status = "deleted"
             /\ files'[e] = {} /\ audit'[e] = {} /\ runs'[e] = "none"]_vars
  <2> SUFFICES ASSUME IInv, IInv', [Next]_vars, NEW e \in Exports,
                      exports[e].status = "deleted"
               PROVE  /\ exports'[e].status = "deleted"
                      /\ files'[e] = {} /\ audit'[e] = {} /\ runs'[e] = "none"
    OBVIOUS
  <2>1. exports'[e].status = "deleted"
    BY StatusKept DEF IInv
  <2> QED
    BY <2>1 DEF IInv, Bare, Exists
<1> QED
  BY <1>1, Invariance, PTL DEF Spec, DeletedForGood
=============================================================================
