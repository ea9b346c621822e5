------------------------------- MODULE Uploads -------------------------------
(***************************************************************************)
(* One manual upload, from the presigned URL to its statistics: the        *)
(* /uploads routes (apps/api/src/routes/uploads/index.ts), their back-     *)
(* pressure (lib/queue-depth.ts), the CSV and PDF parsers and the          *)
(* finalizer (apps/worker/src/processors/upload-*.ts), and the scheduler's *)
(* cleanup of stale uploads (apps/worker/src/scheduler.ts).                *)
(*                                                                         *)
(* Every database, storage or queue call that decides something is a step  *)
(* of its own.  Upload jobs carry no jobId, so the handler's updates of    *)
(* jobs rows touch none and are left out.                                  *)
(***************************************************************************)
EXTENDS Integers, FiniteSetsExt

CONSTANTS
  Clients,       \* requests, and finalize jobs of POST /admin/jobs/enqueue
  Ticks,         \* ticks of the scheduler
  Runs, NoRun,   \* ids of createParseRunId(); the job of a run has its id
  Rows,          \* rows of a file that is not empty
  MaxAttempts,   \* defaultJobOptions.attempts (3)
  MaxStalls      \* BullMQ's maxStalledCount (1)

ASSUME Absent == NoRun \notin Runs /\ Clients \cap Ticks = {}
ASSUME Sizes ==
  /\ IsFiniteSet(Runs) /\ Rows \in Nat \ {0} /\ MaxAttempts \in Nat \ {0}
  /\ MaxStalls \in Nat

VARIABLES
  type,      \* uploads.type
  rows,      \* how many rows the file has
  valid,     \* how many of them are valid
  start,     \* where the request that starts the upload is
  upload,    \* the uploads row
  file,      \* the upload_files row exists
  mapping,   \* the upload_mappings row exists
  object,    \* the file is in the bucket
  runs,      \* runs[r]: the upload_parse_runs row
  errors,    \* errors[r]: how often upload_parse_errors rows of r were inserted
  job,       \* job[r]: the BullMQ job of r
  proc,      \* proc[r][n]: where the n-th run of the parser for r is
  req,       \* req[c]: a request between two calls, with what it read
  tick       \* tick[t]: a tick between its select and its delete

vars == <<type, rows, valid, start, upload, file, mapping, object, runs, errors,
          job, proc, req, tick>>
input == <<type, rows, valid, start>>

(***************************************************************************)
(* Data                                                                    *)
(***************************************************************************)
RunNo == 1..(MaxAttempts + MaxStalls)
Status == {"none", "pending", "processing", "completed", "failed", "deleted"}
Upload == [status : Status, total : Nat, valid : Nat, errors : Nat]
ParseRun == [status : {"none", "pending", "running", "completed", "failed", "gone"},
             number : Nat, total : Nat, valid : Nat]
Job == [state : {"none", "waiting", "active", "ended", "failed"},
        run : {0} \cup RunNo, tries : 0..MaxAttempts, stalls : 0..(MaxStalls + 1)]
ParserPc == {"new", "mark_run", "mark_upload", "read", "errors", "complete_run",
             "complete_upload", "fail_run", "fail_upload", "returned", "threw", "dead"}
InTry == {"read", "errors", "complete_run", "complete_upload"}
Over == {"new", "returned", "threw", "dead"}
Request == [op : {"none", "complete", "reprocess", "delete", "finalize"},
            pc : {"idle", "mapping", "run", "status", "depth", "enqueue", "object",
                  "remove", "count", "set_totals", "fail", "done"},
            auto : BOOLEAN, withMapping : BOOLEAN, run : Runs \cup {NoRun}, number : Nat,
            total : Nat, valid : Nat, errors : Nat,
            answer : {"none", "ok", "busy", "error"}]

TypeOK ==
  /\ type \in {"csv", "pdf"} /\ rows \in {0, Rows} /\ valid \in 0..rows
  /\ start \in {"new", "file", "done", "failed"}
  /\ upload \in Upload
  /\ file \in BOOLEAN /\ mapping \in BOOLEAN /\ object \in BOOLEAN
  /\ runs \in [Runs -> ParseRun]
  /\ errors \in [Runs -> Nat]
  /\ job \in [Runs -> Job]
  /\ proc \in [Runs -> [RunNo -> ParserPc]]
  /\ req \in [Clients -> Request]
  /\ tick \in [Ticks -> {"idle", "delete", "done"}]

Fresh == [op |-> "none", pc |-> "idle", auto |-> FALSE, withMapping |-> FALSE,
          run |-> NoRun, number |-> 0, total |-> 0, valid |-> 0, errors |-> 0,
          answer |-> "none"]

Init ==
  /\ type = "csv" /\ rows = 0 /\ valid = 0 /\ start = "new"
  /\ upload = [status |-> "none", total |-> 0, valid |-> 0, errors |-> 0]
  /\ file = FALSE /\ mapping = FALSE /\ object = FALSE
  /\ runs = [r \in Runs |-> [status |-> "none", number |-> 0, total |-> 0, valid |-> 0]]
  /\ errors = [r \in Runs |-> 0]
  /\ job = [r \in Runs |-> [state |-> "none", run |-> 0, tries |-> 0, stalls |-> 0]]
  /\ proc = [r \in Runs |-> [n \in RunNo |-> "new"]]
  /\ req = [c \in Clients |-> Fresh]
  /\ tick = [t \in Ticks |-> "idle"]

Exists == upload.status \notin {"none", "deleted"}

\* UPDATE uploads SET status WHERE id: no other condition.
SetStatus(status) ==
  upload' = IF Exists THEN [upload EXCEPT !.status = status] ELSE upload

SetTotals(status, total, ok, wrong) ==
  upload' = IF Exists
            THEN [status |-> status, total |-> total, valid |-> ok, errors |-> wrong]
            ELSE upload

\* UPDATE upload_parse_runs SET status WHERE id.
SetRun(r, row) ==
  runs' = IF runs[r].status \in {"none", "gone"} THEN runs ELSE [runs EXCEPT ![r] = row]

\* DELETE FROM uploads cascades to files, mappings, parse runs and errors.
Cascade ==
  /\ upload' = IF Exists THEN [upload EXCEPT !.status = "deleted"] ELSE upload
  /\ file' = FALSE /\ mapping' = FALSE
  /\ runs' = [r \in Runs |-> IF runs[r].status = "none" THEN runs[r]
                             ELSE [runs[r] EXCEPT !.status = "gone"]]
  /\ errors' = [r \in Runs |-> 0]

(***************************************************************************)
(* The routes                                                              *)
(***************************************************************************)
store == <<file, mapping, object, errors>>
worker == <<job, proc>>

GoOn(c, from, to) ==
  /\ req[c].pc = from
  /\ req' = [req EXCEPT ![c].pc = to]

\* The request is answered, and its local variables but the run are gone.
Answered(c, answer) ==
  req' = [req EXCEPT ![c] = [Fresh EXCEPT !.op = req[c].op, !.pc = "done",
                                          !.run = req[c].run, !.answer = answer]]

\* POST /uploads/{csv,pdf}/start inserts the upload, then its file, and
\* answers with a presigned URL.  The rows of a PDF do not matter.
Start ==
  /\ start = "new"
  /\ start' = "file" /\ type' \in {"csv", "pdf"}
  /\ rows' \in {0, Rows} /\ valid' \in 0..rows'
  /\ type' = "pdf" => rows' = 0
  /\ upload' = [upload EXCEPT !.status = "pending"]
  /\ UNCHANGED <<store, runs, worker, req, tick>>

InsertFile ==
  /\ start = "file" /\ Exists
  /\ start' = "done"
  /\ file' = TRUE
  /\ UNCHANGED <<type, rows, valid, upload, mapping, object, runs, errors, worker,
                 req, tick>>

StartFails ==
  /\ start = "file"
  /\ start' = "failed"
  /\ UNCHANGED <<type, rows, valid, upload, store, runs, worker, req, tick>>

\* The client puts the file to the presigned URL, which expires in an hour: not
\* once a tick has found the upload older than that.
Put ==
  /\ start = "done" /\ ~object /\ \A t \in Ticks : tick[t] = "idle"
  /\ object' = TRUE
  /\ UNCHANGED <<input, upload, file, mapping, runs, errors, worker, req, tick>>

\* POST /uploads/{csv,pdf}/complete reads the upload, in whatever status, and
\* its file.  Only a CSV has a mapping.
CompleteRequest(c, auto, withMapping) ==
  /\ req[c].pc = "idle" /\ Exists /\ file
  /\ withMapping => type = "csv"
  /\ req' = [req EXCEPT ![c].op = "complete", ![c].auto = auto,
               ![c].withMapping = withMapping, ![c].number = 1,
               ![c].pc = IF withMapping THEN "mapping" ELSE "run"]
  /\ UNCHANGED <<input, upload, store, runs, worker, tick>>

\* INSERT INTO upload_mappings, one per upload and entity type.
InsertMapping(c) ==
  /\ req[c].pc = "mapping"
  /\ IF Exists /\ ~mapping
     THEN mapping' = TRUE /\ GoOn(c, "mapping", "run")
     ELSE mapping' = mapping /\ Answered(c, "error")
  /\ UNCHANGED <<input, upload, file, object, runs, errors, worker, tick>>

\* POST /uploads/:id/reprocess reads the latest run's number.
Reprocess(c) ==
  LET numbers == {0} \cup {runs[r].number : r \in {r \in Runs : runs[r].status # "none"}} IN
  /\ req[c].pc = "idle" /\ Exists /\ file
  /\ req' = [req EXCEPT ![c].op = "reprocess", ![c].auto = TRUE, ![c].pc = "run",
                        ![c].number = Max(numbers) + 1]
  /\ UNCHANGED <<input, upload, store, runs, worker, tick>>

\* INSERT INTO upload_parse_runs, whose foreign keys need upload and file.
InsertRun(c, r) ==
  /\ req[c].pc = "run" /\ Exists /\ file /\ runs[r].status = "none"
  /\ req' = [req EXCEPT ![c].pc = "status", ![c].run = r]
  /\ runs' = [runs EXCEPT ![r].status = "pending", ![r].number = req[c].number]
  /\ UNCHANGED <<input, upload, store, worker, tick>>

SetUploadStatus(c) ==
  /\ req[c].pc = "status"
  /\ SetStatus(IF req[c].auto THEN "processing" ELSE "completed")
  /\ CASE ~req[c].auto                -> Answered(c, "ok")
       [] req[c].op = "reprocess"     -> GoOn(c, "status", "enqueue")
       [] OTHER                       -> GoOn(c, "status", "depth")
  /\ UNCHANGED <<input, store, runs, worker, tick>>

\* canEnqueueJob counts the unsettled jobs rows of the type: 429 at the limit.
\* No row is these routes'; those of POST /admin/jobs/enqueue come and go.
CheckDepth(c) ==
  /\ req[c].pc = "depth"
  /\ GoOn(c, "depth", "enqueue") \/ Answered(c, "busy")
  /\ UNCHANGED <<input, upload, store, runs, worker, tick>>

Enqueue(c) ==
  /\ req[c].pc = "enqueue"
  /\ Answered(c, "ok")
  /\ job' = [job EXCEPT ![req[c].run].state = "waiting"]
  /\ UNCHANGED <<input, upload, store, runs, proc, tick>>

\* DELETE /uploads/:id: the object, if there is a file and the bucket obeys, and
\* then the rows.
Delete(c) ==
  /\ req[c].pc = "idle" /\ Exists
  /\ req' = [req EXCEPT ![c].op = "delete", ![c].pc = IF file THEN "object" ELSE "remove"]
  /\ UNCHANGED <<input, upload, store, runs, worker, tick>>

DeleteObject(c) ==
  /\ GoOn(c, "object", "remove")
  /\ object' \in {FALSE, object}
  /\ UNCHANGED <<input, upload, file, mapping, runs, errors, worker, tick>>

Remove(c) ==
  /\ req[c].pc = "remove"
  /\ Answered(c, "ok")
  /\ Cascade
  /\ UNCHANGED <<input, object, worker, tick>>

RequestFails(c) ==
  /\ req[c].pc \notin {"idle", "done", "fail"} /\ req[c].op # "finalize"
  /\ Answered(c, "error")
  /\ UNCHANGED <<input, upload, store, runs, worker, tick>>

(***************************************************************************)
(* The finalizer, which only POST /admin/jobs/enqueue can queue            *)
(***************************************************************************)
\* The upload's parse runs, the sums over them, and its error rows.
Present == {q \in Runs : runs[q].status \notin {"none", "gone"}}
ParsedRows == SumFunctionOnSet([q \in Runs |-> runs[q].total], Present)
ParsedValid == SumFunctionOnSet([q \in Runs |-> runs[q].valid], Present)
ErrorRows == SumFunction([q \in Runs |-> errors[q] * (rows - valid)])

Finalize(c, r) ==
  /\ req[c].pc = "idle" /\ runs[r].status # "none"
  /\ req' = [req EXCEPT ![c].op = "finalize", ![c].total = ParsedRows,
               ![c].pc = IF r \in Present THEN "count" ELSE "fail",
               ![c].valid = ParsedValid]
  /\ UNCHANGED <<input, upload, store, runs, worker, tick>>

CountErrors(c) ==
  /\ req[c].pc = "count"
  /\ req' = [req EXCEPT ![c].pc = "set_totals", ![c].errors = ErrorRows]
  /\ UNCHANGED <<input, upload, store, runs, worker, tick>>

SetFinalTotals(c) ==
  LET q == req[c] IN
  /\ q.pc = "set_totals"
  /\ SetTotals(IF q.valid = 0 /\ q.total > 0 THEN "failed" ELSE "completed",
               q.total, q.valid, q.errors)
  /\ Answered(c, "ok")
  /\ UNCHANGED <<input, store, runs, worker, tick>>

FinalizerThrows(c) ==
  /\ req[c].pc \in {"count", "set_totals"}
  /\ req' = [req EXCEPT ![c].pc = "fail"]
  /\ UNCHANGED <<input, upload, store, runs, worker, tick>>

FinalizeFailed(c) ==
  /\ req[c].pc = "fail"
  /\ SetStatus("failed")
  /\ Answered(c, "error")
  /\ UNCHANGED <<input, store, runs, worker, tick>>

(***************************************************************************)
(* The scheduler's cleanup                                                 *)
(***************************************************************************)
\* Pending, and created more than an hour ago.
ReadStale(t) ==
  /\ tick[t] = "idle" /\ upload.status = "pending"
  /\ tick' = [tick EXCEPT ![t] = "delete"]
  /\ UNCHANGED <<input, upload, store, runs, worker, req>>

\* Deletes by id what was stale when it was read; the bucket is left alone.
DeleteStale(t) ==
  /\ tick[t] = "delete"
  /\ tick' = [tick EXCEPT ![t] = "done"]
  /\ Cascade
  /\ UNCHANGED <<input, object, worker, req>>

(***************************************************************************)
(* The parsers, and BullMQ's part                                          *)
(***************************************************************************)
Live(r, n) == proc[r][n] \notin Over
Holds(r, n) == job[r].state = "active" /\ job[r].run = n

Advance(r, n, from, to) ==
  /\ proc[r][n] = from
  /\ proc' = [proc EXCEPT ![r][n] = to]

Fetch(r) ==
  LET n == job[r].run + 1 IN
  /\ job[r].state = "waiting" /\ n \in RunNo
  /\ job' = [job EXCEPT ![r].state = "active", ![r].run = n]
  /\ proc' = [proc EXCEPT ![r][n] = "mark_run"]
  /\ UNCHANGED <<input, upload, store, runs, req, tick>>

MarkRun(r, n) ==
  /\ Advance(r, n, "mark_run", "mark_upload")
  /\ SetRun(r, [runs[r] EXCEPT !.status = "running"])
  /\ UNCHANGED <<input, upload, store, job, req, tick>>

MarkUpload(r, n) ==
  /\ Advance(r, n, "mark_upload", "read")
  /\ SetStatus("processing")
  /\ UNCHANGED <<input, store, runs, job, req, tick>>

\* A variant for mutation: invalid rows are not recorded.
ReadFileForgettingErrors(r, n) ==
  /\ Advance(r, n, "read", IF ~file \/ ~object THEN "fail_run" ELSE "complete_run")
  /\ UNCHANGED <<input, upload, store, runs, job, req, tick>>

\* The file's row and the object, then parsing.  A missing or empty object
\* throws; a CSV with invalid rows has errors to insert.
ReadFile(r, n) ==
  /\ Advance(r, n, "read", IF ~file \/ ~object THEN "fail_run"
                           ELSE IF type = "csv" /\ valid < rows THEN "errors"
                           ELSE "complete_run")
  /\ UNCHANGED <<input, upload, store, runs, job, req, tick>>

\* A variant for mutation: no foreign key.
InsertErrorsAnyway(r, n) ==
  /\ Advance(r, n, "errors", "complete_run")
  /\ errors' = [errors EXCEPT ![r] = @ + 1]
  /\ UNCHANGED <<input, upload, file, mapping, object, runs, job, req, tick>>

\* INSERT INTO upload_parse_errors, whose foreign keys need upload and run.
InsertErrors(r, n) ==
  /\ IF Exists
     THEN /\ Advance(r, n, "errors", "complete_run")
          /\ errors' = [errors EXCEPT ![r] = @ + 1]
     ELSE Advance(r, n, "errors", "fail_run") /\ errors' = errors
  /\ UNCHANGED <<input, upload, file, mapping, object, runs, job, req, tick>>

\* A PDF counts its products, or 1.
CompleteRun(r, n) ==
  /\ Advance(r, n, "complete_run", "complete_upload")
  /\ \E k \in {1, Rows} :
       SetRun(r, [runs[r] EXCEPT !.status = "completed",
                    !.total = IF type = "csv" THEN rows ELSE k,
                    !.valid = IF type = "csv" THEN valid ELSE k])
  /\ UNCHANGED <<input, upload, store, job, req, tick>>

\* BullMQ settles the job only for the run that holds its lock.
Ended(r, n) ==
  job' = IF Holds(r, n) THEN [job EXCEPT ![r].state = "ended"] ELSE job

\* A CSV none of whose rows is valid has failed, one without rows too.
CompleteUpload(r, n) ==
  /\ Advance(r, n, "complete_upload", "returned")
  /\ IF type = "csv"
     THEN SetTotals(IF valid = 0 THEN "failed" ELSE "completed", rows, valid, rows - valid)
     ELSE SetTotals("completed", 1, 1, 0)
  /\ Ended(r, n)
  /\ UNCHANGED <<input, store, runs, req, tick>>

ParserThrows(r, n) ==
  /\ proc[r][n] \in InTry
  /\ proc' = [proc EXCEPT ![r][n] = "fail_run"]
  /\ UNCHANGED <<input, upload, store, runs, job, req, tick>>

\* A variant for mutation: the catch block forgets the parse run.
FailRunQuietly(r, n) ==
  /\ Advance(r, n, "fail_run", "fail_upload")
  /\ UNCHANGED <<input, upload, store, runs, job, req, tick>>

FailRun(r, n) ==
  /\ Advance(r, n, "fail_run", "fail_upload")
  /\ SetRun(r, [runs[r] EXCEPT !.status = "failed"])
  /\ UNCHANGED <<input, upload, store, job, req, tick>>

\* The processor returns { success: false }: the job has ended all the same.
FailUpload(r, n) ==
  /\ Advance(r, n, "fail_upload", "returned")
  /\ SetStatus("failed")
  /\ Ended(r, n)
  /\ UNCHANGED <<input, store, runs, req, tick>>

\* Outside the try block an error reaches BullMQ, which may retry.
HandlerThrows(r, n) ==
  /\ proc[r][n] \in {"mark_run", "mark_upload", "fail_run", "fail_upload"}
  /\ proc' = [proc EXCEPT ![r][n] = "threw"]
  /\ job' = IF Holds(r, n)
            THEN [job EXCEPT ![r].tries = @ + 1,
                    ![r].state = IF job[r].tries + 1 < MaxAttempts THEN "waiting" ELSE "failed"]
            ELSE job
  /\ UNCHANGED <<input, upload, store, runs, req, tick>>

Crash(r, n) ==
  /\ Live(r, n)
  /\ proc' = [proc EXCEPT ![r][n] = "dead"]
  /\ UNCHANGED <<input, upload, store, runs, job, req, tick>>

\* The lock of an active job has expired: its run is dead, or late.
Stalled(r) ==
  /\ job[r].state = "active"
  /\ job' = [job EXCEPT ![r].stalls = @ + 1,
               ![r].state = IF job[r].stalls < MaxStalls THEN "waiting" ELSE "failed"]
  /\ UNCHANGED <<input, upload, store, runs, proc, req, tick>>

(***************************************************************************)
(* The specification                                                       *)
(***************************************************************************)
RequestStep(c) ==
  \/ InsertMapping(c) \/ (\E r \in Runs : InsertRun(c, r))
  \/ SetUploadStatus(c) \/ CheckDepth(c) \/ Enqueue(c)
  \/ DeleteObject(c) \/ Remove(c) \/ RequestFails(c)
  \/ CountErrors(c) \/ SetFinalTotals(c) \/ FinalizerThrows(c) \/ FinalizeFailed(c)

NewRequest(c) ==
  \/ Reprocess(c) \/ Delete(c)
  \/ \E auto, withMapping \in BOOLEAN : CompleteRequest(c, auto, withMapping)
  \/ \E r \in Runs : Finalize(c, r)

ParserStep(r, n) ==
  \/ MarkRun(r, n) \/ MarkUpload(r, n) \/ ReadFile(r, n) \/ InsertErrors(r, n)
  \/ CompleteRun(r, n) \/ CompleteUpload(r, n) \/ ParserThrows(r, n)
  \/ FailRun(r, n) \/ FailUpload(r, n) \/ HandlerThrows(r, n)

Next ==
  \/ \E c \in Clients : NewRequest(c) \/ RequestStep(c)
  \/ Start \/ InsertFile \/ StartFails \/ Put
  \/ \E t \in Ticks : ReadStale(t) \/ DeleteStale(t)
  \/ \E r \in Runs : Fetch(r) \/ Stalled(r)
  \/ \E r \in Runs, n \in RunNo : ParserStep(r, n) \/ Crash(r, n)

Spec == Init /\ [][Next]_vars

(***************************************************************************)
(* Properties                                                              *)
(***************************************************************************)
\* What may still give the upload a verdict, or has failed to: a request on its
\* way to the queue, or refused there; a queued job, or one that BullMQ gave up;
\* a run before its verdict, or one that ended without any.
Owed(r) ==
  \/ \E c \in Clients : req[c].run = r /\ (req[c].pc # "done" \/ req[c].answer # "ok")
  \/ job[r].state \in {"waiting", "failed"}
  \/ \E n \in RunNo : Live(r, n) \/ proc[r][n] \in {"dead", "threw"}

\* An upload that says 'processing' has a run on its way, or a failure to show
\* for it (the routes queue last, the parser's catch block writes 'failed').
ProcessingHasACause == upload.status = "processing" => \E r \in Runs : Owed(r)

\* When the job of a parse run has ended, and no run of it lives on without its
\* lock or died, the parse run has a verdict, however often it was run.
RestingRunIsSettled ==
  \A r \in Runs :
    job[r].state = "ended" =>
      \/ runs[r].status \in {"completed", "failed", "gone"}
      \/ \E n \in RunNo : Live(r, n) \/ proc[r][n] \in {"dead", "threw"}

\* An upload's row count is never more than its completed runs have parsed, one
\* run or, after a finalize, all of them; its errors are rows some run inserted.
StatisticsAreEarned ==
  LET parsed == {r \in Runs : runs[r].total > 0}
      most == IF type = "csv" THEN rows ELSE Rows IN
  /\ upload.total <= most * Cardinality(parsed)
  /\ upload.valid <= upload.total
  /\ Exists => upload.errors <= ErrorRows

\* An upload is never left hanging: its status has a cause and its resting runs
\* have verdicts.
NothingStranded == ProcessingHasACause /\ RestingRunIsSettled

NothingReturns ==
  upload.status = "deleted" =>
    /\ upload'.status = "deleted" /\ ~file' /\ ~mapping'
    /\ \A r \in Runs : runs'[r].status \in {"none", "gone"} /\ errors'[r] = 0

\* Nothing of a deleted upload comes back, whatever requests and runs were
\* under way: no status, file, mapping, parse run or error row.
DeletedForGood == [][NothingReturns]_vars

\* Types, and the upload's statistics are those of its runs (the parsers, the
\* finalizer).
UploadsInv == TypeOK /\ StatisticsAreEarned
=============================================================================
