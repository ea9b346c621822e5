---------------------------- MODULE Uploads_proofs ----------------------------
(***************************************************************************)
(* Proofs about Uploads for any number of requests, ticks, parse runs,     *)
(* rows, attempts and stalls.  IInv is the inductive invariant of its      *)
(* control: the shape of the rows, what BullMQ has counted, who is about   *)
(* to queue which run, what a run of the parser leaves behind, and what is *)
(* gone with the upload.  StatInv, upon it, is that of the statistics:     *)
(* what a finalizer has read and what a parser has inserted is there, and  *)
(* no step but the upload's deletion takes any of it back (Accrues).  The  *)
(* sums over parse runs are folds of the library, about which SumAdds and  *)
(* the lemmas after it say what is needed.                                 *)
(***************************************************************************)
EXTENDS Uploads, TLAPS, FiniteSetTheorems, WellFoundedInduction

\* The fields of a request.
Fields == {"op", "pc", "auto", "withMapping", "run", "number", "total", "valid", "errors",
           "answer"}

\* The type invariant without the totals.
Shape ==
  /\ "status" \in DOMAIN upload /\ upload.status \in Status
  /\ DOMAIN req = Clients /\ \A c \in Clients : DOMAIN req[c] = Fields
  /\ DOMAIN runs = Runs /\ \A r \in Runs : "status" \in DOMAIN runs[r]
  /\ errors \in [Runs -> Nat]
  /\ job \in [Runs -> Job]
  /\ proc \in [Runs -> [RunNo -> ParserPc]]

\* Every run of a job but the one under way was paid for by an attempt or a stall.
PaidFor(r) ==
  /\ job[r].run <= job[r].tries + job[r].stalls
                     + (IF job[r].state \in {"active", "ended"} THEN 1 ELSE 0)
  /\ job[r].state \in {"none", "waiting", "active"}
       => job[r].tries < MaxAttempts /\ job[r].stalls <= MaxStalls
Paid == \A r \in Runs : PaidFor(r)

LEMMA GoOnFrame ==
  ASSUME Shape, NEW c \in Clients, NEW from, NEW to, GoOn(c, from, to)
  PROVE  /\ DOMAIN req' = Clients /\ DOMAIN req'[c] = Fields
         /\ \A d \in Clients : d # c => req'[d] = req[d]
         /\ req[c].pc = from /\ req'[c].pc = to
         /\ req'[c].run = req[c].run /\ req'[c].auto = req[c].auto
         /\ req'[c].op = req[c].op /\ req'[c].answer = req[c].answer
BY DEF GoOn, Shape, Fields

LEMMA AnsweredFrame ==
  ASSUME Shape, NEW c \in Clients, NEW answer, Answered(c, answer)
  PROVE  /\ DOMAIN req' = Clients /\ DOMAIN req'[c] = Fields
         /\ \A d \in Clients : d # c => req'[d] = req[d]
         /\ req'[c].pc = "done" /\ req'[c].run = req[c].run /\ req'[c].answer = answer
BY DEF Answered, Shape, Fields, Fresh

LEMMA NewFrame ==
  ASSUME Shape, NEW c \in Clients, NewRequest(c)
  PROVE  /\ DOMAIN req' = Clients /\ DOMAIN req'[c] = Fields
         /\ \A d \in Clients : d # c => req'[d] = req[d]
         /\ req[c].pc = "idle" /\ req'[c].pc \notin {"status", "depth", "enqueue", "idle", "done"}
         /\ req'[c].run = req[c].run
<1>1. CASE Reprocess(c)
  BY <1>1 DEF Reprocess, Shape, Fields
<1>2. CASE Delete(c)
  BY <1>2 DEF Delete, Shape, Fields
<1>3. CASE \E auto, withMapping \in BOOLEAN : CompleteRequest(c, auto, withMapping)
  <2>1. PICK auto, withMapping \in BOOLEAN : CompleteRequest(c, auto, withMapping)
    BY <1>3
  <2>2. CASE withMapping
    BY <2>1, <2>2 DEF CompleteRequest, Shape, Fields
  <2>3. CASE ~withMapping
    BY <2>1, <2>3 DEF CompleteRequest, Shape, Fields
  <2> QED
    BY <2>2, <2>3
<1>4. CASE \E r \in Runs : Finalize(c, r)
  <2>1. PICK r \in Runs : Finalize(c, r)
    BY <1>4
  <2>2. CASE r \in Present
    BY <2>1, <2>2 DEF Finalize, Shape, Fields
  <2>3. CASE r \notin Present
    BY <2>1, <2>3 DEF Finalize, Shape, Fields
  <2> QED
    BY <2>2, <2>3
<1> QED
  BY <1>1, <1>2, <1>3, <1>4 DEF NewRequest

\* Where a step of a request can leave it, and the rest of the state.
LEMMA RequestFrame ==
  ASSUME Shape, NEW c \in Clients, RequestStep(c)
  PROVE  /\ DOMAIN req' = Clients /\ DOMAIN req'[c] = Fields
         /\ \A d \in Clients : d # c => req'[d] = req[d]
         /\ \/ req'[c].run = req[c].run
            \/ \E r \in Runs : InsertRun(c, r) /\ req'[c].run = r /\ req'[c].pc = "status"
         /\ req'[c].pc = "done" /\ req'[c].answer = "ok"
              => SetUploadStatus(c) \/ Enqueue(c) \/ Remove(c) \/ SetFinalTotals(c)
         /\ req'[c].pc \in {"depth", "enqueue"} => req[c].pc \in {"status", "depth"}
         /\ req'[c].pc = "status" => \E r \in Runs : InsertRun(c, r)
<1>1. CASE InsertMapping(c)
  <2>1. CASE GoOn(c, "mapping", "run")
    BY <2>1, GoOnFrame
  <2>2. CASE Answered(c, "error")
    BY <2>2, AnsweredFrame
  <2> QED
    BY <1>1, <2>1, <2>2 DEF InsertMapping
<1>2. ASSUME NEW r \in Runs, InsertRun(c, r) 
      PROVE  /\ DOMAIN req' = Clients /\ DOMAIN req'[c] = Fields
             /\ \A d \in Clients : d # c => req'[d] = req[d]
             /\ req'[c].run = r /\ req'[c].pc = "status"
  BY <1>2 DEF InsertRun, Shape, Fields
<1>3. CASE SetUploadStatus(c)
  <2>1. CASE Answered(c, "ok")
    BY <1>3, <2>1, AnsweredFrame
  <2>2. CASE GoOn(c, "status", "enqueue")
    BY <2>2, GoOnFrame
  <2>3. CASE GoOn(c, "status", "depth")
    BY <2>3, GoOnFrame
  <2> QED
    BY <1>3, <2>1, <2>2, <2>3 DEF SetUploadStatus
<1>4. CASE CheckDepth(c)
  <2>1. CASE GoOn(c, "depth", "enqueue")
    BY <2>1, GoOnFrame
  <2>2. CASE Answered(c, "busy")
    BY <2>2, AnsweredFrame
  <2> QED
    BY <1>4, <2>1, <2>2 DEF CheckDepth
<1>5. CASE Enqueue(c)
  BY <1>5, AnsweredFrame DEF Enqueue
<1>6. CASE DeleteObject(c)
  BY <1>6, GoOnFrame DEF DeleteObject
<1>7. CASE Remove(c)
  BY <1>7, AnsweredFrame DEF Remove
<1>8. CASE RequestFails(c)
  BY <1>8, AnsweredFrame DEF RequestFails
<1>9. CASE CountErrors(c)
  BY <1>9 DEF CountErrors, Shape, Fields
<1>10. CASE SetFinalTotals(c)
  BY <1>10, AnsweredFrame DEF SetFinalTotals
<1>11. CASE FinalizerThrows(c)
  BY <1>11 DEF FinalizerThrows, Shape, Fields
<1>12. CASE FinalizeFailed(c)
  BY <1>12, AnsweredFrame DEF FinalizeFailed
<1> QED
  BY <1>1, <1>2, <1>3, <1>4, <1>5, <1>6, <1>7, <1>8, <1>9, <1>10, <1>11, <1>12
  DEF RequestStep

\* A parser's step moves its own run, never to 'new', and settles its job or
\* leaves it alone.
LEMMA ParserFrame ==
  ASSUME Shape, NEW r \in Runs, NEW n \in RunNo, ParserStep(r, n) \/ Crash(r, n)
  PROVE  /\ proc' \in [Runs -> [RunNo -> ParserPc]]
         /\ \A q \in Runs, m \in RunNo : q # r \/ m # n => proc'[q][m] = proc[q][m]
         /\ Live(r, n) /\ proc'[r][n] # "new"
         /\ UNCHANGED <<start, file, mapping, req, tick>>
<1>1. ASSUME NEW from, NEW to \in ParserPc, Advance(r, n, from, to)
      PROVE  /\ proc' \in [Runs -> [RunNo -> ParserPc]]
             /\ \A q \in Runs, m \in RunNo : q # r \/ m # n => proc'[q][m] = proc[q][m]
             /\ proc'[r][n] = to /\ proc[r][n] = from
  BY <1>1 DEF Advance, Shape
<1> USE DEF Live, Over, store, input, worker
<1>2. CASE MarkRun(r, n)
  BY <1>1, <1>2 DEF MarkRun, ParserPc
<1>3. CASE MarkUpload(r, n)
  BY <1>1, <1>3 DEF MarkUpload, ParserPc
<1>4. CASE ReadFile(r, n)
  BY <1>1, <1>4 DEF ReadFile, ParserPc
<1>5. CASE InsertErrors(r, n)
  BY <1>1, <1>5 DEF InsertErrors, ParserPc
<1>6. CASE CompleteRun(r, n)
  BY <1>1, <1>6 DEF CompleteRun, ParserPc
<1>7. CASE CompleteUpload(r, n)
  BY <1>1, <1>7 DEF CompleteUpload, ParserPc
<1>8. CASE ParserThrows(r, n)
  BY <1>8 DEF ParserThrows, ParserPc, Shape, InTry
<1>9. CASE FailRun(r, n)
  BY <1>1, <1>9 DEF FailRun, ParserPc
<1>10. CASE FailUpload(r, n)
  BY <1>1, <1>10 DEF FailUpload, ParserPc
<1>11. CASE HandlerThrows(r, n)
  BY <1>11 DEF HandlerThrows, ParserPc, Shape
<1>12. CASE Crash(r, n)
  BY <1>12 DEF Crash, ParserPc, Shape
<1> QED
  BY <1>2, <1>3, <1>4, <1>5, <1>6, <1>7, <1>8, <1>9, <1>10, <1>11, <1>12
  DEF ParserStep

(***************************************************************************)
(* The inductive invariant                                                 *)
(***************************************************************************)
\* A request that has inserted its parse run, and no other, will queue its job.
AboutToQueue(c) == req[c].pc \in {"status", "depth", "enqueue"}
Queued ==
  /\ \A c \in Clients : AboutToQueue(c) =>
       /\ req[c].run \in Runs /\ runs[req[c].run].status # "none"
       /\ job[req[c].run].state = "none"
       /\ \A d \in Clients : AboutToQueue(d) /\ req[d].run = req[c].run => d = c
  /\ \A r \in Runs : job[r].state # "none" \/ (\E n \in RunNo : proc[r][n] # "new")
                       => runs[r].status # "none"

\* Before a verdict on the parse run, and without one.
Unsettled == {"mark_run", "mark_upload", "read", "errors", "complete_run", "fail_run",
              "dead", "threw"}

Settled(r) ==
  runs[r].status \in {"completed", "failed", "gone"} \/ \E n \in RunNo : proc[r][n] \in Unsettled

\* Once the parser has started for a parse run, it is settled, or a run of the
\* parser is before its verdict or has ended without any.
Covered ==
  \A r \in Runs :
    /\ job[r].state = "ended" => \E n \in RunNo : proc[r][n] # "new"
    /\ (\E n \in RunNo : proc[r][n] # "new") => Settled(r)

\* What is not there has no file, mapping, errors or parse runs, and what is
\* deleted was started.
Nothing ==
  ~Exists =>
    /\ ~file /\ ~mapping
    /\ \A r \in Runs : runs[r].status \in {"none", "gone"} /\ errors[r] = 0
Started == upload.status = "none" <=> start = "new"

IInv == Shape /\ Paid /\ Queued /\ Covered /\ Nothing /\ Started /\ ProcessingHasACause

LEMMA InitIInv == Init => IInv
<1> SUFFICES ASSUME Init PROVE IInv
  OBVIOUS
<1>1. 0 \in 0..MaxAttempts /\ 0 \in 0..(MaxStalls + 1)
  BY Sizes
<1>2. Shape
  BY <1>1 DEF Init, Shape, Fresh, Fields, Status, Job, ParserPc
<1>3. Paid
  BY Sizes DEF Init, Paid, PaidFor
<1>4. Queued /\ Covered /\ Nothing /\ Started /\ ProcessingHasACause
  BY DEF Init, Queued, AboutToQueue, Covered, Nothing, Started, ProcessingHasACause, Exists, Fresh
<1> QED
  BY <1>2, <1>3, <1>4 DEF IInv

LEMMA SetStatusFrame ==
  ASSUME Shape, NEW status \in Status, SetStatus(status)
  PROVE  /\ "status" \in DOMAIN upload' /\ upload'.status \in Status
         /\ upload'.status = IF Exists THEN status ELSE upload.status
BY DEF SetStatus, Shape

LEMMA SetTotalsFrame ==
  ASSUME Shape, NEW status \in Status, NEW total, NEW ok, NEW wrong,
         SetTotals(status, total, ok, wrong)
  PROVE  /\ "status" \in DOMAIN upload' /\ upload'.status \in Status
         /\ upload'.status = IF Exists THEN status ELSE upload.status
BY DEF SetTotals, Shape

LEMMA SetRunFrame ==
  ASSUME Shape, NEW r \in Runs, NEW new, "status" \in DOMAIN new, SetRun(r, new)
  PROVE  /\ DOMAIN runs' = Runs
         /\ \A q \in Runs : "status" \in DOMAIN runs'[q]
         /\ \A q \in Runs : q # r => runs'[q] = runs[q]
         /\ runs'[r].status = IF runs[r].status \in {"none", "gone"} THEN runs[r].status
                              ELSE new.status
BY DEF SetRun, Shape

LEMMA CascadeFrame ==
  ASSUME Shape, Cascade
  PROVE  /\ "status" \in DOMAIN upload' /\ upload'.status \in Status
         /\ upload'.status = IF Exists THEN "deleted" ELSE upload.status
         /\ DOMAIN runs' = Runs /\ \A r \in Runs : "status" \in DOMAIN runs'[r]
         /\ \A r \in Runs : runs'[r].status = IF runs[r].status = "none" THEN "none" ELSE "gone"
         /\ errors' = [r \in Runs |-> 0] /\ ~file' /\ ~mapping'
BY DEF Cascade, Shape, Status

\* What a request's step does to the upload and its parse runs.
LEMMA RequestEffect ==
  ASSUME Shape, NEW c \in Clients, RequestStep(c)
  PROVE  \/ /\ UNCHANGED <<upload, runs, errors, job, proc, file, start>>
            /\ mapping' # mapping => Exists
         \/ /\ \E status \in {"processing", "completed", "failed"} :
                 SetStatus(status) /\ (status = "processing" => SetUploadStatus(c))
            /\ UNCHANGED <<runs, errors, job, proc, file, mapping, start>>
         \/ /\ SetFinalTotals(c)
            /\ UNCHANGED <<runs, errors, job, proc, file, mapping, start>>
         \/ /\ \E r \in Runs : InsertRun(c, r) 
            /\ UNCHANGED <<upload, errors, job, proc, file, mapping, start>>
         \/ Enqueue(c)
         \/ Cascade /\ UNCHANGED <<job, proc, start>>
<1> USE DEF store, worker, input
<1>1. CASE SetUploadStatus(c) \/ FinalizeFailed(c)
  BY <1>1 DEF SetUploadStatus, FinalizeFailed
<1>2. CASE SetFinalTotals(c)
  BY <1>2 DEF SetFinalTotals
<1>3. CASE \E r \in Runs : InsertRun(c, r)
  BY <1>3 DEF InsertRun
<1>4. CASE Remove(c)
  BY <1>4 DEF Remove
<1>5. CASE Enqueue(c)
  BY <1>5
<1>6. CASE InsertMapping(c)
  BY <1>6 DEF InsertMapping
<1>7. CASE CheckDepth(c) \/ DeleteObject(c) \/ RequestFails(c) \/ CountErrors(c) \/ FinalizerThrows(c)
  BY <1>7 DEF CheckDepth, DeleteObject, RequestFails, CountErrors, FinalizerThrows
<1> QED
  BY <1>1, <1>2, <1>3, <1>4, <1>5, <1>6, <1>7 DEF RequestStep

\* What a parser's step, or its death, does to the upload, its parse run and its
\* error rows.
LEMMA ParserEffect ==
  ASSUME Shape, NEW r \in Runs, NEW n \in RunNo, ParserStep(r, n) \/ Crash(r, n)
  PROVE  /\ "status" \in DOMAIN upload' /\ upload'.status \in Status
         /\ IF Exists THEN upload'.status \notin {"none", "deleted"}
                      ELSE upload'.status = upload.status
         /\ upload'.status = "processing" =>
              /\ upload.status = "processing" \/ proc'[r][n] = "read"
              /\ proc'[r][n] # "returned"
         /\ DOMAIN runs' = Runs /\ \A q \in Runs : "status" \in DOMAIN runs'[q]
         /\ \A q \in Runs : q # r => runs'[q] = runs[q]
         /\ runs[r].status \in {"none", "gone"} => runs'[r].status = runs[r].status
         /\ runs[r].status # "none" => runs'[r].status # "none"
         /\ \/ runs' = runs /\ (proc[r][n] \in {"complete_upload", "fail_upload"}
                                  \/ proc'[r][n] \in Unsettled)
            \/ proc'[r][n] = "mark_upload"
            \/ runs[r].status # "none" => runs'[r].status \in {"completed", "failed", "gone"}
         /\ errors' \in [Runs -> Nat] /\ (errors' # errors => Exists)
<1> USE DEF input, worker, store
<1>1. CASE MarkRun(r, n)
  <2>1. "status" \in DOMAIN [runs[r] EXCEPT !.status = "running"]
          /\ [runs[r] EXCEPT !.status = "running"].status = "running"
    BY DEF Shape
  <2>2. UNCHANGED <<upload, errors>> /\ proc'[r][n] = "mark_upload"
    BY <1>1 DEF MarkRun, Advance, Shape
  <2>3. SetRun(r, [runs[r] EXCEPT !.status = "running"])
    BY <1>1 DEF MarkRun
  <2> QED
    BY <2>1, <2>2, <2>3, SetRunFrame DEF Exists, Shape
<1>2. CASE MarkUpload(r, n)
  <2>1. UNCHANGED <<runs, errors>> /\ proc'[r][n] = "read" /\ SetStatus("processing")
    BY <1>2 DEF MarkUpload, Advance, Shape
  <2> QED
    BY <2>1, SetStatusFrame DEF Exists, Shape, Status, Unsettled
<1>3. CASE ReadFile(r, n) \/ ParserThrows(r, n) \/ Crash(r, n) \/ HandlerThrows(r, n)
  <2>1. UNCHANGED <<upload, runs, errors>>
    BY <1>3 DEF ReadFile, ParserThrows, Crash, HandlerThrows
  <2>2. proc'[r][n] \in {"fail_run", "errors", "complete_run", "dead", "threw"}
    BY <1>3 DEF ReadFile, ParserThrows, Crash, HandlerThrows, Advance, Shape
  <2> QED
    BY <2>1, <2>2 DEF Exists, Shape, Unsettled
<1>4. CASE InsertErrors(r, n)
  <2>1. UNCHANGED <<upload, runs>> /\ proc'[r][n] \in {"complete_run", "fail_run"}
    BY <1>4 DEF InsertErrors, Advance, Shape
  <2>2. errors' \in [Runs -> Nat] /\ (errors' # errors => Exists)
    BY <1>4 DEF InsertErrors, Shape
  <2> QED
    BY <2>1, <2>2 DEF Exists, Shape, Unsettled
<1>5. CASE CompleteRun(r, n)
  <2>1. UNCHANGED <<upload, errors>> /\ proc'[r][n] = "complete_upload"
    BY <1>5 DEF CompleteRun, Advance, Shape
  <2>2. PICK new : SetRun(r, new) /\ "status" \in DOMAIN new /\ new.status = "completed"
    <3>1. PICK k \in {1, Rows} :
            SetRun(r, [runs[r] EXCEPT !.status = "completed",
                         !.total = IF type = "csv" THEN rows ELSE k,
                         !.valid = IF type = "csv" THEN valid ELSE k])
      BY <1>5 DEF CompleteRun
    <3> DEFINE new == [runs[r] EXCEPT !.status = "completed",
                         !.total = IF type = "csv" THEN rows ELSE k,
                         !.valid = IF type = "csv" THEN valid ELSE k]
    <3>2. "status" \in DOMAIN new /\ new.status = "completed"
      BY DEF Shape
    <3> QED
      BY <3>1, <3>2
  <2> QED
    BY <2>1, <2>2, SetRunFrame DEF Exists, Shape
<1>6. CASE FailRun(r, n)
  <2>1. UNCHANGED <<upload, errors>> /\ proc'[r][n] = "fail_upload"
    BY <1>6 DEF FailRun, Advance, Shape
  <2>2. PICK new : SetRun(r, new) /\ "status" \in DOMAIN new /\ new.status = "failed"
    BY <1>6 DEF FailRun, Shape
  <2> QED
    BY <2>1, <2>2, SetRunFrame DEF Exists, Shape
<1>7. CASE CompleteUpload(r, n)
  <2>1. /\ UNCHANGED <<runs, errors>>
        /\ proc[r][n] = "complete_upload" /\ proc'[r][n] = "returned"
    BY <1>7 DEF CompleteUpload, Advance, Shape
  <2>2. "status" \in DOMAIN upload' /\ upload'.status \in Status
        /\ upload'.status \in IF Exists THEN {"completed", "failed"} ELSE {upload.status}
    <3>1. CASE type = "csv"
      <4>1. CASE valid = 0
        BY <1>7, <3>1, <4>1, SetTotalsFrame DEF CompleteUpload, Status
      <4>2. CASE valid # 0
        BY <1>7, <3>1, <4>2, SetTotalsFrame DEF CompleteUpload, Status
      <4> QED
        BY <4>1, <4>2
    <3>2. CASE type # "csv"
      BY <1>7, <3>2, SetTotalsFrame DEF CompleteUpload, Status
    <3> QED
      BY <3>1, <3>2
  <2> QED
    BY <2>1, <2>2 DEF Exists, Shape
<1>8. CASE FailUpload(r, n)
  <2>1. /\ UNCHANGED <<runs, errors>> /\ SetStatus("failed")
        /\ proc[r][n] = "fail_upload" /\ proc'[r][n] = "returned"
    BY <1>8 DEF FailUpload, Advance, Shape
  <2> QED
    BY <2>1, SetStatusFrame DEF Exists, Shape, Status
<1> QED
  BY <1>1, <1>2, <1>3, <1>4, <1>5, <1>6, <1>7, <1>8 DEF ParserStep

\* BullMQ's part of a parser's step: it settles the job only for the run that
\* holds its lock.
LEMMA JobEffect ==
  ASSUME Shape, Paid, NEW r \in Runs, NEW n \in RunNo, ParserStep(r, n) \/ Crash(r, n)
  PROVE  /\ job' \in [Runs -> Job] /\ Paid'
         /\ \A q \in Runs : job'[q] # job[q] => q = r /\ job[r].state = "active"
         /\ job'[r].state = "none" <=> job[r].state = "none"
<1> USE Sizes DEF input, worker, store
<1>1. CASE UNCHANGED job
  BY <1>1 DEF Shape, Paid, PaidFor, Job
<1>2. CASE Holds(r, n) /\ job' = [job EXCEPT ![r].state = "ended"]
  <2>1. \A q \in Runs : q # r => job'[q] = job[q]
    BY <1>2 DEF Shape
  <2>2. job'[r] = [job[r] EXCEPT !.state = "ended"] /\ job[r].state = "active"
    BY <1>2 DEF Holds, Shape
  <2>3. job' \in [Runs -> Job]
    <3>1. job[r] \in Job
      BY DEF Shape
    <3>2. job'[r] \in Job
      BY <2>2, <3>1 DEF Job
    <3> QED
      BY <1>2, <2>1, <3>2 DEF Shape
  <2>4. Paid'
    BY <2>1, <2>2 DEF Paid, PaidFor, Shape, Job
  <2> QED
    BY <2>1, <2>2, <2>3, <2>4 DEF Shape, Job
<1>3. CASE HandlerThrows(r, n) /\ Holds(r, n)
  <2>1. PICK state \in {"waiting", "failed"} :
          /\ job' = [job EXCEPT ![r].tries = @ + 1, ![r].state = state]
          /\ state = "waiting" => job[r].tries + 1 < MaxAttempts
    BY <1>3 DEF HandlerThrows
  <2>2. \A q \in Runs : q # r => job'[q] = job[q]
    BY <2>1 DEF Shape
  <2>3. /\ job'[r] = [job[r] EXCEPT !.tries = job[r].tries + 1, !.state = state]
        /\ job[r].state = "active"
    BY <1>3, <2>1 DEF Holds, Shape
  <2>4. /\ job[r] \in Job /\ job[r].tries + 1 \in 0..MaxAttempts
        /\ job[r].run \in Int /\ job[r].tries \in Int /\ job[r].stalls \in Int
    BY <2>3 DEF Paid, PaidFor, Shape, Job, RunNo
  <2>5. job'[r] \in Job
    BY <2>3, <2>4 DEF Job
  <2>6. job' \in [Runs -> Job]
    BY <2>1, <2>2, <2>5 DEF Shape
  <2>7. Paid'
    <3> SUFFICES ASSUME NEW q \in Runs PROVE PaidFor(q)'
      BY DEF Paid
    <3>1. CASE q = r
      <4>1. /\ job'[r].tries = job[r].tries + 1 /\ job'[r].run = job[r].run
            /\ job'[r].stalls = job[r].stalls /\ job'[r].state = state
        BY <2>3, <2>4 DEF Job
      <4>2. PaidFor(r)
        BY DEF Paid
      <4> QED
        BY <2>1, <2>3, <2>4, <3>1, <4>1, <4>2 DEF PaidFor
    <3>2. CASE q # r
      BY <2>2, <3>2 DEF Paid, PaidFor
    <3> QED
      BY <3>1, <3>2
  <2> QED
    BY <2>2, <2>3, <2>4, <2>6, <2>7 DEF Job
<1>4. CASE HandlerThrows(r, n) /\ ~Holds(r, n)
  BY <1>1, <1>4 DEF HandlerThrows
<1>5. CASE CompleteUpload(r, n)
  BY <1>1, <1>2, <1>5 DEF CompleteUpload, Ended
<1>6. CASE FailUpload(r, n)
  BY <1>1, <1>2, <1>6 DEF FailUpload, Ended
<1>7. CASE \/ MarkRun(r, n) \/ MarkUpload(r, n) \/ ReadFile(r, n) \/ InsertErrors(r, n)
           \/ CompleteRun(r, n) \/ ParserThrows(r, n) \/ FailRun(r, n) \/ Crash(r, n)
  BY <1>1, <1>7 DEF MarkRun, MarkUpload, ReadFile, InsertErrors, CompleteRun, ParserThrows,
                    FailRun, Crash
<1> QED
  BY <1>3, <1>4, <1>5, <1>6, <1>7 DEF ParserStep

(***************************************************************************)
(* Preservation, one conjunct at a time                                    *)
(***************************************************************************)
\* The kinds of steps, as the conjuncts tell them apart.
Quiet ==
  \/ InsertFile \/ StartFails \/ Put \/ UNCHANGED vars
  \/ \E t \in Ticks : ReadStale(t)
Asks(c) == NewRequest(c) \/ RequestStep(c)
Parses(r, n) == ParserStep(r, n) \/ Crash(r, n)

LEMMA StepKinds ==
  ASSUME [Next]_vars
  PROVE  \/ Quiet \/ Start
         \/ \E c \in Clients : Asks(c)
         \/ \E t \in Ticks : DeleteStale(t)
         \/ \E r \in Runs : Fetch(r) \/ Stalled(r)
         \/ \E r \in Runs, n \in RunNo : Parses(r, n)
BY DEF Next, Quiet, Asks, Parses

LEMMA QuietFrame ==
  ASSUME Quiet
  PROVE  /\ UNCHANGED <<upload, mapping, runs, errors, job, proc, req>>
         /\ file' # file => Exists
         /\ start' = start \/ (start = "file" /\ start' # "new")
<1> USE DEF input, store, worker
<1>1. CASE InsertFile
  BY <1>1 DEF InsertFile
<1>2. CASE StartFails
  BY <1>2 DEF StartFails
<1>3. CASE Put
  BY <1>3 DEF Put
<1>4. CASE UNCHANGED vars
  BY <1>4 DEF vars
<1>5. ASSUME NEW t \in Ticks, ReadStale(t)
      PROVE  UNCHANGED <<start, upload, file, mapping, runs, errors, job, proc, req>>
  BY <1>5 DEF ReadStale
<1> QED
  BY <1>1, <1>2, <1>3, <1>4, <1>5 DEF Quiet

LEMMA AsksFrame ==
  ASSUME Shape, NEW c \in Clients, Asks(c)
  PROVE  /\ DOMAIN req' = Clients /\ DOMAIN req'[c] = Fields
         /\ \A d \in Clients : d # c => req'[d] = req[d]
         /\ start' = start /\ proc' = proc
BY NewFrame, RequestFrame, RequestEffect
   DEF Asks, NewRequest, Reprocess, Delete, CompleteRequest, Finalize, input, worker,
       SetFinalTotals, Enqueue, InsertRun, SetUploadStatus

LEMMA FetchFrame ==
  ASSUME Shape, Paid, NEW r \in Runs, Fetch(r) \/ Stalled(r)
  PROVE  /\ UNCHANGED <<start, upload, file, mapping, errors, runs, req>>
         /\ job' \in [Runs -> Job] /\ Paid'
         /\ proc' \in [Runs -> [RunNo -> ParserPc]]
         /\ \A q \in Runs : q # r => job'[q] = job[q] /\ proc'[q] = proc[q]
         /\ job[r].state # "none" /\ job'[r].state # "none" /\ job'[r].state # "ended"
         /\ \/ proc' = proc /\ job'[r].state \in {"waiting", "failed"}
            \/ \E n \in RunNo : /\ proc'[r][n] = "mark_run"
                                /\ \A m \in RunNo : m # n => proc'[r][m] = proc[r][m]
<1> USE Sizes DEF input, store, worker
<1>0. /\ job[r] \in Job /\ job[r].run \in Int /\ job[r].tries \in Int /\ job[r].stalls \in Int
      /\ PaidFor(r)
  BY DEF Shape, Job, RunNo, Paid
<1>1. CASE Fetch(r)
  <2> DEFINE n == job[r].run + 1
  <2>1. /\ job[r].state = "waiting" /\ n \in RunNo
        /\ job' = [job EXCEPT ![r] = [job[r] EXCEPT !.state = "active", !.run = n]]
        /\ proc' = [proc EXCEPT ![r][n] = "mark_run"]
        /\ UNCHANGED <<start, upload, file, mapping, errors, runs, req>>
    BY <1>1 DEF Fetch, Shape
  <2>2. job'[r] = [state |-> "active", run |-> n, tries |-> job[r].tries,
                   stalls |-> job[r].stalls]
    BY <1>0, <2>1 DEF Shape, Job
  <2> HIDE DEF n
  <2>3. /\ job'[r] \in Job
        /\ job'[r].state = "active" /\ job'[r].run = n
        /\ job'[r].tries = job[r].tries /\ job'[r].stalls = job[r].stalls
    BY <1>0, <2>1, <2>2 DEF Job
  <2>4. \A q \in Runs : q # r => job'[q] = job[q] /\ proc'[q] = proc[q]
    BY <2>1 DEF Shape
  <2>5. PaidFor(r)'
    BY <1>0, <2>1, <2>3 DEF PaidFor, n
  <2>6. Paid'
    BY <2>4, <2>5 DEF Paid, PaidFor
  <2>7. job' \in [Runs -> Job]
    BY <2>1, <2>3, <2>4 DEF Shape
  <2>8. /\ proc' \in [Runs -> [RunNo -> ParserPc]] /\ proc'[r][n] = "mark_run"
        /\ \A m \in RunNo : m # n => proc'[r][m] = proc[r][m]
    BY <2>1 DEF Shape, ParserPc
  <2> QED
    BY <2>1, <2>3, <2>4, <2>6, <2>7, <2>8
<1>2. CASE Stalled(r)
  <2>1. PICK state \in {"waiting", "failed"} :
          /\ job[r].state = "active"
          /\ job' = [job EXCEPT ![r] = [job[r] EXCEPT !.stalls = job[r].stalls + 1,
                                                      !.state = state]]
          /\ state = "waiting" => job[r].stalls < MaxStalls
          /\ UNCHANGED <<start, upload, file, mapping, errors, runs, req, proc>>
    BY <1>2 DEF Stalled, Shape
  <2>2. job'[r] = [state |-> state, run |-> job[r].run, tries |-> job[r].tries,
                   stalls |-> job[r].stalls + 1]
    BY <1>0, <2>1 DEF Shape, Job
  <2>3. /\ job'[r] \in Job
        /\ job'[r].state = state /\ job'[r].run = job[r].run
        /\ job'[r].tries = job[r].tries /\ job'[r].stalls = job[r].stalls + 1
    BY <1>0, <2>1, <2>2 DEF Job, PaidFor
  <2>4. \A q \in Runs : q # r => job'[q] = job[q]
    BY <2>1 DEF Shape
  <2>5. PaidFor(r)'
    BY <1>0, <2>1, <2>3 DEF PaidFor
  <2>6. Paid'
    BY <2>4, <2>5 DEF Paid, PaidFor
  <2>7. job' \in [Runs -> Job]
    BY <2>1, <2>3, <2>4 DEF Shape
  <2> QED
    BY <2>1, <2>3, <2>4, <2>6, <2>7 DEF Shape
<1> QED
  BY <1>1, <1>2

LEMMA EnqueueFrame ==
  ASSUME Shape, Paid, Queued, NEW c \in Clients, Enqueue(c)
  PROVE  /\ req[c].run \in Runs
         /\ job[req[c].run].state = "none" /\ job'[req[c].run].state = "waiting"
         /\ \A q \in Runs : q # req[c].run => job'[q] = job[q]
         /\ job' \in [Runs -> Job] /\ Paid'
         /\ UNCHANGED <<start, upload, file, mapping, runs, errors, proc>>
<1> DEFINE r == req[c].run
<1>1. /\ r \in Runs /\ job[r] \in Job /\ PaidFor(r) /\ job[r].state = "none"
      /\ job' = [job EXCEPT ![r] = [job[r] EXCEPT !.state = "waiting"]]
      /\ UNCHANGED <<start, upload, file, mapping, runs, errors, proc>>
  BY DEF Enqueue, Queued, AboutToQueue, Shape, Paid, store, input
<1>2. job'[r] = [state |-> "waiting", run |-> job[r].run, tries |-> job[r].tries,
                 stalls |-> job[r].stalls]
  BY <1>1 DEF Shape, Job
<1>3. \A q \in Runs : q # r => job'[q] = job[q]
  BY <1>1 DEF Shape
<1> HIDE DEF r
<1>4. job'[r] \in Job /\ PaidFor(r)'
  <2>1. /\ job'[r].state = "waiting" /\ job'[r].run = job[r].run
        /\ job'[r].tries = job[r].tries /\ job'[r].stalls = job[r].stalls
    BY <1>2
  <2>2. r' = r
    BY AnsweredFrame DEF Enqueue, r
  <2> QED
    BY <1>1, <1>2, <2>1, <2>2 DEF Job, PaidFor
<1>5. job' \in [Runs -> Job]
  BY <1>1, <1>3, <1>4 DEF Shape
<1>6. ASSUME NEW q \in Runs PROVE PaidFor(q)'
  <2>1. r' = r
    BY AnsweredFrame DEF Enqueue, r
  <2> QED
    BY <1>3, <1>4, <2>1 DEF Paid, PaidFor
<1> QED
  BY <1>1, <1>2, <1>3, <1>5, <1>6 DEF Paid, r

LEMMA ShapeStep ==
  ASSUME Shape, Paid, Queued, [Next]_vars
  PROVE  Shape' /\ Paid'
<1>1. CASE Quiet
  BY <1>1, QuietFrame DEF Shape, Paid, PaidFor
<1>2. CASE Start
  BY <1>2 DEF Start, Shape, Paid, PaidFor, store, worker, Status
<1>3. ASSUME NEW c \in Clients, NewRequest(c) PROVE Shape' /\ Paid'
  <2>1. UNCHANGED <<upload, runs, errors, job, proc>>
    BY <1>3 DEF NewRequest, Reprocess, Delete, CompleteRequest, Finalize, store, worker
  <2> QED
    BY <1>3, <2>1, AsksFrame DEF Asks, Shape, Paid, PaidFor
<1>4. ASSUME NEW c \in Clients, RequestStep(c) PROVE Shape' /\ Paid'
  <2>0. /\ DOMAIN req' = Clients /\ \A d \in Clients : DOMAIN req'[d] = Fields
        /\ proc' = proc
    BY <1>4, AsksFrame DEF Asks, Shape
  <2>1. CASE UNCHANGED <<upload, runs, errors, job>>
    BY <2>0, <2>1 DEF Shape, Paid, PaidFor
  <2>2. CASE /\ \E status \in {"processing", "completed", "failed"} : SetStatus(status)
             /\ UNCHANGED <<runs, errors, job>>
    BY <2>0, <2>2, SetStatusFrame DEF Shape, Paid, PaidFor, Status
  <2>3. CASE SetFinalTotals(c) /\ UNCHANGED <<runs, errors, job>>
    <3>1. PICK status, total, ok, wrong :
                  status \in Status /\ SetTotals(status, total, ok, wrong)
      BY <2>3 DEF SetFinalTotals, Status
    <3> QED
      BY <2>0, <2>3, <3>1, SetTotalsFrame DEF Shape, Paid, PaidFor
  <2>4. CASE (\E r \in Runs : InsertRun(c, r)) /\ UNCHANGED <<upload, errors, job>>
    <3>1. DOMAIN runs' = Runs /\ \A r \in Runs : "status" \in DOMAIN runs'[r]
      BY <2>4 DEF InsertRun, Shape
    <3> QED
      BY <2>0, <2>4, <3>1 DEF Shape, Paid, PaidFor
  <2>5. CASE Enqueue(c)
    BY <2>0, <2>5, EnqueueFrame DEF Shape
  <2>6. CASE Cascade /\ UNCHANGED job
    BY <2>0, <2>6, CascadeFrame DEF Shape, Paid, PaidFor
  <2> QED
    BY <1>4, <2>1, <2>2, <2>3, <2>4, <2>5, <2>6, RequestEffect
<1>5. ASSUME NEW t \in Ticks, DeleteStale(t) PROVE Shape' /\ Paid'
  <2>1. Cascade /\ UNCHANGED <<req, job, proc>>
    BY <1>5 DEF DeleteStale, worker
  <2> QED
    BY <2>1, CascadeFrame DEF Shape, Paid, PaidFor
<1>6. ASSUME NEW r \in Runs, Fetch(r) \/ Stalled(r) PROVE Shape' /\ Paid'
  BY <1>6, FetchFrame DEF Shape
<1>7. ASSUME NEW r \in Runs, NEW n \in RunNo, Parses(r, n) PROVE Shape' /\ Paid'
  BY <1>7, ParserFrame, ParserEffect, JobEffect DEF Parses, Shape
<1> QED
  BY <1>1, <1>2, <1>3, <1>4, <1>5, <1>6, <1>7, StepKinds DEF Asks

\* No step takes back that a parse run was inserted.
LEMMA InsertedStep ==
  ASSUME Shape, Paid, Queued, [Next]_vars, NEW r \in Runs, runs[r].status # "none"
  PROVE  runs'[r].status # "none"
<1>1. CASE Quiet
  BY <1>1, QuietFrame
<1>2. CASE Start
  BY <1>2 DEF Start
<1>3. ASSUME NEW c \in Clients, Asks(c) PROVE runs'[r].status # "none"
  <2>1. CASE NewRequest(c)
    BY <2>1 DEF NewRequest, Reprocess, Delete, CompleteRequest, Finalize
  <2>2. CASE RequestStep(c)
    <3>1. CASE \E q \in Runs : InsertRun(c, q)
      BY <3>1 DEF InsertRun, Shape
    <3>2. CASE Enqueue(c)
      BY <3>2 DEF Enqueue
    <3>3. CASE Cascade
      BY <3>3, CascadeFrame
    <3> QED
      BY <2>2, <3>1, <3>2, <3>3, RequestEffect
  <2> QED
    BY <1>3, <2>1, <2>2 DEF Asks
<1>4. ASSUME NEW t \in Ticks, DeleteStale(t) PROVE runs'[r].status # "none"
  BY <1>4, CascadeFrame DEF DeleteStale
<1>5. ASSUME NEW q \in Runs, Fetch(q) \/ Stalled(q) PROVE runs'[r].status # "none"
  BY <1>5, FetchFrame
<1>6. ASSUME NEW q \in Runs, NEW n \in RunNo, Parses(q, n) PROVE runs'[r].status # "none"
  BY <1>6, ParserEffect DEF Parses
<1> QED
  BY <1>1, <1>2, <1>3, <1>4, <1>5, <1>6, StepKinds

LEMMA QueuedStep ==
  ASSUME Shape, Paid, Queued, [Next]_vars
  PROVE  Queued'
<1>0. \A r \in Runs : runs[r].status # "none" => runs'[r].status # "none"
  BY InsertedStep
<1>1. CASE Quiet \/ Start
  <2>1. UNCHANGED <<req, job, proc>>
    BY <1>1, QuietFrame DEF Start, worker
  <2> QED
    BY <1>0, <2>1 DEF Queued, AboutToQueue
<1>2. ASSUME NEW c \in Clients, NewRequest(c) PROVE Queued'
  <2>1. UNCHANGED <<job, proc>>
    BY <1>2 DEF NewRequest, Reprocess, Delete, CompleteRequest, Finalize, worker
  <2>2. \A d \in Clients : AboutToQueue(d)' => req'[d] = req[d] /\ AboutToQueue(d)
    BY <1>2, NewFrame DEF AboutToQueue
  <2> QED
    BY <1>0, <2>1, <2>2 DEF Queued
<1>3. ASSUME NEW c \in Clients, RequestStep(c) PROVE Queued'
  <2>0. /\ proc' = proc
        /\ \A d \in Clients : d # c => req'[d] = req[d]
    BY <1>3, AsksFrame DEF Asks
  <2>1. ASSUME NEW r \in Runs, InsertRun(c, r) PROVE Queued'
    <3>1. /\ runs[r].status = "none" /\ runs'[r].status = "pending" /\ job' = job
          /\ req'[c].run = r
      BY <2>1 DEF InsertRun, Shape, Fields, worker
    <3>2. job[r].state = "none"
      BY <3>1 DEF Queued
    <3>3. \A d \in Clients : AboutToQueue(d) => req[d].run # r
      BY <3>1 DEF Queued
    <3>4. \A d \in Clients : d # c /\ AboutToQueue(d)' =>
            AboutToQueue(d) /\ req'[d].run = req[d].run
      BY <2>0 DEF AboutToQueue
    <3>5. \A d \in Clients : AboutToQueue(d)' =>
            /\ req'[d].run \in Runs /\ runs'[req'[d].run].status # "none"
            /\ job'[req'[d].run].state = "none"
      BY <1>0, <3>1, <3>2, <3>4 DEF Queued
    <3>6. \A d, e \in Clients :
            AboutToQueue(d)' /\ AboutToQueue(e)' /\ req'[e].run = req'[d].run => e = d
      BY <3>1, <3>3, <3>4 DEF Queued
    <3>7. \A q \in Runs : job'[q].state # "none" \/ (\E n \in RunNo : proc'[q][n] # "new")
                       => runs'[q].status # "none"
      BY <1>0, <2>0, <3>1 DEF Queued
    <3> QED
      BY <3>5, <3>6, <3>7 DEF Queued, AboutToQueue
  <2>2. CASE ~(\E r \in Runs : InsertRun(c, r))
    <3>1. \A d \in Clients : AboutToQueue(d)' => AboutToQueue(d) /\ req'[d].run = req[d].run
      BY <1>3, <2>0, <2>2, RequestFrame DEF AboutToQueue
    <3>2. CASE Enqueue(c)
      <4>1. /\ AboutToQueue(c) /\ ~AboutToQueue(c)'
        BY <3>2, AnsweredFrame DEF Enqueue, AboutToQueue
      <4>2. \A d \in Clients : AboutToQueue(d)' =>
              /\ req'[d].run \in Runs /\ req'[d].run # req[c].run
        BY <3>1, <4>1 DEF Queued
      <4>3. runs[req[c].run].status # "none" /\ UNCHANGED runs
        BY <3>2, <4>1 DEF Queued, Enqueue
      <4>4. \A q \in Runs : job'[q].state # "none" => runs'[q].status # "none"
        BY <3>2, <4>3, EnqueueFrame DEF Queued
      <4>5. \A d \in Clients : AboutToQueue(d)' =>
              /\ req'[d].run \in Runs /\ runs'[req'[d].run].status # "none"
              /\ job'[req'[d].run].state = "none"
              /\ \A e \in Clients : AboutToQueue(e)' /\ req'[e].run = req'[d].run => e = d
        BY <3>1, <3>2, <4>2, <4>3, EnqueueFrame DEF Queued
      <4>6. \A q \in Runs : (\E n \in RunNo : proc'[q][n] # "new") => runs'[q].status # "none"
        BY <2>0, <4>3 DEF Queued
      <4> QED
        BY <4>4, <4>5, <4>6 DEF Queued, AboutToQueue
    <3>3. CASE UNCHANGED job
      <4>1. \A d \in Clients : AboutToQueue(d)' =>
              /\ req'[d].run \in Runs /\ runs'[req'[d].run].status # "none"
              /\ job'[req'[d].run].state = "none"
              /\ \A e \in Clients : AboutToQueue(e)' /\ req'[e].run = req'[d].run => e = d
        BY <1>0, <3>1, <3>3 DEF Queued
      <4>2. \A q \in Runs : job'[q].state # "none" \/ (\E n \in RunNo : proc'[q][n] # "new")
                         => runs'[q].status # "none"
        BY <1>0, <2>0, <3>3 DEF Queued
      <4> QED
        BY <4>1, <4>2 DEF Queued, AboutToQueue
    <3> QED
      BY <1>3, <3>2, <3>3, RequestEffect
  <2> QED
    BY <2>1, <2>2
<1>4. ASSUME NEW t \in Ticks, DeleteStale(t) PROVE Queued'
  BY <1>0, <1>4 DEF DeleteStale, worker, Queued, AboutToQueue
<1>5. ASSUME NEW r \in Runs, Fetch(r) \/ Stalled(r) PROVE Queued'
  <2>1. UNCHANGED <<req, runs>> /\ job[r].state # "none"
        /\ \A q \in Runs : q # r => job'[q] = job[q] /\ proc'[q] = proc[q]
    BY <1>5, FetchFrame
  <2> QED
    BY <2>1 DEF Queued, AboutToQueue
<1>6. ASSUME NEW r \in Runs, NEW n \in RunNo, Parses(r, n) PROVE Queued'
  <2>1. UNCHANGED req /\ proc[r][n] # "new"
        /\ \A q \in Runs, m \in RunNo : q # r \/ m # n => proc'[q][m] = proc[q][m]
    BY <1>6, ParserFrame DEF Parses, Live, Over
  <2>2. \A q \in Runs : job'[q].state = "none" <=> job[q].state = "none"
    BY <1>6, JobEffect DEF Parses
  <2>3. \A q \in Runs : (\E m \in RunNo : proc'[q][m] # "new")
                        => \E m \in RunNo : proc[q][m] # "new"
    BY <2>1
  <2> QED
    BY <1>0, <2>1, <2>2, <2>3 DEF Queued, AboutToQueue
<1> QED
  BY <1>1, <1>2, <1>3, <1>4, <1>5, <1>6, StepKinds DEF Asks

LEMMA CoveredStep ==
  ASSUME Shape, Paid, Queued, Covered, [Next]_vars
  PROVE  Covered'
<1>1. CASE Quiet \/ Start
  <2>1. UNCHANGED <<runs, job, proc>>
    BY <1>1, QuietFrame DEF Start, worker
  <2> QED
    BY <2>1 DEF Covered, Settled
<1>2. ASSUME Cascade, UNCHANGED <<job, proc>> PROVE Covered'
  <2>1. \A r \in Runs : runs[r].status # "none" => runs'[r].status = "gone"
    BY <1>2, CascadeFrame
  <2> QED
    BY <1>2, <2>1 DEF Covered, Settled, Queued
<1>3. ASSUME NEW c \in Clients, Asks(c) PROVE Covered'
  <2>1. CASE UNCHANGED <<runs, job, proc>>
    BY <2>1 DEF Covered, Settled
  <2>2. ASSUME NEW r \in Runs, InsertRun(c, r) PROVE Covered'
    <3>1. /\ runs[r].status = "none" /\ UNCHANGED <<job, proc>>
          /\ \A q \in Runs : q # r => runs'[q] = runs[q]
      BY <2>2 DEF InsertRun, Shape, worker
    <3>2. /\ job[r].state = "none" /\ \A n \in RunNo : proc[r][n] = "new"
      BY <3>1 DEF Queued
    <3> QED
      BY <3>1, <3>2 DEF Covered, Settled
  <2>3. CASE Enqueue(c)
    <3>1. UNCHANGED <<runs, proc>>
      BY <2>3, EnqueueFrame
    <3>2. \A r \in Runs : job'[r].state = "ended" => job[r].state = "ended"
      BY <2>3, EnqueueFrame
    <3> QED
      BY <3>1, <3>2 DEF Covered, Settled
  <2>4. CASE NewRequest(c)
    BY <2>1, <2>4 DEF NewRequest, Reprocess, Delete, CompleteRequest, Finalize, worker
  <2> QED
    BY <1>2, <1>3, <2>1, <2>2, <2>3, <2>4, RequestEffect DEF Asks
<1>4. ASSUME NEW t \in Ticks, DeleteStale(t) PROVE Covered'
  BY <1>2, <1>4 DEF DeleteStale, worker
<1>5. ASSUME NEW r \in Runs, Fetch(r) \/ Stalled(r) PROVE Covered'
  <2>1. /\ runs' = runs /\ job'[r].state # "ended"
        /\ \A q \in Runs : q # r => job'[q] = job[q] /\ proc'[q] = proc[q]
    BY <1>5, FetchFrame
  <2>2. (\E n \in RunNo : proc'[r][n] # "new") => Settled(r)'
    <3>1. CASE proc' = proc
      BY <2>1, <3>1 DEF Covered, Settled
    <3>2. CASE \E n \in RunNo : proc'[r][n] = "mark_run"
      BY <3>2 DEF Settled, Unsettled
    <3> QED
      BY <1>5, <3>1, <3>2, FetchFrame
  <2> QED
    BY <2>1, <2>2 DEF Covered, Settled
<1>6. ASSUME NEW r \in Runs, NEW n \in RunNo, Parses(r, n) PROVE Covered'
  <2>1. /\ \A q \in Runs, m \in RunNo : q # r \/ m # n => proc'[q][m] = proc[q][m]
        /\ proc[r][n] # "new" /\ proc'[r][n] # "new"
        /\ \A q \in Runs : q # r => runs'[q] = runs[q] /\ job'[q] = job[q]
    BY <1>6, ParserFrame, ParserEffect, JobEffect DEF Parses, Live, Over
  <2>2. Settled(r)'
    <3>1. runs[r].status # "none" /\ Settled(r)
      BY <2>1 DEF Queued, Covered
    <3>2. CASE proc'[r][n] \in Unsettled
      BY <3>2 DEF Settled
    <3>3. CASE runs' = runs /\ proc[r][n] \in {"complete_upload", "fail_upload"}
      BY <2>1, <3>1, <3>3 DEF Settled, Unsettled
    <3>4. CASE runs'[r].status \in {"completed", "failed", "gone"}
      BY <3>4 DEF Settled
    <3> QED
      BY <1>6, <3>1, <3>2, <3>3, <3>4, ParserEffect DEF Parses, Unsettled
  <2>3. \A q \in Runs : q # r => (Settled(q)' <=> Settled(q))
    BY <2>1 DEF Settled
  <2> QED
    BY <2>1, <2>2, <2>3 DEF Covered
<1> QED
  BY <1>1, <1>3, <1>4, <1>5, <1>6, StepKinds

LEMMA NothingStep ==
  ASSUME Shape, Paid, Queued, Nothing, Started, [Next]_vars
  PROVE  /\ Nothing' /\ Started'
         /\ upload.status = "deleted" => upload'.status = "deleted"
<1>1. CASE Quiet
  BY <1>1, QuietFrame DEF Nothing, Started, Exists
<1>2. CASE Start
  BY <1>2 DEF Start, Nothing, Started, Exists, Shape
<1>3. ASSUME Cascade, start' = start
      PROVE  /\ Nothing' /\ Started'
             /\ upload.status = "deleted" => upload'.status = "deleted"
  <2>1. \A r \in Runs : runs'[r].status \in {"none", "gone"} /\ errors'[r] = 0
    BY <1>3, CascadeFrame
  <2>2. upload'.status = IF Exists THEN "deleted" ELSE upload.status
    BY <1>3, CascadeFrame
  <2> QED
    BY <1>3, <2>1, <2>2, CascadeFrame DEF Nothing, Started, Exists
<1>4. ASSUME NEW c \in Clients, Asks(c)
      PROVE  /\ Nothing' /\ Started'
             /\ upload.status = "deleted" => upload'.status = "deleted"
  <2>0. start' = start
    BY <1>4, AsksFrame
  <2>1. CASE NewRequest(c)
    <3>1. UNCHANGED <<upload, runs, errors, file, mapping>>
      BY <2>1 DEF NewRequest, Reprocess, Delete, CompleteRequest, Finalize, store
    <3> QED
      BY <2>0, <3>1 DEF Nothing, Started, Exists
  <2>2. CASE UNCHANGED <<upload, runs, errors, file>> /\ (mapping' # mapping => Exists)
    BY <2>0, <2>2 DEF Nothing, Started, Exists
  <2>3. CASE /\ upload'.status = IF Exists THEN upload'.status ELSE upload.status
             /\ Exists => upload'.status \notin {"none", "deleted"}
             /\ UNCHANGED <<runs, errors, file, mapping>>
    BY <2>0, <2>3 DEF Nothing, Started, Exists
  <2>4. CASE (\E r \in Runs : InsertRun(c, r)) /\ UNCHANGED <<upload, errors, file, mapping>>
    BY <2>0, <2>4 DEF InsertRun, Nothing, Started, Exists
  <2>5. CASE Enqueue(c)
    BY <2>0, <2>5 DEF Enqueue, store, Nothing, Started, Exists
  <2>6. CASE /\ \E status \in {"processing", "completed", "failed"} : SetStatus(status)
             /\ UNCHANGED <<runs, errors, file, mapping>>
    BY <2>3, <2>6, SetStatusFrame DEF Status
  <2>7. CASE SetFinalTotals(c) /\ UNCHANGED <<runs, errors, file, mapping>>
    <3>1. PICK status, total, ok, wrong :
            status \in {"failed", "completed"} /\ SetTotals(status, total, ok, wrong)
      BY <2>7 DEF SetFinalTotals
    <3> QED
      BY <2>3, <2>7, <3>1, SetTotalsFrame DEF Status
  <2> QED
    BY <1>3, <1>4, <2>0, <2>1, <2>2, <2>3, <2>4, <2>5, <2>6, <2>7, RequestEffect DEF Asks
<1>5. ASSUME NEW t \in Ticks, DeleteStale(t)
      PROVE  /\ Nothing' /\ Started'
             /\ upload.status = "deleted" => upload'.status = "deleted"
  BY <1>3, <1>5 DEF DeleteStale, input
<1>6. ASSUME NEW r \in Runs, Fetch(r) \/ Stalled(r)
      PROVE  /\ Nothing' /\ Started'
             /\ upload.status = "deleted" => upload'.status = "deleted"
  <2>1. UNCHANGED <<start, upload, file, mapping, errors, runs>>
    BY <1>6, FetchFrame
  <2> QED
    BY <2>1 DEF Nothing, Started, Exists
<1>7. ASSUME NEW r \in Runs, NEW n \in RunNo, Parses(r, n)
      PROVE  /\ Nothing' /\ Started'
             /\ upload.status = "deleted" => upload'.status = "deleted"
  <2>1. UNCHANGED <<start, file, mapping>>
    BY <1>7, ParserFrame DEF Parses
  <2> QED
    BY <1>7, <2>1, ParserEffect DEF Parses, Nothing, Started, Exists
<1> QED
  BY <1>1, <1>2, <1>4, <1>5, <1>6, <1>7, StepKinds

\* What keeps a parse run owed: its request, its job, or a run of the parser.
LEMMA CauseStep ==
  ASSUME Shape, Paid, Queued, ProcessingHasACause, [Next]_vars
  PROVE  ProcessingHasACause'
<1> SUFFICES ASSUME upload'.status = "processing" PROVE \E r \in Runs : Owed(r)'
  BY DEF ProcessingHasACause
<1>1. CASE Quiet \/ Start
  <2>1. UNCHANGED <<upload, req, job, proc>>
    BY <1>1, QuietFrame DEF Start, worker, Shape
  <2>2. PICK r \in Runs : Owed(r)
    BY <2>1 DEF ProcessingHasACause
  <2> QED
    BY <2>1, <2>2 DEF Owed, Live
<1>2. ASSUME NEW c \in Clients, Asks(c) PROVE \E r \in Runs : Owed(r)'
  <2>0. /\ proc' = proc
        /\ \A d \in Clients : d # c => req'[d] = req[d]
    BY <1>2, AsksFrame
  <2>1. ASSUME NEW r \in Runs, Owed(r),
               req[c].run = r => req'[c].run = r /\ (req'[c].pc # "done" \/ req'[c].answer # "ok"),
               UNCHANGED job
        PROVE  Owed(r)'
    BY <2>0, <2>1 DEF Owed, Live
  <2>2. CASE NewRequest(c)
    <3>1. UNCHANGED <<upload, job>>
      BY <2>2 DEF NewRequest, Reprocess, Delete, CompleteRequest, Finalize, worker
    <3> QED
      BY <2>1, <2>2, <3>1, NewFrame DEF ProcessingHasACause
  <2>3. CASE Enqueue(c)
    BY <2>3, EnqueueFrame DEF Owed
  <2>4. CASE SetUploadStatus(c)
    <3>1. req[c].run \in Runs
      BY <2>4 DEF SetUploadStatus, GoOn, Answered, Queued, AboutToQueue
    <3>2. req[c].auto
      <4> SUFFICES ASSUME ~req[c].auto PROVE FALSE
        OBVIOUS
      <4>1. SetStatus("completed")
        BY <2>4 DEF SetUploadStatus
      <4> QED
        BY <4>1, SetStatusFrame DEF Status, Exists
    <3>3. req'[c].pc # "done" /\ req'[c].run = req[c].run
      BY <2>4, <3>2, GoOnFrame DEF SetUploadStatus
    <3> QED
      BY <3>1, <3>3 DEF Owed
  <2>5. CASE RequestStep(c) /\ ~SetUploadStatus(c) /\ ~Enqueue(c)
    <3>0. ~Cascade
      BY CascadeFrame DEF Exists
    <3>1. /\ ~Remove(c) /\ ~SetFinalTotals(c)
          /\ upload.status = "processing" /\ UNCHANGED job
      <4>1. ~Remove(c)
        BY <3>0 DEF Remove
      <4>2. ~SetFinalTotals(c)
        <5> SUFFICES ASSUME SetFinalTotals(c) PROVE FALSE
          OBVIOUS
        <5>1. PICK status, total, ok, wrong :
                status \in {"failed", "completed"} /\ SetTotals(status, total, ok, wrong)
          BY DEF SetFinalTotals
        <5> QED
          BY <5>1, SetTotalsFrame DEF Status, Exists
      <4>3. ASSUME NEW status \in {"processing", "completed", "failed"}, SetStatus(status),
                   status # "processing"
            PROVE  FALSE
        BY <4>3, SetStatusFrame DEF Status, Exists
      <4> QED
        BY <2>5, <3>0, <4>1, <4>2, <4>3, RequestEffect DEF InsertRun
    <3>2. PICK r \in Runs : Owed(r)
      BY <3>1 DEF ProcessingHasACause
    <3>3. CASE \E q \in Runs : InsertRun(c, q) /\ req'[c].run = q /\ req'[c].pc = "status"
      BY <3>3 DEF Owed
    <3>4. CASE req'[c].run = req[c].run
      <4>1. req'[c].pc # "done" \/ req'[c].answer # "ok"
        BY <2>5, <3>1, RequestFrame
      <4> QED
        BY <2>1, <3>1, <3>2, <3>4, <4>1
    <3> QED
      BY <2>5, <3>3, <3>4, RequestFrame
  <2> QED
    BY <1>2, <2>2, <2>3, <2>4, <2>5 DEF Asks
<1>3. ASSUME NEW t \in Ticks, DeleteStale(t) PROVE FALSE
  BY <1>3, CascadeFrame DEF DeleteStale, Exists
<1>4. ASSUME NEW r \in Runs, Fetch(r) \/ Stalled(r) PROVE \E q \in Runs : Owed(q)'
  <2>1. Owed(r)'
    BY <1>4, FetchFrame DEF Owed, Live, Over
  <2> QED
    BY <2>1
<1>5. ASSUME NEW r \in Runs, NEW n \in RunNo, Parses(r, n) PROVE \E q \in Runs : Owed(q)'
  <2>1. /\ proc' \in [Runs -> [RunNo -> ParserPc]] /\ proc'[r][n] \notin {"new", "returned"}
        /\ \A q \in Runs, m \in RunNo : q # r \/ m # n => proc'[q][m] = proc[q][m]
    BY <1>5, ParserFrame, ParserEffect DEF Parses
  <2>2. Owed(r)'
    BY <2>1 DEF Owed, Live, Over
  <2> QED
    BY <2>2
<1> QED
  BY <1>1, <1>2, <1>3, <1>4, <1>5, StepKinds

THEOREM Invariance == Spec => []IInv
<1>1. IInv /\ [Next]_vars => IInv'
  BY ShapeStep, QueuedStep, CoveredStep, NothingStep, CauseStep DEF IInv
<1> QED
  BY <1>1, InitIInv, PTL DEF Spec

\* An upload that says 'processing' has a run on its way, or a failure to show for
\* it; and a parse run whose job has ended has a verdict, or a run of the parser
\* that lives on or died: for any number of requests, runs, attempts and stalls.
THEOREM Stranded == Spec => []NothingStranded
<1>1. IInv => RestingRunIsSettled
  <2> SUFFICES ASSUME IInv, NEW r \in Runs, job[r].state = "ended",
                      runs[r].status \notin {"completed", "failed", "gone"}
               PROVE  \E n \in RunNo : Live(r, n) \/ proc[r][n] \in {"dead", "threw"}
    BY DEF RestingRunIsSettled
  <2>1. PICK n \in RunNo : proc[r][n] \in Unsettled
    BY DEF IInv, Covered, Settled
  <2> QED
    BY <2>1 DEF Unsettled, Live, Over
<1>2. IInv => NothingStranded
  BY <1>1 DEF IInv, NothingStranded
<1> QED
  BY Invariance, <1>2, PTL

\* Nothing of a deleted upload comes back, whatever was under way.
THEOREM Deletion == Spec => DeletedForGood
<1>1. IInv /\ IInv' /\ [Next]_vars => [NothingReturns]_vars
  <2> SUFFICES ASSUME IInv, IInv', [Next]_vars, upload.status = "deleted"
               PROVE  /\ upload'.status = "deleted" /\ ~file' /\ ~mapping'
                      /\ \A r \in Runs : runs'[r].status \in {"none", "gone"} /\ errors'[r] = 0
    BY DEF NothingReturns
  <2>1. upload'.status = "deleted"
    BY NothingStep DEF IInv
  <2> QED
    BY <2>1 DEF IInv, Nothing, Exists
<1> QED
  BY Invariance, <1>1, PTL DEF Spec, DeletedForGood

\* The runs a job can have, RunNo, are as many as BullMQ starts: a job that waits
\* for its next run, after however many attempts and stalls, has a number for it.
RunsSuffice == \A r \in Runs : job[r].state = "waiting" => job[r].run + 1 \in RunNo

\* Fetch is never held up by the bound of the model (defaultJobOptions.attempts,
\* maxStalledCount).
THEOREM Unbounded == Spec => []RunsSuffice
<1>1. IInv => RunsSuffice
  <2> SUFFICES ASSUME IInv, NEW r \in Runs, job[r].state = "waiting"
               PROVE  job[r].run + 1 \in RunNo
    BY DEF RunsSuffice
  <2>1. job[r].run \in Nat /\ job[r].tries \in Nat /\ job[r].stalls \in Nat /\ PaidFor(r)
    BY Sizes DEF IInv, Shape, Paid, Job, RunNo
  <2> QED
    BY <2>1, Sizes DEF PaidFor, RunNo
<1> QED
  BY Invariance, <1>1, PTL\* The lowest of a set of numbers.
LEMMA Lowest ==
  ASSUME NEW S, S \subseteq Nat, S # {}
  PROVE  \E d \in S : \A e \in S : d <= e
<1>1. PICK d \in S : \A e \in S : ~(<<e, d>> \in OpToRel(<, Nat))
  BY WFMin, NatLessThanWellFounded, Zenon
<1>2. ASSUME NEW e \in S, e < d PROVE FALSE
  <2>1. <<e, d>> \in Nat \X Nat
    OBVIOUS
  <2>2. <<e, d>> \in OpToRel(<, Nat)
    BY <1>2, <2>1, Zenon DEF OpToRel
  <2> QED
    BY <1>1, <2>2
<1> QED
  BY <1>2

First(s) == CHOOSE x \in s : TRUE
Rest(s) == s \ {First(s)}
\* f adds up w on the set s.
Adds(f, w, s) == f[s] = IF s = {} THEN 0 ELSE w[First(s)] + f[Rest(s)]

LEMMA RestIsLess ==
  ASSUME NEW s, IsFiniteSet(s), s # {}
  PROVE  /\ First(s) \in s /\ Rest(s) \subseteq s /\ IsFiniteSet(Rest(s))
         /\ Cardinality(s) \in Nat /\ Cardinality(Rest(s)) = Cardinality(s) - 1
BY FS_RemoveElement, FS_CardinalityType DEF First, Rest

\* The fold of the library adds up.
LEMMA SumAdds ==
  ASSUME NEW S, IsFiniteSet(S), NEW w, \A q \in S : w[q] \in Nat
  PROVE  \E f \in [SUBSET S -> Nat] :
           SumFunctionOnSet(w, S) = f[S] /\ \A s \in SUBSET S : Adds(f, w, s)
<1> DEFINE Upto(n) == \E f \in [SUBSET S -> Nat] :
                        \A s \in SUBSET S : Cardinality(s) <= n => Adds(f, w, s)
           Bad == {n \in Nat : ~Upto(n)}
<1>0. \A s \in SUBSET S : IsFiniteSet(s) /\ Cardinality(s) \in Nat
                            /\ Cardinality(s) <= Cardinality(S) /\ Cardinality(S) \in Nat
  BY FS_Subset, FS_CardinalityType
<1>1. ASSUME NEW n \in Nat, n = 0 \/ Upto(n - 1) PROVE Upto(n)
  <2>1. PICK g \in [SUBSET S -> Nat] :
          n # 0 => \A s \in SUBSET S : Cardinality(s) <= n - 1 => Adds(g, w, s)
    <3>1. CASE n = 0
      <4>1. [s \in SUBSET S |-> 0] \in [SUBSET S -> Nat]
        OBVIOUS
      <4> QED
        BY <3>1, <4>1
    <3>2. CASE n # 0
      BY <1>1, <3>2
    <3> QED
      BY <3>1, <3>2
  <2> DEFINE f == [s \in SUBSET S |-> IF s = {} THEN 0 ELSE w[First(s)] + g[Rest(s)]]
  <2>2. ASSUME NEW s \in SUBSET S, s # {}
        PROVE  w[First(s)] \in Nat /\ Rest(s) \in SUBSET S /\ g[Rest(s)] \in Nat
    BY <1>0, <2>2, RestIsLess
  <2>3. f \in [SUBSET S -> Nat]
    BY <2>2
  <2>4. ASSUME NEW s \in SUBSET S, Cardinality(s) <= n PROVE Adds(f, w, s)
    <3>1. CASE s = {}
      BY <3>1 DEF Adds
    <3>2. CASE s # {}
      <4>1. /\ Rest(s) \in SUBSET S /\ Cardinality(Rest(s)) <= n - 1
            /\ Cardinality(s) \in Nat /\ Cardinality(Rest(s)) \in Nat
        BY <1>0, <2>4, <3>2, RestIsLess
      <4>2. Adds(g, w, Rest(s))
        BY <2>1, <4>1
      <4>3. f[Rest(s)] = g[Rest(s)]
        BY <4>1, <4>2 DEF Adds
      <4> QED
        BY <3>2, <4>3 DEF Adds
    <3> QED
      BY <3>1, <3>2
  <2> QED
    BY <2>3, <2>4
<1>2. Bad = {}
  <2> SUFFICES ASSUME Bad # {} PROVE FALSE
    OBVIOUS
  <2>1. PICK d \in Bad : \A e \in Bad : d <= e
    <3> HIDE DEF Upto
    <3> QED
      BY Lowest
  <2> HIDE DEF Upto
  <2>2. d \in Nat /\ ~Upto(d)
    OBVIOUS
  <2>3. d # 0 => d - 1 \in Nat /\ d - 1 \notin Bad
    BY <2>1, <2>2
  <2> QED
    BY <1>1, <2>2, <2>3
<1>3. Upto(Cardinality(S))
  <2> HIDE DEF Upto
  <2> QED
    BY <1>0, <1>2
<1>4. PICK f \in [SUBSET S -> Nat] : \A s \in SUBSET S : Adds(f, w, s)
  BY <1>0, <1>3
<1> DEFINE Rec(h) == h = [s \in SUBSET S |->
                            IF s = {} THEN 0 ELSE w[First(s)] + h[s \ {First(s)}]]
           F == CHOOSE h : Rec(h)
<1>5. Rec(f)
  BY <1>4 DEF Adds, Rest
<1>6. Rec(F)
  <2> HIDE DEF Rec
  <2> QED
    BY <1>5
<1>7. SumFunctionOnSet(w, S) = F[S]
  BY Zenon DEF SumFunctionOnSet, FoldFunctionOnSet, MapThenFoldSet, First
<1> HIDE DEF F
<1>8. \A s \in SUBSET S : Adds(F, w, s)
  BY <1>6 DEF Adds, Rest
<1>9. F = [s \in SUBSET S |-> F[s]]
  BY <1>6
<1> DEFINE Wrong == {n \in Nat : \E s \in SUBSET S : Cardinality(s) = n /\ F[s] \notin Nat}
<1>10. Wrong = {}
  <2> SUFFICES ASSUME Wrong # {} PROVE FALSE
    OBVIOUS
  <2>1. PICK d \in Wrong : \A e \in Wrong : d <= e
    BY Lowest
  <2>2. PICK s \in SUBSET S : Cardinality(s) = d /\ F[s] \notin Nat
    OBVIOUS
  <2>3. s # {}
    BY <1>8, <2>2 DEF Adds
  <2>4. /\ First(s) \in S /\ Rest(s) \in SUBSET S
        /\ Cardinality(Rest(s)) = d - 1 /\ Cardinality(Rest(s)) \in Nat
    BY <1>0, <2>2, <2>3, RestIsLess
  <2>5. F[Rest(s)] \in Nat
    BY <2>1, <2>4
  <2> QED
    BY <1>8, <2>2, <2>3, <2>4, <2>5 DEF Adds
<1>11. F \in [SUBSET S -> Nat]
  BY <1>0, <1>9, <1>10
<1> QED
  BY <1>7, <1>8, <1>11

\* A sum is a number, at most `most' for every member that counts.
LEMMA SumIsBounded ==
  ASSUME NEW S, IsFiniteSet(S), NEW w, NEW most \in Nat, \A q \in S : w[q] \in 0..most
  PROVE  /\ SumFunctionOnSet(w, S) \in Nat
         /\ SumFunctionOnSet(w, S) <= most * Cardinality({q \in S : w[q] > 0})
<1>1. PICK f \in [SUBSET S -> Nat] :
        SumFunctionOnSet(w, S) = f[S] /\ \A s \in SUBSET S : Adds(f, w, s)
  <2>1. \A q \in S : w[q] \in Nat
    OBVIOUS
  <2> QED
    BY <2>1, SumAdds
<1> DEFINE Counts(s) == {q \in s : w[q] > 0}
           Bound(s) == f[s] <= most * Cardinality(Counts(s))
           Wrong == {n \in Nat : \E s \in SUBSET S : Cardinality(s) = n /\ ~Bound(s)}
<1>0. \A s \in SUBSET S : IsFiniteSet(s) /\ Cardinality(s) \in Nat
  BY FS_Subset, FS_CardinalityType
<1>2. \A s \in SUBSET S : Cardinality(Counts(s)) \in Nat /\ IsFiniteSet(Counts(s))
  <2>1. \A s \in SUBSET S : Counts(s) \in SUBSET S
    OBVIOUS
  <2> QED
    BY <1>0, <2>1
<1>3. Wrong = {}
  <2> SUFFICES ASSUME Wrong # {} PROVE FALSE
    OBVIOUS
  <2>1. PICK d \in Wrong : \A e \in Wrong : d <= e
    BY Lowest
  <2>2. PICK s \in SUBSET S : Cardinality(s) = d /\ ~Bound(s)
    OBVIOUS
  <2>3. s # {}
    <3> SUFFICES ASSUME s = {} PROVE FALSE
      OBVIOUS
    <3>1. f[s] = 0 /\ Counts(s) = {}
      BY <1>1 DEF Adds
    <3> QED
      BY <2>2, <3>1, FS_EmptySet
  <2>4. /\ First(s) \in s /\ Rest(s) \in SUBSET S
        /\ Cardinality(Rest(s)) = d - 1 /\ Cardinality(Rest(s)) \in Nat
    BY <1>0, <2>2, <2>3, RestIsLess
  <2>5. Bound(Rest(s))
    <3> HIDE DEF Bound
    <3>1. d \in Nat /\ d - 1 \in Nat /\ d - 1 \notin Wrong
      BY <2>1, <2>4
    <3> QED
      BY <2>4, <3>1
  <2>6. f[s] = w[First(s)] + f[Rest(s)] /\ w[First(s)] \in 0..most /\ f[Rest(s)] \in Nat
    BY <1>1, <2>3, <2>4 DEF Adds
  <2>7. CASE w[First(s)] = 0
    <3>1. Counts(s) = Counts(Rest(s))
      BY <2>4, <2>7 DEF Rest
    <3> HIDE DEF Counts
    <3> QED
      BY <2>2, <2>5, <2>6, <2>7, <3>1
  <2>8. CASE w[First(s)] > 0
    <3>1. /\ Counts(s) = Counts(Rest(s)) \cup {First(s)}
          /\ First(s) \notin Counts(Rest(s))
      BY <2>4, <2>8 DEF Rest
    <3>2. Cardinality(Counts(s)) = Cardinality(Counts(Rest(s))) + 1
      <4> HIDE DEF Counts
      <4> QED
        BY <1>2, <2>4, <3>1, FS_AddElement
    <3> DEFINE c == Cardinality(Counts(Rest(s)))
    <3>3. c \in Nat /\ most * (c + 1) = most * c + most /\ most * c \in Nat
      <4>1. c \in Nat
        BY <1>2, <2>4
      <4> HIDE DEF c
      <4> QED
        BY <4>1
    <3>4. f[Rest(s)] <= most * c /\ ~(f[s] <= most * (c + 1))
      BY <2>2, <2>5, <3>2
    <3> HIDE DEF c
    <3> QED
      BY <2>6, <3>3, <3>4
  <2> QED
    BY <2>6, <2>7, <2>8
<1>4. Bound(S)
  BY <1>0, <1>3
<1> QED
  BY <1>1, <1>4

\* Where every summand is at most another's, so is the sum.
LEMMA SumGrows ==
  ASSUME NEW S, IsFiniteSet(S), NEW w, NEW v,
         \A q \in S : w[q] \in Nat /\ v[q] \in Nat /\ w[q] <= v[q]
  PROVE  SumFunctionOnSet(w, S) <= SumFunctionOnSet(v, S)
<1>1. PICK f \in [SUBSET S -> Nat] :
        SumFunctionOnSet(w, S) = f[S] /\ \A s \in SUBSET S : Adds(f, w, s)
  BY SumAdds
<1>2. PICK g \in [SUBSET S -> Nat] :
        SumFunctionOnSet(v, S) = g[S] /\ \A s \in SUBSET S : Adds(g, v, s)
  BY SumAdds
<1> DEFINE Wrong == {n \in Nat : \E s \in SUBSET S : Cardinality(s) = n /\ ~(f[s] <= g[s])}
<1>0. \A s \in SUBSET S : IsFiniteSet(s) /\ Cardinality(s) \in Nat
  BY FS_Subset, FS_CardinalityType
<1>3. Wrong = {}
  <2> SUFFICES ASSUME Wrong # {} PROVE FALSE
    OBVIOUS
  <2>1. PICK d \in Wrong : \A e \in Wrong : d <= e
    BY Lowest
  <2>2. PICK s \in SUBSET S : Cardinality(s) = d /\ ~(f[s] <= g[s])
    OBVIOUS
  <2>3. s # {}
    BY <1>1, <1>2, <2>2 DEF Adds
  <2>4. /\ First(s) \in S /\ Rest(s) \in SUBSET S
        /\ Cardinality(Rest(s)) = d - 1 /\ Cardinality(Rest(s)) \in Nat
    BY <1>0, <2>2, <2>3, RestIsLess
  <2>5. f[Rest(s)] <= g[Rest(s)]
    BY <2>1, <2>4
  <2>6. f[s] = w[First(s)] + f[Rest(s)] /\ g[s] = v[First(s)] + g[Rest(s)]
    BY <1>1, <1>2, <2>3 DEF Adds
  <2> QED
    BY <2>2, <2>4, <2>5, <2>6
<1> QED
  BY <1>0, <1>1, <1>2, <1>3

\* A sum is no less than any of its summands.
LEMMA SumCovers ==
  ASSUME NEW S, IsFiniteSet(S), NEW w, \A q \in S : w[q] \in Nat, NEW p \in S
  PROVE  SumFunctionOnSet(w, S) \in Nat /\ w[p] <= SumFunctionOnSet(w, S)
<1>1. PICK f \in [SUBSET S -> Nat] :
        SumFunctionOnSet(w, S) = f[S] /\ \A s \in SUBSET S : Adds(f, w, s)
  BY SumAdds
<1> DEFINE Wrong == {n \in Nat : \E s \in SUBSET S :
                       Cardinality(s) = n /\ p \in s /\ ~(w[p] <= f[s])}
<1>0. \A s \in SUBSET S : IsFiniteSet(s) /\ Cardinality(s) \in Nat
  BY FS_Subset, FS_CardinalityType
<1>3. Wrong = {}
  <2> SUFFICES ASSUME Wrong # {} PROVE FALSE
    OBVIOUS
  <2>1. PICK d \in Wrong : \A e \in Wrong : d <= e
    BY Lowest
  <2>2. PICK s \in SUBSET S : Cardinality(s) = d /\ p \in s /\ ~(w[p] <= f[s])
    OBVIOUS
  <2>4. /\ First(s) \in S /\ Rest(s) \in SUBSET S
        /\ Cardinality(Rest(s)) = d - 1 /\ Cardinality(Rest(s)) \in Nat
    BY <1>0, <2>2, RestIsLess
  <2>5. f[s] = w[First(s)] + f[Rest(s)] /\ w[First(s)] \in Nat /\ f[Rest(s)] \in Nat
    BY <1>1, <2>2, <2>4 DEF Adds
  <2>6. p # First(s) => w[p] <= f[Rest(s)]
    BY <2>1, <2>2, <2>4 DEF Rest
  <2> QED
    BY <2>2, <2>5, <2>6
<1> QED
  BY <1>0, <1>1, <1>3
\* A set of finitely many numbers has a highest one.
LEMMA Highest ==
  ASSUME NEW S, S \subseteq Nat, S # {}, IsFiniteSet(S)
  PROVE  Max(S) \in S
<1> DEFINE Top(s) == \E x \in s : \A y \in s : x >= y
           Wrong == {n \in Nat : \E s \in SUBSET S : Cardinality(s) = n /\ s # {} /\ ~Top(s)}
<1>0. \A s \in SUBSET S : IsFiniteSet(s) /\ Cardinality(s) \in Nat
  BY FS_Subset, FS_CardinalityType
<1>1. Wrong = {}
  <2> SUFFICES ASSUME Wrong # {} PROVE FALSE
    OBVIOUS
  <2>1. PICK d \in Wrong : \A e \in Wrong : d <= e
    <3> HIDE DEF Top
    <3> QED
      BY Lowest
  <2>2. PICK s \in SUBSET S : Cardinality(s) = d /\ s # {} /\ ~Top(s)
    OBVIOUS
  <2>3. /\ First(s) \in s /\ First(s) \in Nat /\ Rest(s) \in SUBSET S
        /\ Cardinality(Rest(s)) = d - 1 /\ Cardinality(Rest(s)) \in Nat
    BY <1>0, <2>2, RestIsLess
  <2>4. Rest(s) # {}
    BY <2>2, <2>3 DEF Rest
  <2>5. Top(Rest(s))
    <3> HIDE DEF Top
    <3> QED
      BY <2>1, <2>3, <2>4
  <2>6. PICK x \in Rest(s) : \A y \in Rest(s) : x >= y
    BY <2>5
  <2>7. x \in s /\ x \in Nat
    BY <2>3, <2>6 DEF Rest
  <2>8. CASE x >= First(s)
    BY <2>2, <2>6, <2>7, <2>8 DEF Rest
  <2>9. CASE First(s) >= x
    BY <2>2, <2>3, <2>6, <2>7, <2>9 DEF Rest
  <2> QED
    BY <2>3, <2>7, <2>8, <2>9
<1>2. Top(S)
  <2> HIDE DEF Top
  <2> QED
    BY <1>0, <1>1
<1> QED
  BY <1>2 DEF Max

(***************************************************************************)
(* Types, and the statistics                                               *)
(***************************************************************************)
LEMMA SumTypes ==
  ASSUME TypeOK
  PROVE  /\ ParsedRows \in Nat /\ ParsedValid \in Nat /\ ErrorRows \in Nat
         /\ IsFiniteSet(Present)
<1>1. IsFiniteSet(Present)
  BY Sizes, FS_Subset DEF Present
<1>2. \A q \in Runs : runs[q].total \in Nat /\ runs[q].valid \in Nat
  BY DEF TypeOK, ParseRun
<1>3. ASSUME NEW w, \A q \in Present : w[q] \in Nat PROVE SumFunctionOnSet(w, Present) \in Nat
  <2>1. PICK f \in [SUBSET Present -> Nat] : SumFunctionOnSet(w, Present) = f[Present]
    BY <1>1, <1>3, SumAdds
  <2> QED
    BY <2>1
<1>4. ParsedRows \in Nat
  <2> DEFINE w == [q \in Runs |-> runs[q].total]
  <2>1. \A q \in Present : w[q] \in Nat
    BY <1>2 DEF Present
  <2> HIDE DEF w
  <2>2. SumFunctionOnSet(w, Present) \in Nat
    BY <1>3, <2>1
  <2> QED
    BY <2>2 DEF w, ParsedRows
<1>5. ParsedValid \in Nat
  <2> DEFINE w == [q \in Runs |-> runs[q].valid]
  <2>1. \A q \in Present : w[q] \in Nat
    BY <1>2 DEF Present
  <2> HIDE DEF w
  <2>2. SumFunctionOnSet(w, Present) \in Nat
    BY <1>3, <2>1
  <2> QED
    BY <2>2 DEF w, ParsedValid
<1>6. ErrorRows \in Nat
  <2> DEFINE w == [q \in Runs |-> errors[q] * (rows - valid)]
  <2>1. rows - valid \in Nat /\ \A q \in Runs : errors[q] \in Nat
    BY Sizes DEF TypeOK
  <2>2. \A q \in Runs : w[q] \in Nat
    BY <2>1
  <2>3. ErrorRows = SumFunctionOnSet(w, Runs)
    BY DEF ErrorRows, SumFunction
  <2> HIDE DEF w
  <2>4. PICK f \in [SUBSET Runs -> Nat] : SumFunctionOnSet(w, Runs) = f[Runs]
    BY <2>2, SumAdds, Sizes
  <2> QED
    BY <2>3, <2>4
<1> QED
  BY <1>1, <1>4, <1>5, <1>6

LEMMA RequestRow ==
  ASSUME NEW r \in Request
  PROVE  /\ \A number \in Nat : [r EXCEPT !.op = "reprocess", !.auto = TRUE, !.pc = "run",
                                       !.number = number] \in Request
         /\ \A run \in Runs : [r EXCEPT !.pc = "status", !.run = run] \in Request
         /\ \A wrong \in Nat : [r EXCEPT !.pc = "set_totals", !.errors = wrong] \in Request
<1>1. ASSUME NEW number \in Nat
      PROVE  [r EXCEPT !.op = "reprocess", !.auto = TRUE, !.pc = "run",
                       !.number = number] \in Request
  BY DEF Request
<1>2. ASSUME NEW run \in Runs PROVE [r EXCEPT !.pc = "status", !.run = run] \in Request
  BY DEF Request
<1>3. ASSUME NEW wrong \in Nat
      PROVE  [r EXCEPT !.pc = "set_totals", !.errors = wrong] \in Request
  BY DEF Request
<1> QED
  BY <1>1, <1>2, <1>3

LEMMA RequestType ==
  ASSUME TypeOK, NEW c \in Clients, Asks(c)
  PROVE  req' \in [Clients -> Request]
<1>12. ASSUME NEW row \in Request, req' = [req EXCEPT ![c] = row]
       PROVE  req' \in [Clients -> Request]
  BY <1>12 DEF TypeOK
<1>13. req[c] \in Request
  BY DEF TypeOK
<1> USE DEF TypeOK, Request
<1>0. Fresh \in Request
  BY DEF Fresh
<1>1. ASSUME NEW from, NEW to \in {"run", "enqueue", "depth", "remove"}, GoOn(c, from, to)
      PROVE  req' \in [Clients -> Request]
  BY <1>1 DEF GoOn
<1>2. ASSUME NEW answer \in {"ok", "busy", "error"}, Answered(c, answer)
      PROVE  req' \in [Clients -> Request]
  BY <1>2 DEF Answered, Fresh
<1>3. CASE Reprocess(c)
  <2> DEFINE numbers == {0} \cup {runs[r].number : r \in {r \in Runs : runs[r].status # "none"}}
  <2>1. IsFiniteSet(numbers) /\ numbers \subseteq Nat /\ numbers # {}
    <3>1. numbers \subseteq Nat /\ numbers # {}
      BY DEF ParseRun
    <3>2. IsFiniteSet({r \in Runs : runs[r].status # "none"})
      BY Sizes, FS_Subset
    <3>3. IsFiniteSet({runs[r].number : r \in {r \in Runs : runs[r].status # "none"}})
      <4> DEFINE S == {r \in Runs : runs[r].status # "none"}
                 T == {runs[r].number : r \in S}
                 f == [r \in S |-> runs[r].number]
      <4>1. f \in Surjection(S, T)
        BY DEF Surjection
      <4> HIDE DEF S, T, f
      <4>2. IsFiniteSet(S)
        BY <3>2 DEF S
      <4>3. IsFiniteSet(T)
        BY <4>1, <4>2, FS_Surjection
      <4> QED
        BY <4>3 DEF S, T
    <3> QED
      BY <3>1, <3>3, FS_EmptySet, FS_AddElement, FS_Singleton, FS_Union
  <2>2. PICK number \in Nat : number = Max(numbers) + 1
    <3> HIDE DEF numbers
    <3>1. Max(numbers) \in Nat
      BY <2>1, Highest
    <3> QED
      BY <3>1
  <2>3. PICK row : row = [req[c] EXCEPT !.op = "reprocess", !.auto = TRUE, !.pc = "run",
                                     !.number = number]
    OBVIOUS
  <2>4. row \in Request
    <3> HIDE DEF Request, TypeOK
    <3> QED
      BY <1>13, <2>3, RequestRow
  <2>5. req' = [req EXCEPT ![c] = row]
    BY <1>3, <2>2, <2>3 DEF Reprocess
  <2> HIDE DEF Request, TypeOK
  <2> QED
    BY <1>12, <2>4, <2>5
<1>4. CASE Delete(c)
  BY <1>4 DEF Delete
<1>5. ASSUME NEW auto \in BOOLEAN, NEW withMapping \in BOOLEAN,
             CompleteRequest(c, auto, withMapping)
      PROVE  req' \in [Clients -> Request]
  BY <1>5 DEF CompleteRequest
<1>6. ASSUME NEW r \in Runs, Finalize(c, r) PROVE req' \in [Clients -> Request]
  BY <1>6, SumTypes DEF Finalize
<1>7. CASE InsertMapping(c) \/ SetUploadStatus(c) \/ CheckDepth(c) \/ Enqueue(c)
           \/ DeleteObject(c) \/ Remove(c) \/ RequestFails(c)
  BY <1>1, <1>2, <1>7
  DEF InsertMapping, SetUploadStatus, CheckDepth, Enqueue, DeleteObject, Remove, RequestFails
<1>8. ASSUME NEW r \in Runs, InsertRun(c, r) PROVE req' \in [Clients -> Request]
  <2>1. PICK row : row = [req[c] EXCEPT !.pc = "status", !.run = r]
    OBVIOUS
  <2>2. row \in Request
    <3> HIDE DEF Request, TypeOK
    <3> QED
      BY <1>13, <2>1, RequestRow
  <2>3. req' = [req EXCEPT ![c] = row]
    BY <1>8, <2>1 DEF InsertRun
  <2> HIDE DEF Request, TypeOK
  <2> QED
    BY <1>12, <2>2, <2>3
<1>9. CASE CountErrors(c)
  <2>1. PICK wrong \in Nat : wrong = ErrorRows
    BY SumTypes
  <2>2. PICK row : row = [req[c] EXCEPT !.pc = "set_totals", !.errors = wrong]
    OBVIOUS
  <2>3. row \in Request
    <3> HIDE DEF Request, TypeOK
    <3> QED
      BY <1>13, <2>2, RequestRow
  <2>4. req' = [req EXCEPT ![c] = row]
    BY <1>9, <2>1, <2>2 DEF CountErrors
  <2> HIDE DEF Request, TypeOK
  <2> QED
    BY <1>12, <2>3, <2>4
<1>10. CASE SetFinalTotals(c) \/ FinalizeFailed(c)
  BY <1>2, <1>10 DEF SetFinalTotals, FinalizeFailed
<1>11. CASE FinalizerThrows(c)
  BY <1>11 DEF FinalizerThrows
<1> QED
  BY <1>3, <1>4, <1>5, <1>6, <1>7, <1>8, <1>9, <1>10, <1>11 DEF Asks, NewRequest, RequestStep

\* The most rows a run can parse, and the runs that parsed any.
Most == IF type = "csv" THEN rows ELSE Rows
Parsed == {r \in Runs : runs[r].total > 0}

\* Nothing is there before the start.
NotBegun ==
  start = "new" =>
    /\ upload.total = 0 /\ upload.valid = 0 /\ upload.errors = 0
    /\ \A r \in Runs : runs[r].status = "none" /\ runs[r].total = 0 /\ runs[r].valid = 0
    /\ \A c \in Clients : req[c].pc = "idle"

\* A parse run counts the rows it can have, and is there as long as the upload.
Counted(r) ==
  /\ runs[r].total <= Most /\ runs[r].valid <= runs[r].total
  /\ Exists => runs[r].status # "gone"

\* Past the parsing the error rows are there, and then the parse run has its rows.
Recorded(r, n) ==
  Exists =>
    /\ proc[r][n] \in {"complete_run", "complete_upload"} /\ type = "csv" /\ valid < rows
         => errors[r] > 0
    /\ proc[r][n] = "complete_upload" =>
         IF type = "csv" THEN runs[r].total = rows ELSE runs[r].total > 0

\* What a finalizer read is there, or there is more of it.
Summed(c) ==
  req[c].pc \in {"count", "set_totals"} =>
    /\ req[c].total <= Most * Cardinality(Parsed) /\ req[c].valid <= req[c].total
    /\ req[c].pc = "set_totals" /\ Exists => req[c].errors <= ErrorRows

StatInv ==
  /\ TypeOK /\ StatisticsAreEarned /\ NotBegun
  /\ \A r \in Runs : Counted(r) /\ \A n \in RunNo : Recorded(r, n)
  /\ \A c \in Clients : Summed(c)

\* What every step but the start leaves alone: the file, and that a run has its
\* rows and, as long as the upload exists, its errors.
Accrues ==
  /\ UNCHANGED <<type, rows, valid>>
  /\ Exists' => Exists /\ \A r \in Runs : errors[r] <= errors'[r]
  /\ \A r \in Runs : \/ runs'[r].total = runs[r].total /\ runs'[r].valid = runs[r].valid
                     \/ IF type = "csv" THEN runs'[r].total = rows /\ runs'[r].valid = valid
                        ELSE runs'[r].total \in {1, Rows} /\ runs'[r].valid = runs'[r].total
  /\ runs' \in [Runs -> ParseRun]
  /\ Exists' => \A r \in Runs : runs'[r].status = "gone" => runs[r].status = "gone"

LEMMA RowOf ==
  ASSUME TypeOK, NEW r \in Runs
  PROVE  /\ runs[r].status \in {"none", "pending", "running", "completed", "failed", "gone"}
         /\ runs[r].number \in Nat /\ runs[r].total \in Nat /\ runs[r].valid \in Nat
         /\ runs[r] = [status |-> runs[r].status, number |-> runs[r].number,
                       total |-> runs[r].total, valid |-> runs[r].valid]
BY DEF TypeOK, ParseRun

\* UPDATE of a parse run: its status, and perhaps its totals.
LEMMA SetRunAccrues ==
  ASSUME TypeOK, NEW r \in Runs, UNCHANGED <<type, rows, valid, upload, errors>>,
         NEW status \in {"running", "completed", "failed"}, NEW total \in Nat, NEW ok \in Nat,
         SetRun(r, [runs[r] EXCEPT !.status = status, !.total = total, !.valid = ok]),
         \/ total = runs[r].total /\ ok = runs[r].valid
         \/ IF type = "csv" THEN total = rows /\ ok = valid
            ELSE total \in {1, Rows} /\ ok = total
  PROVE  /\ Accrues
         /\ runs[r].status \notin {"none", "gone"} => runs'[r].total = total
<1>1. PICK row : row = [runs[r] EXCEPT !.status = status, !.total = total, !.valid = ok]
  OBVIOUS
<1>2. /\ row = [status |-> status, number |-> runs[r].number, total |-> total, valid |-> ok]
      /\ row \in ParseRun
  <2>1. PICK old \in ParseRun : old = runs[r]
    BY DEF TypeOK
  <2> QED
    BY <1>1, <2>1 DEF ParseRun
<1>3. row.status = status /\ row.total = total /\ row.valid = ok
  BY <1>2
<1>4. runs' = IF runs[r].status \in {"none", "gone"} THEN runs ELSE [runs EXCEPT ![r] = row]
  BY <1>1 DEF SetRun
<1>5. /\ runs' \in [Runs -> ParseRun]
      /\ \A q \in Runs : q # r => runs'[q] = runs[q]
      /\ runs'[r] = runs[r] \/ runs'[r] = row
      /\ runs[r].status \notin {"none", "gone"} => runs'[r] = row
  BY <1>2, <1>4 DEF TypeOK
<1>6. \A q \in Runs : errors[q] \in Nat
  BY DEF TypeOK
<1> QED
  BY <1>3, <1>5, <1>6 DEF Accrues, Exists

LEMMA CascadeAccrues ==
  ASSUME TypeOK, Cascade, UNCHANGED <<type, rows, valid>>
  PROVE  /\ Accrues /\ ~Exists' /\ upload' \in Upload
         /\ upload'.total = upload.total /\ upload'.valid = upload.valid
<1>1. ASSUME NEW r \in Runs
      PROVE  /\ runs'[r] \in ParseRun
             /\ runs'[r].total = runs[r].total /\ runs'[r].valid = runs[r].valid
  <2>1. runs'[r] = IF runs[r].status = "none" THEN runs[r] ELSE [runs[r] EXCEPT !.status = "gone"]
    BY DEF Cascade
  <2>2. PICK old \in ParseRun : old = runs[r]
    BY DEF TypeOK
  <2>3. CASE runs[r].status = "none"
    BY <2>1, <2>2, <2>3
  <2>4. CASE runs'[r] = [old EXCEPT !.status = "gone"]
    BY <2>2, <2>4 DEF ParseRun
  <2> QED
    BY <2>1, <2>2, <2>3, <2>4
<1>2. /\ upload' \in Upload /\ ~Exists'
      /\ upload'.total = upload.total /\ upload'.valid = upload.valid
  <2>1. upload \in Upload
    BY DEF TypeOK
  <2> QED
    BY <2>1 DEF Cascade, Exists, Upload, Status
<1>3. runs' \in [Runs -> ParseRun]
  <2>1. runs' = [r \in Runs |-> runs'[r]]
    BY DEF Cascade
  <2> QED
    BY <1>1, <2>1
<1> QED
  BY <1>1, <1>2, <1>3 DEF Accrues

LEMMA AccruesStep ==
  ASSUME IInv, IInv', StatInv, [Next]_vars, ~Start
  PROVE  Accrues
<1>0. TypeOK /\ errors \in [Runs -> Nat] /\ runs \in [Runs -> ParseRun]
  BY DEF StatInv, TypeOK
<1>1. ASSUME UNCHANGED <<type, rows, valid, runs, errors>>, Exists' => Exists PROVE Accrues
  BY <1>0, <1>1 DEF Accrues
<1>2. CASE Quiet
  BY <1>1, <1>2 DEF Quiet, InsertFile, StartFails, Put, ReadStale, vars, input, store, Exists
<1>3. ASSUME NEW c \in Clients, NewRequest(c) PROVE Accrues
  BY <1>1, <1>3
  DEF NewRequest, Reprocess, Delete, CompleteRequest, Finalize, input, store, Exists
<1>4. ASSUME NEW c \in Clients, RequestStep(c) PROVE Accrues
  <2>1. CASE InsertMapping(c) \/ CheckDepth(c) \/ Enqueue(c) \/ DeleteObject(c)
             \/ RequestFails(c) \/ CountErrors(c) \/ FinalizerThrows(c)
    BY <1>1, <2>1 DEF InsertMapping, CheckDepth, Enqueue, DeleteObject, RequestFails,
                      CountErrors, FinalizerThrows, input, store, Exists
  <2>2. CASE SetUploadStatus(c) \/ SetFinalTotals(c) \/ FinalizeFailed(c)
    BY <1>1, <2>2 DEF SetUploadStatus, SetFinalTotals, FinalizeFailed, SetStatus, SetTotals,
                      input, store, Exists
  <2>3. ASSUME NEW r \in Runs, InsertRun(c, r) PROVE Accrues
    <3>1. PICK row : row = [runs[r] EXCEPT !.status = "pending", !.number = req[c].number]
      OBVIOUS
    <3>2. /\ row \in ParseRun /\ row.status = "pending"
          /\ row.total = runs[r].total /\ row.valid = runs[r].valid
      <4>1. req[c].number \in Nat
        BY <1>0 DEF TypeOK, Request
      <4> QED
        BY <1>0, <3>1, <4>1, RowOf DEF ParseRun
    <3>3. /\ runs' = [runs EXCEPT ![r] = row]
          /\ UNCHANGED <<type, rows, valid, upload, errors>>
      BY <2>3, <3>1 DEF InsertRun, input, store
    <3> QED
      BY <1>0, <3>2, <3>3 DEF Accrues, Exists
  <2>4. CASE Remove(c)
    BY <1>0, <2>4, CascadeAccrues DEF Remove, input
  <2> QED
    BY <1>4, <2>1, <2>2, <2>3, <2>4 DEF RequestStep
<1>5. ASSUME NEW t \in Ticks, DeleteStale(t) PROVE Accrues
  BY <1>0, <1>5, CascadeAccrues DEF DeleteStale, input
<1>6. ASSUME NEW r \in Runs, Fetch(r) \/ Stalled(r) PROVE Accrues
  BY <1>1, <1>6 DEF Fetch, Stalled, input, store, Exists
<1>7. ASSUME NEW r \in Runs, NEW n \in RunNo, Parses(r, n) PROVE Accrues
  <2>1. CASE ReadFile(r, n) \/ ParserThrows(r, n) \/ HandlerThrows(r, n) \/ Crash(r, n)
    BY <1>1, <2>1 DEF ReadFile, ParserThrows, HandlerThrows, Crash, input, store, Exists
  <2>2. CASE MarkUpload(r, n) \/ FailUpload(r, n)
    BY <1>1, <2>2 DEF MarkUpload, FailUpload, SetStatus, input, store, Exists
  <2>3. CASE CompleteUpload(r, n)
    BY <1>1, <2>3 DEF CompleteUpload, SetTotals, input, store, Exists
  <2>4. CASE InsertErrors(r, n)
    BY <1>0, <2>4 DEF InsertErrors, input, Accrues, Exists
  <2>5. ASSUME NEW status \in {"running", "failed"},
               SetRun(r, [runs[r] EXCEPT !.status = status]),
               UNCHANGED <<type, rows, valid, upload, errors>>
        PROVE  Accrues
    <3>1. [runs[r] EXCEPT !.status = status]
            = [runs[r] EXCEPT !.status = status, !.total = runs[r].total, !.valid = runs[r].valid]
      BY <1>0, RowOf
    <3>2. SetRun(r, [runs[r] EXCEPT !.status = status, !.total = runs[r].total,
                                    !.valid = runs[r].valid])
      BY <2>5, <3>1
    <3> QED
      BY <1>0, <2>5, <3>2, RowOf, SetRunAccrues
  <2>6. CASE MarkRun(r, n) \/ FailRun(r, n)
    BY <2>5, <2>6 DEF MarkRun, FailRun, input, store
  <2>7. CASE CompleteRun(r, n)
    <3>1. PICK k \in {1, Rows} :
            SetRun(r, [runs[r] EXCEPT !.status = "completed",
                         !.total = IF type = "csv" THEN rows ELSE k,
                         !.valid = IF type = "csv" THEN valid ELSE k])
      BY <2>7 DEF CompleteRun
    <3>2. PICK total, ok : /\ total = IF type = "csv" THEN rows ELSE k
                           /\ ok = IF type = "csv" THEN valid ELSE k
      OBVIOUS
    <3>3. total \in Nat /\ ok \in Nat
      BY <1>0, <3>2, Sizes DEF TypeOK
    <3>4. SetRun(r, [runs[r] EXCEPT !.status = "completed", !.total = total, !.valid = ok])
      BY <3>1, <3>2
    <3>5. UNCHANGED <<type, rows, valid, upload, errors>>
      BY <2>7 DEF CompleteRun, input, store
    <3> QED
      BY <1>0, <3>2, <3>3, <3>4, <3>5, SetRunAccrues
  <2> QED
    BY <1>7, <2>1, <2>2, <2>3, <2>4, <2>6, <2>7 DEF Parses, ParserStep
<1> QED
  BY <1>2, <1>3, <1>4, <1>5, <1>6, <1>7, StepKinds DEF Asks

LEMMA SumsKept ==
  ASSUME StatInv, Accrues, errors' \in [Runs -> Nat]
  PROVE  /\ Most' = Most /\ Most \in Nat /\ Parsed \subseteq Parsed'
         /\ Cardinality(Parsed) \in Nat /\ Cardinality(Parsed') \in Nat
         /\ Most * Cardinality(Parsed) <= Most' * Cardinality(Parsed')
         /\ Exists' => ErrorRows \in Nat /\ ErrorRows' \in Nat /\ ErrorRows <= ErrorRows'
<1>0. /\ TypeOK /\ rows \in Nat /\ valid \in Nat /\ valid <= rows /\ type \in {"csv", "pdf"}
      /\ \A r \in Runs : runs[r].total <= Most /\ runs[r].total \in Nat
      /\ \A r \in Runs : runs'[r].total \in Nat
  BY Sizes DEF StatInv, TypeOK, Counted, ParseRun, Accrues
<1>1. Most' = Most /\ Most \in Nat
  BY <1>0, Sizes DEF Most, Accrues
<1>2. Parsed \subseteq Parsed'
  <2> SUFFICES ASSUME NEW r \in Runs, runs[r].total > 0 PROVE runs'[r].total > 0
    BY DEF Parsed
  <2> QED
    BY <1>0, Sizes DEF Accrues, Most
<1>3. IsFiniteSet(Parsed) /\ IsFiniteSet(Parsed')
  <2>1. Parsed \subseteq Runs /\ Parsed' \subseteq Runs
    BY DEF Parsed
  <2> QED
    BY <2>1, Sizes, FS_Subset
<1>4. /\ Cardinality(Parsed) \in Nat /\ Cardinality(Parsed') \in Nat
      /\ Cardinality(Parsed) <= Cardinality(Parsed')
  BY <1>2, <1>3, FS_Subset, FS_CardinalityType
<1>5. Most * Cardinality(Parsed) <= Most' * Cardinality(Parsed')
  <2>1. ASSUME NEW m \in Nat, NEW a \in Nat, NEW b \in Nat, a <= b PROVE m * a <= m * b
    BY <2>1
  <2> QED
    BY <1>1, <1>4, <2>1
<1>6. ASSUME Exists' PROVE ErrorRows \in Nat /\ ErrorRows' \in Nat /\ ErrorRows <= ErrorRows'
  <2> DEFINE w == [q \in Runs |-> errors[q] * (rows - valid)]
             v == [q \in Runs |-> errors'[q] * (rows' - valid')]
  <2>1. ErrorRows = SumFunctionOnSet(w, Runs) /\ ErrorRows' = SumFunctionOnSet(v, Runs)
    BY DEF ErrorRows, SumFunction
  <2>2. PICK wrong \in Nat : wrong = rows - valid /\ wrong = rows' - valid'
    BY <1>0 DEF Accrues
  <2>3. ASSUME NEW q \in Runs PROVE w[q] \in Nat /\ v[q] \in Nat /\ w[q] <= v[q]
    <3>1. errors[q] \in Nat /\ errors'[q] \in Nat /\ errors[q] <= errors'[q]
      BY <1>0, <1>6 DEF TypeOK, Accrues
    <3>2. ASSUME NEW a \in Nat, NEW b \in Nat, a <= b
          PROVE  a * wrong \in Nat /\ b * wrong \in Nat /\ a * wrong <= b * wrong
      BY <3>2
    <3>3. w[q] = errors[q] * wrong /\ v[q] = errors'[q] * wrong
      BY <2>2
    <3> QED
      BY <3>1, <3>2, <3>3
  <2> HIDE DEF w, v
  <2>4. SumFunctionOnSet(w, Runs) <= SumFunctionOnSet(v, Runs)
    BY <2>3, Sizes, SumGrows
  <2>5. PICK f \in [SUBSET Runs -> Nat] : SumFunctionOnSet(w, Runs) = f[Runs]
    BY <2>3, Sizes, SumAdds
  <2>6. PICK g \in [SUBSET Runs -> Nat] : SumFunctionOnSet(v, Runs) = g[Runs]
    BY <2>3, Sizes, SumAdds
  <2> QED
    BY <2>1, <2>4, <2>5, <2>6
<1> QED
  BY <1>1, <1>2, <1>4, <1>5, <1>6

\* A finalizer reads no more than there is.
LEMMA ParsedIsBounded ==
  ASSUME StatInv
  PROVE  /\ ParsedRows <= Most * Cardinality(Parsed) /\ ParsedValid <= ParsedRows
<1>0. /\ TypeOK /\ Most \in Nat /\ IsFiniteSet(Present) /\ Present \subseteq Runs
      /\ \A r \in Runs : /\ runs[r].total \in 0..Most /\ runs[r].valid \in Nat
                         /\ runs[r].valid <= runs[r].total
  <2>1. TypeOK /\ Most \in Nat
    BY Sizes DEF StatInv, TypeOK, Most
  <2>2. ASSUME NEW r \in Runs
        PROVE  /\ runs[r].total \in 0..Most /\ runs[r].valid \in Nat
               /\ runs[r].valid <= runs[r].total
    <3>1. Counted(r)
      BY DEF StatInv
    <3>2. runs[r].total \in Nat /\ runs[r].valid \in Nat
      BY <2>1, RowOf
    <3>3. runs[r].total <= Most /\ runs[r].valid <= runs[r].total
      BY <3>1 DEF Counted
    <3> QED
      BY <2>1, <3>2, <3>3
  <2> QED
    BY <2>1, <2>2, SumTypes DEF Present
<1> DEFINE w == [q \in Runs |-> runs[q].valid]
           v == [q \in Runs |-> runs[q].total]
<1>1. /\ \A q \in Present : w[q] \in Nat /\ v[q] \in Nat /\ w[q] <= v[q]
      /\ \A q \in Present : v[q] \in 0..Most
  BY <1>0
<1>2. {q \in Present : v[q] > 0} \subseteq Parsed
  BY <1>0 DEF Parsed
<1>3. ParsedValid = SumFunctionOnSet(w, Present) /\ ParsedRows = SumFunctionOnSet(v, Present)
  BY DEF ParsedValid, ParsedRows
<1> HIDE DEF w, v
<1>4. ParsedValid <= ParsedRows
  BY <1>0, <1>1, <1>3, SumGrows
<1>5. ParsedRows <= Most * Cardinality({q \in Present : v[q] > 0}) /\ ParsedRows \in Nat
  BY <1>0, <1>1, <1>3, SumIsBounded
<1>6. /\ Cardinality(Parsed) \in Nat /\ Cardinality({q \in Present : v[q] > 0}) \in Nat
      /\ Cardinality({q \in Present : v[q] > 0}) <= Cardinality(Parsed)
  <2>1. IsFiniteSet(Parsed)
    BY Sizes, FS_Subset DEF Parsed
  <2> QED
    BY <1>2, <2>1, FS_Subset, FS_CardinalityType
<1>7. ASSUME NEW m \in Nat, NEW a \in Nat, NEW b \in Nat, NEW s \in Nat, a <= b, s <= m * a
      PROVE  s <= m * b
  <2>1. m * a <= m * b /\ m * a \in Nat /\ m * b \in Nat
    BY <1>7
  <2> QED
    BY <1>7, <2>1
<1> QED
  BY <1>0, <1>4, <1>5, <1>6, <1>7

\* What a step writes to the statistics is earned before it.
LEMMA UploadStep ==
  ASSUME IInv, IInv', StatInv, [Next]_vars, ~Start
  PROVE  /\ upload' \in Upload /\ upload'.valid <= upload'.total
         /\ upload'.total <= Most * Cardinality(Parsed)
         /\ Exists' => upload'.errors <= ErrorRows
<1>0. /\ TypeOK /\ upload \in Upload /\ upload.valid <= upload.total
      /\ upload.total <= Most * Cardinality(Parsed) /\ (Exists => upload.errors <= ErrorRows)
  BY DEF StatInv, TypeOK, StatisticsAreEarned, Most, Parsed
<1> DEFINE Earned == /\ upload' \in Upload /\ upload'.valid <= upload'.total
                     /\ upload'.total <= Most * Cardinality(Parsed)
                     /\ Exists' => upload'.errors <= ErrorRows
<1>1. CASE UNCHANGED upload
  BY <1>0, <1>1 DEF Exists
<1>2. ASSUME NEW status \in Status, SetStatus(status) PROVE Earned
  <2>1. /\ upload' \in Upload /\ upload'.total = upload.total /\ upload'.valid = upload.valid
        /\ upload'.errors = upload.errors /\ (Exists' => Exists)
    BY <1>0, <1>2 DEF SetStatus, Upload, Exists
  <2> HIDE DEF Exists
  <2> QED
    BY <1>0, <2>1
<1>3. ASSUME Cascade PROVE Earned
  <2>1. /\ upload' \in Upload /\ upload'.total = upload.total /\ upload'.valid = upload.valid
        /\ ~Exists'
    BY <1>0, <1>3 DEF Cascade, Upload, Exists, Status
  <2> QED
    BY <1>0, <2>1
<1>4. ASSUME NEW status \in Status, NEW total \in Nat, NEW ok \in Nat, NEW wrong \in Nat,
             SetTotals(status, total, ok, wrong),
             Exists => /\ ok <= total /\ total <= Most * Cardinality(Parsed)
                       /\ wrong <= ErrorRows
      PROVE  Earned
  <2>1. CASE Exists
    <3>1. upload' = [status |-> status, total |-> total, valid |-> ok, errors |-> wrong]
      BY <1>4, <2>1 DEF SetTotals
    <3>2. /\ upload' \in Upload /\ upload'.total = total /\ upload'.valid = ok
          /\ upload'.errors = wrong
      BY <3>1 DEF Upload
    <3> QED
      BY <1>4, <2>1, <3>2
  <2>2. CASE ~Exists
    <3>1. upload' = upload
      BY <1>4, <2>2 DEF SetTotals
    <3> QED
      BY <1>0, <3>1 DEF Exists
  <2> QED
    BY <2>1, <2>2
<1>5. CASE Quiet
  BY <1>1, <1>5, QuietFrame
<1>6. ASSUME NEW c \in Clients, Asks(c) PROVE Earned
  <2>1. CASE NewRequest(c)
    BY <1>1, <2>1 DEF NewRequest, Reprocess, Delete, CompleteRequest, Finalize
  <2>2. ASSUME NEW status \in {"processing", "completed", "failed"}, SetStatus(status)
        PROVE  Earned
    BY <1>2, <2>2 DEF Status
  <2>3. CASE SetFinalTotals(c)
    <3>1. PICK status \in {"failed", "completed"} :
            SetTotals(status, req[c].total, req[c].valid, req[c].errors)
      BY <2>3 DEF SetFinalTotals
    <3>2. /\ req[c].total \in Nat /\ req[c].valid \in Nat /\ req[c].errors \in Nat
          /\ req[c].pc = "set_totals" /\ Summed(c)
      BY <1>0, <2>3 DEF TypeOK, Request, SetFinalTotals, StatInv
    <3>3. Exists => /\ req[c].valid <= req[c].total /\ req[c].errors <= ErrorRows
                    /\ req[c].total <= Most * Cardinality(Parsed)
      BY <3>2 DEF Summed
    <3>4. status \in Status
      BY DEF Status
    <3> HIDE DEF Earned
    <3> QED
      BY <1>4, <3>1, <3>2, <3>3, <3>4
  <2>4. ASSUME NEW r \in Runs, InsertRun(c, r) PROVE Earned
    BY <1>1, <2>4 DEF InsertRun
  <2>5. CASE Enqueue(c)
    BY <1>1, <2>5 DEF Enqueue
  <2> HIDE DEF Earned
  <2> QED
    BY <1>1, <1>3, <1>6, <2>1, <2>2, <2>3, <2>4, <2>5, RequestEffect DEF Asks, IInv, Earned
<1>7. ASSUME NEW t \in Ticks, DeleteStale(t) PROVE Earned
  BY <1>3, <1>7 DEF DeleteStale
<1>8. ASSUME NEW r \in Runs, Fetch(r) \/ Stalled(r) PROVE Earned
  BY <1>1, <1>8 DEF Fetch, Stalled
<1>9. ASSUME NEW r \in Runs, NEW n \in RunNo, Parses(r, n) PROVE Earned
  <2>1. CASE MarkUpload(r, n) \/ FailUpload(r, n)
    BY <1>2, <2>1 DEF MarkUpload, FailUpload, Status
  <2>2. CASE CompleteUpload(r, n)
    <3>0. /\ proc[r][n] = "complete_upload" /\ Recorded(r, n)
          /\ runs[r].total \in Nat /\ errors[r] \in Nat
          /\ rows \in Nat /\ valid \in Nat /\ valid <= rows /\ type \in {"csv", "pdf"}
      BY <1>0, <2>2, RowOf, Sizes DEF CompleteUpload, Advance, StatInv, TypeOK
    <3>1. Cardinality(Parsed) \in Nat /\ (r \in Parsed => Cardinality(Parsed) >= 1)
      <4>1. IsFiniteSet(Parsed)
        BY Sizes, FS_Subset DEF Parsed
      <4> QED
        BY <4>1, FS_CardinalityType, FS_EmptySet
    <3>2. ErrorRows \in Nat /\ (Exists /\ type = "csv" => rows - valid <= ErrorRows)
      <4>1. ErrorRows \in Nat
        BY <1>0, SumTypes
      <4>2. ASSUME Exists, type = "csv", valid < rows PROVE rows - valid <= ErrorRows
        <5> DEFINE w == [q \in Runs |-> errors[q] * (rows - valid)]
        <5>1. ErrorRows = SumFunctionOnSet(w, Runs)
          BY DEF ErrorRows, SumFunction
        <5>2. rows - valid \in Nat /\ \A q \in Runs : errors[q] \in Nat
          BY <1>0, <3>0 DEF TypeOK
        <5>3. \A q \in Runs : w[q] \in Nat
          BY <5>2
        <5>4. errors[r] >= 1
          BY <3>0, <4>2 DEF Recorded
        <5>5. rows - valid <= w[r]
          <6>1. ASSUME NEW a \in Nat, NEW b \in Nat, a >= 1 PROVE b <= a * b
            BY <6>1
          <6> QED
            BY <3>0, <5>2, <5>4, <6>1
        <5> HIDE DEF w
        <5>6. w[r] <= ErrorRows
          BY <5>1, <5>3, Sizes, SumCovers
        <5> QED
          BY <4>1, <5>2, <5>3, <5>5, <5>6
      <4> QED
        BY <3>0, <4>1, <4>2
    <3>3. CASE type = "csv"
      <4>1. PICK status \in {"failed", "completed"} : SetTotals(status, rows, valid, rows - valid)
        BY <2>2, <3>3 DEF CompleteUpload
      <4>2. Exists => rows <= rows * Cardinality(Parsed)
        <5>1. ASSUME NEW a \in Nat, NEW b \in Nat, b >= 1 PROVE a <= a * b
          BY <5>1
        <5>2. CASE rows = 0
          BY <3>1, <5>2
        <5>3. CASE rows > 0
          <6>1. Exists => r \in Parsed
            BY <3>0, <3>3, <5>3 DEF Recorded, Parsed
          <6> QED
            BY <3>0, <3>1, <5>1, <6>1
        <5> QED
          BY <3>0, <5>2, <5>3
      <4>3. status \in Status /\ rows - valid \in Nat /\ Most = rows
        BY <3>0, <3>3 DEF Status, Most
      <4> HIDE DEF Earned
      <4> QED
        BY <1>4, <3>0, <3>2, <3>3, <4>1, <4>2, <4>3
    <3>4. CASE type # "csv"
      <4>1. SetTotals("completed", 1, 1, 0)
        BY <2>2, <3>4 DEF CompleteUpload
      <4>2. Exists => 1 <= Most * Cardinality(Parsed)
        <5>1. ASSUME NEW a \in Nat, NEW b \in Nat, a >= 1, b >= 1 PROVE 1 <= a * b
          BY <5>1
        <5>2. Most \in Nat /\ Most >= 1
          BY <3>4, Sizes DEF Most
        <5>3. Exists => r \in Parsed
          BY <3>0, <3>4 DEF Recorded, Parsed
        <5> QED
          BY <3>1, <5>1, <5>2, <5>3
      <4>3. "completed" \in Status
        BY DEF Status
      <4> HIDE DEF Earned
      <4> QED
        BY <1>4, <3>2, <4>1, <4>2, <4>3
    <3> QED
      BY <3>3, <3>4
  <2>3. CASE \/ MarkRun(r, n) \/ ReadFile(r, n) \/ InsertErrors(r, n) \/ CompleteRun(r, n)
             \/ ParserThrows(r, n) \/ FailRun(r, n) \/ HandlerThrows(r, n) \/ Crash(r, n)
    BY <1>1, <2>3 DEF MarkRun, ReadFile, InsertErrors, CompleteRun, ParserThrows, FailRun,
                      HandlerThrows, Crash
  <2> HIDE DEF Earned
  <2> QED
    BY <1>9, <2>1, <2>2, <2>3 DEF Parses, ParserStep
<1> HIDE DEF Earned
<1> QED
  BY <1>5, <1>6, <1>7, <1>8, <1>9, StepKinds DEF Earned

\* The rest of the types.
LEMMA TypeStep ==
  ASSUME IInv, IInv', StatInv, [Next]_vars, ~Start
  PROVE  TypeOK'
<1>0. TypeOK /\ Accrues /\ upload' \in Upload
  BY AccruesStep, UploadStep DEF StatInv
<1>1. /\ errors' \in [Runs -> Nat] /\ job' \in [Runs -> Job]
      /\ proc' \in [Runs -> [RunNo -> ParserPc]]
  BY DEF IInv, Shape
<1>2. /\ type' \in {"csv", "pdf"} /\ rows' \in {0, Rows} /\ valid' \in 0..rows'
      /\ runs' \in [Runs -> ParseRun]
  BY <1>0 DEF TypeOK, Accrues
<1> DEFINE Others == /\ start' \in {"new", "file", "done", "failed"}
                     /\ file' \in BOOLEAN /\ mapping' \in BOOLEAN /\ object' \in BOOLEAN
                     /\ req' \in [Clients -> Request]
                     /\ tick' \in [Ticks -> {"idle", "delete", "done"}]
<1>3. ASSUME UNCHANGED <<start, file, mapping, object, req, tick>> PROVE Others
  BY <1>0, <1>3 DEF TypeOK
<1>4. ASSUME Quiet PROVE Others
  BY <1>0, <1>4 DEF Quiet, InsertFile, StartFails, Put, ReadStale, vars, input, store, TypeOK
<1>5. ASSUME NEW c \in Clients, Asks(c) PROVE Others
  <2>1. req' \in [Clients -> Request]
    BY <1>0, <1>5, RequestType
  <2>2. UNCHANGED <<start, tick>>
    BY <1>5 DEF Asks, NewRequest, RequestStep, Reprocess, Delete, CompleteRequest, Finalize,
                InsertMapping, InsertRun, SetUploadStatus, CheckDepth, Enqueue, DeleteObject,
                Remove, RequestFails, CountErrors, SetFinalTotals, FinalizerThrows,
                FinalizeFailed, input
  <2>3. file' \in BOOLEAN /\ mapping' \in BOOLEAN /\ object' \in BOOLEAN
    <3>1. CASE NewRequest(c)
      BY <1>0, <3>1 DEF NewRequest, Reprocess, Delete, CompleteRequest, Finalize, store, TypeOK
    <3>2. CASE RequestStep(c)
      BY <1>0, <3>2
      DEF RequestStep, InsertMapping, InsertRun, SetUploadStatus, CheckDepth, Enqueue,
          DeleteObject, Remove, RequestFails, CountErrors, SetFinalTotals, FinalizerThrows,
          FinalizeFailed, Cascade, store, TypeOK
    <3> QED
      BY <1>5, <3>1, <3>2 DEF Asks
  <2> QED
    BY <1>0, <2>1, <2>2, <2>3 DEF TypeOK
<1>6. ASSUME NEW t \in Ticks, DeleteStale(t) PROVE Others
  BY <1>0, <1>6 DEF DeleteStale, Cascade, input, TypeOK
<1>7. ASSUME NEW r \in Runs, Fetch(r) \/ Stalled(r) PROVE Others
  BY <1>3, <1>7 DEF Fetch, Stalled, input, store
<1>8. ASSUME NEW r \in Runs, NEW n \in RunNo, Parses(r, n) PROVE Others
  <2>1. UNCHANGED <<start, file, mapping, req, tick>>
    BY <1>8, ParserFrame DEF Parses, IInv
  <2>2. object' = object
    BY <1>8 DEF Parses, ParserStep, MarkRun, MarkUpload, ReadFile, InsertErrors, CompleteRun,
                CompleteUpload, ParserThrows, FailRun, FailUpload, HandlerThrows, Crash, store
  <2> QED
    BY <1>3, <2>1, <2>2
<1> HIDE DEF Others
<1>9. Others
  BY <1>3, <1>4, <1>5, <1>6, <1>7, <1>8, StepKinds DEF Others
<1> QED
  BY <1>0, <1>1, <1>2, <1>9 DEF TypeOK, Others

\* Which runs of the parser are past the parsing, and what they left.
LEMMA RecordedStep ==
  ASSUME IInv, IInv', StatInv, [Next]_vars, ~Start,
         NEW q \in Runs, NEW m \in RunNo
  PROVE  Recorded(q, m)'
<1> SUFFICES ASSUME Exists' PROVE
      /\ proc'[q][m] \in {"complete_run", "complete_upload"} /\ type = "csv" /\ valid < rows
           => errors'[q] > 0
      /\ proc'[q][m] = "complete_upload" =>
           IF type = "csv" THEN runs'[q].total = rows ELSE runs'[q].total > 0
  BY AccruesStep DEF Recorded, Accrues
<1>0. /\ TypeOK /\ Accrues /\ Exists /\ Recorded(q, m) /\ Counted(q)
      /\ errors[q] \in Nat /\ errors'[q] \in Nat /\ errors[q] <= errors'[q]
      /\ runs[q].total \in Nat /\ rows \in Nat /\ valid \in Nat /\ type \in {"csv", "pdf"}
  BY AccruesStep, RowOf, Sizes DEF StatInv, Accrues, TypeOK, IInv, Shape
<1>1. CASE proc'[q][m] = proc[q][m]
  BY <1>0, <1>1, Sizes DEF Recorded, Accrues
<1>2. CASE proc'[q][m] # proc[q][m]
  <2>1. CASE \E r \in Runs : Fetch(r) \/ Stalled(r)
    <3>1. PICK r \in Runs : Fetch(r) \/ Stalled(r)
      BY <2>1
    <3>2. proc'[q][m] = "mark_run"
      BY <1>2, <3>1, FetchFrame DEF IInv
    <3> QED
      BY <3>2
  <2>2. ASSUME NEW r \in Runs, NEW n \in RunNo, Parses(r, n)
        PROVE  /\ proc'[q][m] \in {"complete_run", "complete_upload"} /\ type = "csv"
                    /\ valid < rows => errors'[q] > 0
               /\ proc'[q][m] = "complete_upload" =>
                    IF type = "csv" THEN runs'[q].total = rows ELSE runs'[q].total > 0
    <3>1. r = q /\ n = m
      BY <1>2, <2>2, ParserFrame DEF Parses, IInv
    <3>2. CASE ReadFile(q, m)
      BY <1>0, <3>2 DEF ReadFile, Advance, IInv, Shape
    <3>3. CASE InsertErrors(q, m)
      BY <1>0, <3>3 DEF InsertErrors, Advance, IInv, Shape
    <3>4. CASE CompleteRun(q, m)
      <4>1. /\ proc[q][m] = "complete_run" /\ proc'[q][m] = "complete_upload"
            /\ UNCHANGED <<type, rows, valid, upload, errors>>
        BY <3>4 DEF CompleteRun, Advance, IInv, Shape, input, store
      <4>2. runs[q].status \notin {"none", "gone"}
        BY <1>0, <4>1 DEF Counted, IInv, Queued
      <4>3. PICK k \in {1, Rows} :
              SetRun(q, [runs[q] EXCEPT !.status = "completed",
                           !.total = IF type = "csv" THEN rows ELSE k,
                           !.valid = IF type = "csv" THEN valid ELSE k])
        BY <3>4 DEF CompleteRun
      <4>4. PICK total, ok : /\ total = IF type = "csv" THEN rows ELSE k
                             /\ ok = IF type = "csv" THEN valid ELSE k
        OBVIOUS
      <4>5. total \in Nat /\ ok \in Nat /\ (type # "csv" => total > 0)
        BY <1>0, <4>4, Sizes
      <4>6. SetRun(q, [runs[q] EXCEPT !.status = "completed", !.total = total, !.valid = ok])
        BY <4>3, <4>4
      <4>7. runs'[q].total = total
        BY <1>0, <4>1, <4>2, <4>4, <4>5, <4>6, SetRunAccrues
      <4> QED
        BY <1>0, <4>1, <4>4, <4>5, <4>7 DEF Recorded
    <3>5. CASE \/ MarkRun(q, m) \/ MarkUpload(q, m) \/ CompleteUpload(q, m) \/ ParserThrows(q, m)
               \/ FailRun(q, m) \/ FailUpload(q, m) \/ HandlerThrows(q, m) \/ Crash(q, m)
      <4>1. proc'[q][m] \notin {"complete_run", "complete_upload"}
        BY <3>5 DEF MarkRun, MarkUpload, CompleteUpload, ParserThrows, FailRun, FailUpload,
                    HandlerThrows, Crash, Advance, IInv, Shape
      <4> QED
        BY <4>1
    <3> QED
      BY <2>2, <3>1, <3>2, <3>3, <3>4, <3>5 DEF Parses, ParserStep
  <2>3. CASE Quiet
    BY <1>2, <2>3, QuietFrame
  <2>4. CASE \E c \in Clients : Asks(c)
    BY <1>2, <2>4, AsksFrame DEF IInv
  <2>5. CASE \E t \in Ticks : DeleteStale(t)
    BY <1>2, <2>5 DEF DeleteStale, worker
  <2> QED
    BY <2>1, <2>2, <2>3, <2>4, <2>5, StepKinds
<1> QED
  BY <1>1, <1>2

\* What the finalizers have read stays covered.
LEMMA SummedStep ==
  ASSUME IInv, IInv', StatInv, [Next]_vars, ~Start, NEW d \in Clients
  PROVE  Summed(d)'
<1>0. /\ Accrues /\ Summed(d) /\ TypeOK /\ req \in [Clients -> Request]
      /\ Most * Cardinality(Parsed) <= (Most * Cardinality(Parsed))'
      /\ Most * Cardinality(Parsed) \in Nat /\ (Most * Cardinality(Parsed))' \in Nat
      /\ Exists' => Exists /\ ErrorRows \in Nat /\ ErrorRows' \in Nat /\ ErrorRows <= ErrorRows'
  <2>1. Accrues /\ errors' \in [Runs -> Nat]
    BY AccruesStep DEF IInv, Shape
  <2>2. \A a, b \in Nat : a * b \in Nat
    OBVIOUS
  <2> QED
    BY <2>1, <2>2, SumsKept DEF StatInv, TypeOK, Accrues
<1>1. ASSUME req'[d].pc \in {"count", "set_totals"},
             /\ req'[d].total \in Nat /\ req'[d].valid \in Nat /\ req'[d].errors \in Nat
             /\ req'[d].total <= Most * Cardinality(Parsed) /\ req'[d].valid <= req'[d].total
             /\ req'[d].pc = "set_totals" /\ Exists => req'[d].errors <= ErrorRows
      PROVE  Summed(d)'
  BY <1>0, <1>1 DEF Summed
<1>2. CASE req'[d] = req[d]
  BY <1>0, <1>1, <1>2 DEF Summed, Request
<1>3. CASE req'[d].pc \notin {"count", "set_totals"}
  BY <1>3 DEF Summed
<1>4. ASSUME Asks(d), req'[d].pc \in {"count", "set_totals"} PROVE Summed(d)'
  <2>0. /\ req[d] \in Request /\ req[d].total \in Nat /\ req[d].valid \in Nat
        /\ req[d].errors \in Nat /\ DOMAIN req = Clients
    BY <1>0 DEF Request
  <2>1. ASSUME NEW r \in Runs, Finalize(d, r) PROVE Summed(d)'
    <3>1. PICK total, ok : total = ParsedRows /\ ok = ParsedValid
      OBVIOUS
    <3>2. req' = [req EXCEPT ![d].op = "finalize", ![d].total = total,
                     ![d].pc = IF r \in Present THEN "count" ELSE "fail", ![d].valid = ok]
      BY <2>1, <3>1 DEF Finalize
    <3>3. /\ req'[d].total = total /\ req'[d].valid = ok /\ req'[d].errors = req[d].errors
          /\ req'[d].pc \in {"count", "fail"}
      BY <2>0, <3>2 DEF Request
    <3>4. total \in Nat /\ ok \in Nat /\ total <= Most * Cardinality(Parsed) /\ ok <= total
      BY <1>0, <3>1, SumTypes, ParsedIsBounded
    <3> QED
      BY <1>1, <1>4, <2>0, <3>3, <3>4
  <2>2. CASE CountErrors(d)
    <3>1. PICK wrong : wrong = ErrorRows
      OBVIOUS
    <3>2. req' = [req EXCEPT ![d].pc = "set_totals", ![d].errors = wrong] /\ req[d].pc = "count"
      BY <2>2, <3>1 DEF CountErrors
    <3>3. /\ req'[d].total = req[d].total /\ req'[d].valid = req[d].valid
          /\ req'[d].errors = wrong /\ req'[d].pc = "set_totals"
      BY <2>0, <3>2 DEF Request
    <3>4. wrong \in Nat
      BY <1>0, <3>1, SumTypes
    <3> QED
      BY <1>0, <1>1, <2>0, <3>1, <3>2, <3>3, <3>4 DEF Summed
  <2>3. CASE \/ Reprocess(d) \/ Delete(d)
             \/ \E auto, withMapping \in BOOLEAN : CompleteRequest(d, auto, withMapping)
    <3>1. req'[d].pc \in {"run", "mapping", "object", "remove"}
      <4>1. CASE Reprocess(d)
        <5>1. PICK number : req' = [req EXCEPT ![d].op = "reprocess", ![d].auto = TRUE,
                                               ![d].pc = "run", ![d].number = number]
          BY <4>1 DEF Reprocess
        <5> QED
          BY <2>0, <5>1 DEF Request
      <4>2. CASE Delete(d)
        BY <2>0, <4>2 DEF Delete, Request
      <4>3. ASSUME NEW auto \in BOOLEAN, NEW withMapping \in BOOLEAN,
                   CompleteRequest(d, auto, withMapping)
            PROVE  req'[d].pc \in {"run", "mapping"}
        BY <2>0, <4>3 DEF CompleteRequest, Request
      <4> QED
        BY <2>3, <4>1, <4>2, <4>3
    <3> QED
      BY <1>4, <3>1
  <2>4. CASE \/ InsertMapping(d) \/ SetUploadStatus(d) \/ CheckDepth(d) \/ Enqueue(d)
             \/ DeleteObject(d) \/ Remove(d) \/ RequestFails(d) \/ SetFinalTotals(d)
             \/ FinalizeFailed(d)
    <3>1. ASSUME NEW from, NEW to \in {"run", "enqueue", "depth", "remove"}, GoOn(d, from, to)
          PROVE  FALSE
      BY <1>4, <2>0, <3>1 DEF GoOn, Request
    <3>2. ASSUME NEW answer, Answered(d, answer) PROVE FALSE
      BY <1>4, <2>0, <3>2 DEF Answered, Fresh
    <3> QED
      BY <2>4, <3>1, <3>2
      DEF InsertMapping, SetUploadStatus, CheckDepth, Enqueue, DeleteObject, Remove,
          RequestFails, SetFinalTotals, FinalizeFailed
  <2>5. CASE FinalizerThrows(d) \/ \E r \in Runs : InsertRun(d, r)
    <3>1. ASSUME NEW r \in Runs, InsertRun(d, r) PROVE req'[d].pc = "status"
      BY <2>0, <3>1 DEF InsertRun, Request
    <3>2. CASE FinalizerThrows(d)
      BY <1>4, <2>0, <3>2 DEF FinalizerThrows, Request
    <3> QED
      BY <1>4, <2>5, <3>1, <3>2
  <2> QED
    BY <1>4, <2>1, <2>2, <2>3, <2>4, <2>5 DEF Asks, NewRequest, RequestStep
<1>5. ASSUME NEW c \in Clients, Asks(c) PROVE Summed(d)'
  BY <1>2, <1>3, <1>4, <1>5, AsksFrame DEF IInv
<1>6. CASE \E r \in Runs, n \in RunNo : Parses(r, n)
  BY <1>2, <1>6, ParserFrame DEF Parses, IInv
<1>7. CASE Quiet \/ (\E t \in Ticks : DeleteStale(t)) \/ (\E r \in Runs : Fetch(r) \/ Stalled(r))
  BY <1>2, <1>7, QuietFrame DEF DeleteStale, Fetch, Stalled
<1> QED
  BY <1>5, <1>6, <1>7, StepKinds

LEMMA StartStep ==
  ASSUME IInv, IInv', StatInv, Start
  PROVE  StatInv'
<1>0. /\ TypeOK /\ start = "new" /\ start' = "file" /\ type' \in {"csv", "pdf"}
      /\ rows' \in {0, Rows} /\ valid' \in 0..rows'
      /\ upload' = [upload EXCEPT !.status = "pending"]
      /\ UNCHANGED <<file, mapping, object, errors, runs, job, proc, req, tick>>
  BY DEF StatInv, Start, store, worker
<1>1. /\ upload.total = 0 /\ upload.valid = 0 /\ upload.errors = 0
      /\ \A r \in Runs : runs[r].status = "none" /\ runs[r].total = 0 /\ runs[r].valid = 0
      /\ \A c \in Clients : req[c].pc = "idle"
      /\ \A r \in Runs, n \in RunNo : proc[r][n] = "new"
  BY <1>0 DEF StatInv, NotBegun, IInv, Queued
<1>2. /\ upload' \in Upload /\ upload'.total = 0 /\ upload'.valid = 0 /\ upload'.errors = 0
  BY <1>0, <1>1 DEF TypeOK, Upload, Status
<1>3. TypeOK'
  BY <1>0, <1>2 DEF TypeOK
<1>4. Most' \in Nat /\ Parsed' = {} /\ Most' * Cardinality(Parsed') = 0
  <2>1. Most' \in Nat
    BY <1>0, Sizes DEF Most
  <2>2. Parsed' = {}
    BY <1>0, <1>1 DEF Parsed
  <2> QED
    BY <2>1, <2>2, FS_EmptySet
<1>5. ErrorRows' \in Nat
  <2> DEFINE v == [q \in Runs |-> errors'[q] * (rows' - valid')]
  <2>1. ErrorRows' = SumFunctionOnSet(v, Runs)
    BY DEF ErrorRows, SumFunction
  <2>2. rows' - valid' \in Nat /\ \A q \in Runs : errors'[q] \in Nat
    BY <1>0, Sizes DEF TypeOK
  <2>3. \A q \in Runs : v[q] \in Nat
    BY <2>2
  <2> HIDE DEF v
  <2>4. PICK f \in [SUBSET Runs -> Nat] : SumFunctionOnSet(v, Runs) = f[Runs]
    BY <2>3, Sizes, SumAdds
  <2> QED
    BY <2>1, <2>4
<1>6. StatisticsAreEarned'
  BY <1>2, <1>4, <1>5 DEF StatisticsAreEarned, Most, Parsed
<1>7. \A r \in Runs : Counted(r)' /\ \A n \in RunNo : Recorded(r, n)'
  BY <1>0, <1>1, <1>4 DEF Counted, Recorded
<1>8. NotBegun' /\ \A c \in Clients : Summed(c)'
  BY <1>0, <1>1 DEF NotBegun, Summed
<1> QED
  BY <1>3, <1>6, <1>7, <1>8 DEF StatInv

\* Before the start nothing happens, but a tick that finds nothing to delete.
LEMMA NotBegunStep ==
  ASSUME IInv, IInv', StatInv, [Next]_vars, ~Start
  PROVE  NotBegun'
<1> SUFFICES ASSUME start' = "new" PROVE NotBegun'
  BY DEF NotBegun
<1>1. start = "new"
  <2>1. CASE Quiet
    BY <2>1, QuietFrame
  <2>2. ASSUME NEW c \in Clients, Asks(c) PROVE start' = start
    BY <2>2, AsksFrame DEF IInv
  <2>3. ASSUME NEW t \in Ticks, DeleteStale(t) PROVE start' = start
    BY <2>3 DEF DeleteStale, input
  <2>4. ASSUME NEW r \in Runs, Fetch(r) \/ Stalled(r) PROVE start' = start
    BY <2>4, FetchFrame DEF IInv
  <2>5. ASSUME NEW r \in Runs, NEW n \in RunNo, Parses(r, n) PROVE start' = start
    BY <2>5, ParserFrame DEF Parses, IInv
  <2> QED
    BY <2>1, <2>2, <2>3, <2>4, <2>5, StepKinds
<1>2. /\ NotBegun /\ ~Exists
      /\ upload.total = 0 /\ upload.valid = 0 /\ upload.errors = 0
      /\ \A r \in Runs : runs[r].status = "none" /\ runs[r].total = 0 /\ runs[r].valid = 0
      /\ \A c \in Clients : req[c].pc = "idle"
      /\ \A r \in Runs, n \in RunNo : proc[r][n] = "new"
  BY <1>1 DEF StatInv, NotBegun, IInv, Started, Exists, Queued
<1>3. CASE UNCHANGED <<upload, runs, req>>
  BY <1>2, <1>3 DEF NotBegun
<1>4. CASE Quiet
  BY <1>3, <1>4, QuietFrame
<1>5. ASSUME NEW c \in Clients, Asks(c) PROVE FALSE
  <2>1. ~NewRequest(c)
    BY <1>2 DEF NewRequest, Reprocess, Delete, CompleteRequest, Finalize
  <2>2. ~RequestStep(c)
    BY <1>2 DEF RequestStep, InsertMapping, InsertRun, SetUploadStatus, CheckDepth, Enqueue,
                DeleteObject, Remove, RequestFails, CountErrors, SetFinalTotals,
                FinalizerThrows, FinalizeFailed, GoOn
  <2> QED
    BY <1>5, <2>1, <2>2 DEF Asks
<1>6. ASSUME NEW t \in Ticks, DeleteStale(t) PROVE NotBegun'
  <2>1. /\ upload' = upload /\ req' = req
        /\ \A r \in Runs : runs'[r] = runs[r]
    BY <1>2, <1>6 DEF DeleteStale, Cascade
  <2> QED
    BY <1>2, <2>1 DEF NotBegun
<1>7. ASSUME NEW r \in Runs, Fetch(r) \/ Stalled(r) PROVE NotBegun'
  BY <1>3, <1>7, FetchFrame DEF IInv
<1>8. ASSUME NEW r \in Runs, NEW n \in RunNo, Parses(r, n) PROVE FALSE
  BY <1>2, <1>8, ParserFrame DEF Parses, IInv, Live, Over
<1> QED
  BY <1>4, <1>5, <1>6, <1>7, <1>8, StepKinds

LEMMA StatInit == Init => StatInv
<1> SUFFICES ASSUME Init PROVE StatInv
  OBVIOUS
<1>1. TypeOK
  <2>1. Fresh \in Request
    BY DEF Fresh, Request
  <2>2. 0 \in 0..MaxAttempts /\ 0 \in 0..(MaxStalls + 1)
    BY Sizes
  <2>3. /\ type \in {"csv", "pdf"} /\ rows \in {0, Rows} /\ valid \in 0..rows
        /\ start \in {"new", "file", "done", "failed"} /\ upload \in Upload
        /\ file \in BOOLEAN /\ mapping \in BOOLEAN /\ object \in BOOLEAN
    <3>1. rows = 0 /\ valid = 0 /\ 0 \in 0..0
      BY DEF Init
    <3>2. upload \in Upload
      BY DEF Init, Upload, Status
    <3> QED
      BY <3>1, <3>2 DEF Init
  <2>4. runs \in [Runs -> ParseRun] /\ errors \in [Runs -> Nat]
    BY DEF Init, ParseRun
  <2>5. job \in [Runs -> Job] /\ proc \in [Runs -> [RunNo -> ParserPc]]
    BY <2>2 DEF Init, Job, ParserPc
  <2>6. req \in [Clients -> Request] /\ tick \in [Ticks -> {"idle", "delete", "done"}]
    BY <2>1 DEF Init
  <2> QED
    BY <2>3, <2>4, <2>5, <2>6 DEF TypeOK
<1>2. Most = 0 /\ Parsed = {} /\ Most * Cardinality(Parsed) = 0
  <2>1. Most = 0 /\ Parsed = {}
    BY DEF Init, Most, Parsed
  <2> QED
    BY <2>1, FS_EmptySet
<1>3. StatisticsAreEarned
  BY <1>1, <1>2, SumTypes DEF StatisticsAreEarned, Init, Most, Parsed
<1>4. NotBegun
  BY DEF Init, NotBegun, Fresh
<1>5. /\ \A r \in Runs : Counted(r) /\ \A n \in RunNo : Recorded(r, n)
      /\ \A c \in Clients : Summed(c)
  BY <1>2 DEF Init, Counted, Recorded, Summed, Fresh, Exists
<1> QED
  BY <1>1, <1>3, <1>4, <1>5 DEF StatInv

LEMMA StatStep ==
  ASSUME IInv, IInv', StatInv, [Next]_vars
  PROVE  StatInv'
<1>1. CASE Start
  BY <1>1, StartStep
<1>2. CASE ~Start
  <2>0. /\ TypeOK' /\ Accrues /\ errors' \in [Runs -> Nat]
        /\ upload'.valid <= upload'.total /\ upload'.total <= Most * Cardinality(Parsed)
        /\ Exists' => upload'.errors <= ErrorRows
    BY <1>2, TypeStep, AccruesStep, UploadStep DEF IInv, Shape
  <2>1. /\ Most' = Most /\ Most \in Nat
        /\ Most * Cardinality(Parsed) <= Most' * Cardinality(Parsed')
        /\ Most * Cardinality(Parsed) \in Nat /\ Most' * Cardinality(Parsed') \in Nat
        /\ Exists' => ErrorRows \in Nat /\ ErrorRows' \in Nat /\ ErrorRows <= ErrorRows'
    <3>1. \A a, b \in Nat : a * b \in Nat
      OBVIOUS
    <3> QED
      BY <2>0, <3>1, SumsKept
  <2>2. StatisticsAreEarned'
    <3>1. upload'.total \in Nat /\ upload'.errors \in Nat
      BY <2>0 DEF TypeOK, Upload
    <3>2. /\ upload'.total <= Most' * Cardinality(Parsed')
          /\ Exists' => upload'.errors <= ErrorRows'
      BY <2>0, <2>1, <3>1
    <3> QED
      BY <2>0, <3>2 DEF StatisticsAreEarned, Most, Parsed
  <2>3. ASSUME NEW r \in Runs PROVE Counted(r)'
    <3>1. Counted(r) /\ type \in {"csv", "pdf"} /\ rows \in Nat /\ valid \in 0..rows
      BY Sizes DEF StatInv, TypeOK
    <3> QED
      BY <2>0, <2>1, <3>1, Sizes DEF Counted, Accrues, Most
  <2>4. NotBegun'
    BY <1>2, NotBegunStep
  <2> QED
    BY <1>2, <2>0, <2>2, <2>3, <2>4, RecordedStep, SummedStep DEF StatInv
<1> QED
  BY <1>1, <1>2

\* The upload's statistics are those of its runs: no more rows than the completed
\* runs have parsed, no more valid than all, no error no run inserted; and the types.
THEOREM Statistics == Spec => []UploadsInv
<1>1. StatInv => UploadsInv
  BY DEF StatInv, UploadsInv
<1> QED
  BY Invariance, StatInit, StatStep, <1>1, PTL DEF Spec
====
