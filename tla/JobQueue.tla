------------------------------ MODULE JobQueue ------------------------------
(***************************************************************************)
(* The job system shared by the API and the worker: POST /admin/jobs/      *)
(* enqueue (apps/api/src/routes/admin/jobs.ts), the BullMQ queue it fills  *)
(* (apps/api/src/plugins/queue.ts) and the handler every BullMQ worker     *)
(* runs (apps/worker/src/worker.ts).                                       *)
(*                                                                         *)
(* Every database or Redis call is one step, so two requests, two workers  *)
(* and a crash can fall between any two of them.  A worker stands for one  *)
(* concurrency slot of one worker process; its loss is the loss of the     *)
(* slot, with the BullMQ lock it held.                                     *)
(***************************************************************************)
EXTENDS Integers, FiniteSets

CONSTANTS
  Clients,      \* requests to the enqueue route, one request each
  Keys,         \* idempotency keys of one tenant (scope 'job')
  Jobs,         \* job ids createJobId() can return
  Workers,      \* worker slots
  NoKey, NoJob, NoWorker,
  MaxAttempts,  \* BullMQ 'attempts' of the API's queues (3 in plugins/queue.ts)
  MaxStalls     \* BullMQ maxStalledCount (default 1; no option is passed)

ASSUME AbsentValues ==
  NoKey \notin Keys /\ NoJob \notin Jobs /\ NoWorker \notin Workers
ASSUME AttemptBounds == MaxAttempts \in Nat \ {0} /\ MaxStalls \in Nat

VARIABLES
  req,     \* req[c]: a request's program counter, key, fresh job id and answer
  idem,    \* idem[k]: the idempotency_keys row of key k
  row,     \* row[j]: the jobs row of job j
  bull,    \* bull[j]: the BullMQ job carrying j, its counters and lock owner
  run,     \* run[w]: what the handler in slot w is doing
  effects  \* effects[j]: how often the processor of j ran to the end

vars == <<req, idem, row, bull, run, effects>>

(***************************************************************************)
(* Data                                                                    *)
(***************************************************************************)
RowStatus  == {"none", "pending", "processing", "completed", "failed"}
BullState  == {"none", "waiting", "active", "completed", "failed"}
Answer     == {"none", "queued", "duplicate", "in_progress", "error"}
RequestPc  == {"new", "check", "insert_key", "insert_job", "add", "audit", "done"}
HandlerPc  == {"idle", "start", "process", "complete", "settle_key",
               "return", "catch", "throw"}

Request    == [pc : RequestPc, key : Keys \cup {NoKey}, job : Jobs \cup {NoJob},
               answer : Answer, named : Jobs \cup {NoJob}]
KeyRow     == [status : {"none", "pending", "completed"}, job : Jobs \cup {NoJob}]
JobRow     == [status : RowStatus, key : Keys \cup {NoKey}]
QueueEntry == [state : BullState, attempts : 0..MaxAttempts,
               stalls : 0..(MaxStalls + 1), lock : Workers \cup {NoWorker}]
Run        == [pc : HandlerPc, job : Jobs \cup {NoJob}]

TypeOK ==
  /\ req \in [Clients -> Request]
  /\ idem \in [Keys -> KeyRow]
  /\ row \in [Jobs -> JobRow]
  /\ bull \in [Jobs -> QueueEntry]
  /\ run \in [Workers -> Run]
  /\ effects \in [Jobs -> Nat]

Init ==
  /\ req = [c \in Clients |-> [pc |-> "new", key |-> NoKey, job |-> NoJob,
                               answer |-> "none", named |-> NoJob]]
  /\ idem = [k \in Keys |-> [status |-> "none", job |-> NoJob]]
  /\ row = [j \in Jobs |-> [status |-> "none", key |-> NoKey]]
  /\ bull = [j \in Jobs |-> [state |-> "none", attempts |-> 0, stalls |-> 0,
                             lock |-> NoWorker]]
  /\ run = [w \in Workers |-> [pc |-> "idle", job |-> NoJob]]
  /\ effects = [j \in Jobs |-> 0]

(***************************************************************************)
(* The enqueue route                                                       *)
(***************************************************************************)

\* A request arrives, its body is valid, and createJobId() returns an id that
\* no other request holds.
Submit(c, k, j) ==
  /\ req[c].pc = "new"
  /\ \A d \in Clients : req[d].job # j
  /\ req' = [req EXCEPT ![c].pc = IF k = NoKey THEN "insert_job" ELSE "check",
                        ![c].key = k, ![c].job = j]
  /\ UNCHANGED <<idem, row, bull, run, effects>>

\* Look the key up: a completed key answers 'duplicate' with the job id stored
\* in response_json, a pending one 'in_progress'.  expires_at, 24 hours after
\* the insertion, is not read here or anywhere else.
CheckKey(c) ==
  LET k == req[c].key IN
  /\ req[c].pc = "check"
  /\ \/ /\ idem[k].status = "completed"
        /\ req' = [req EXCEPT ![c].pc = "done", ![c].answer = "duplicate",
                              ![c].named = idem[k].job]
     \/ /\ idem[k].status = "pending"
        /\ req' = [req EXCEPT ![c].pc = "done", ![c].answer = "in_progress"]
     \/ /\ idem[k].status = "none"
        /\ req' = [req EXCEPT ![c].pc = "insert_key"]
  /\ UNCHANGED <<idem, row, bull, run, effects>>

\* Variants of InsertKey for mutation: without the UNIQUE constraint, and with
\* the answer stored before the job has run.
InsertKeyTwice(c) ==
  /\ req[c].pc = "insert_key"
  /\ idem' = [idem EXCEPT ![req[c].key].status = "pending"]
  /\ req' = [req EXCEPT ![c].pc = "insert_job"]
  /\ UNCHANGED <<row, bull, run, effects>>

InsertKeyAnswered(c) ==
  LET k == req[c].key IN
  /\ req[c].pc = "insert_key" /\ idem[k].status = "none"
  /\ idem' = [idem EXCEPT ![k].status = "completed", ![k].job = req[c].job]
  /\ req' = [req EXCEPT ![c].pc = "insert_job"]
  /\ UNCHANGED <<row, bull, run, effects>>

\* Insert the key as 'pending'.  UNIQUE (tenant_id, scope, key) rejects a
\* second row: the handler throws and the client gets a 500.
InsertKey(c) ==
  LET k == req[c].key IN
  /\ req[c].pc = "insert_key"
  /\ IF idem[k].status = "none"
     THEN /\ idem' = [idem EXCEPT ![k].status = "pending"]
          /\ req' = [req EXCEPT ![c].pc = "insert_job"]
     ELSE /\ req' = [req EXCEPT ![c].pc = "done", ![c].answer = "error"]
          /\ UNCHANGED idem
  /\ UNCHANGED <<row, bull, run, effects>>

InsertJob(c) ==
  /\ req[c].pc = "insert_job"
  /\ row' = [row EXCEPT ![req[c].job] = [status |-> "pending", key |-> req[c].key]]
  /\ req' = [req EXCEPT ![c].pc = "add"]
  /\ UNCHANGED <<idem, bull, run, effects>>

\* queue.add(jobId, { jobId, tenantId, payload })
AddToQueue(c) ==
  /\ req[c].pc = "add"
  /\ bull' = [bull EXCEPT ![req[c].job].state = "waiting"]
  /\ req' = [req EXCEPT ![c].pc = "audit"]
  /\ UNCHANGED <<idem, row, run, effects>>

\* The audit record is written and the client is told 'queued'.
AuditAndReply(c) ==
  /\ req[c].pc = "audit"
  /\ req' = [req EXCEPT ![c].pc = "done", ![c].answer = "queued"]
  /\ UNCHANGED <<idem, row, bull, run, effects>>

\* The next database or Redis call of the route fails, or the API process
\* dies: the client sees an error and what was written stays.
RequestFails(c) ==
  /\ req[c].pc \in {"check", "insert_key", "insert_job", "add", "audit"}
  /\ req' = [req EXCEPT ![c].pc = "done", ![c].answer = "error"]
  /\ UNCHANGED <<idem, row, bull, run, effects>>

(***************************************************************************)
(* The handler of a BullMQ worker                                          *)
(***************************************************************************)
Goto(w, from, to) ==
  /\ run[w].pc = from
  /\ run' = [run EXCEPT ![w].pc = to]

\* BullMQ hands a waiting job to a free slot and gives the slot its lock.
Fetch(w, j) ==
  /\ run[w].pc = "idle"
  /\ bull[j].state = "waiting"
  /\ bull' = [bull EXCEPT ![j].state = "active", ![j].lock = w]
  /\ run' = [run EXCEPT ![w] = [pc |-> "start", job |-> j]]
  /\ UNCHANGED <<req, idem, row, effects>>

\* UPDATE jobs SET status ... WHERE id = jobId: nothing happens without a row.
SetRow(j, status) ==
  row' = IF row[j].status = "none" THEN row ELSE [row EXCEPT ![j].status = status]

MarkProcessing(w) ==
  /\ Goto(w, "start", "process")
  /\ SetRow(run[w].job, "processing")
  /\ UNCHANGED <<req, idem, bull, effects>>

ProcessorReturns(w) ==
  /\ Goto(w, "process", "complete")
  /\ effects' = [effects EXCEPT ![run[w].job] = @ + 1]
  /\ UNCHANGED <<req, idem, row, bull>>

MarkCompleted(w) ==
  /\ Goto(w, "complete", "settle_key")
  /\ SetRow(run[w].job, "completed")
  /\ UNCHANGED <<req, idem, bull, effects>>

\* Read the row's idempotency_key_id and, if it has one, complete that key.
SettleKey(w) ==
  LET j == run[w].job
      k == row[j].key
  IN
  /\ Goto(w, "settle_key", "return")
  /\ idem' = IF k = NoKey THEN idem
             ELSE [idem EXCEPT ![k].status = "completed", ![k].job = j]
  /\ UNCHANGED <<req, row, bull, effects>>

\* The processor throws, or one of the handler's own statements fails: control
\* goes to the catch block, also after the row was completed.
HandlerThrows(w) ==
  /\ \E pc \in {"start", "process", "complete", "settle_key"} : Goto(w, pc, "catch")
  /\ UNCHANGED <<req, idem, row, bull, effects>>

\* A variant for mutation: the catch block does not rethrow.
MarkFailedSwallowed(w) ==
  /\ Goto(w, "catch", "return")
  /\ SetRow(run[w].job, "failed")
  /\ UNCHANGED <<req, idem, bull, effects>>

\* The catch block writes 'failed' unless that statement fails too; rethrow.
MarkFailed(w) ==
  /\ Goto(w, "catch", "throw")
  /\ \/ SetRow(run[w].job, "failed")
     \/ UNCHANGED row
  /\ UNCHANGED <<req, idem, bull, effects>>

\* BullMQ moves the job to completed; a slot whose lock is gone is refused and
\* only an 'error' event is logged.
Return(w) ==
  LET j == run[w].job IN
  /\ run[w].pc = "return"
  /\ run' = [run EXCEPT ![w] = [pc |-> "idle", job |-> NoJob]]
  /\ bull' = IF bull[j].lock = w
             THEN [bull EXCEPT ![j].state = "completed", ![j].lock = NoWorker,
                               ![j].attempts = @ + 1]
             ELSE bull
  /\ UNCHANGED <<req, idem, row, effects>>

\* Variants of Throw for mutation: one attempt too many, and no count at all.
ThrowOnceMore(w) ==
  LET j == run[w].job IN
  /\ run[w].pc = "throw"
  /\ run' = [run EXCEPT ![w] = [pc |-> "idle", job |-> NoJob]]
  /\ bull' = IF bull[j].lock = w
             THEN [bull EXCEPT
                     ![j].attempts = @ + 1, ![j].lock = NoWorker,
                     ![j].state = IF bull[j].attempts < MaxAttempts
                                  THEN "waiting" ELSE "failed"]
             ELSE bull
  /\ UNCHANGED <<req, idem, row, effects>>

ThrowUncounted(w) ==
  LET j == run[w].job IN
  /\ run[w].pc = "throw"
  /\ run' = [run EXCEPT ![w] = [pc |-> "idle", job |-> NoJob]]
  /\ bull' = IF bull[j].lock = w
             THEN [bull EXCEPT ![j].lock = NoWorker, ![j].state = "waiting"]
             ELSE bull
  /\ UNCHANGED <<req, idem, row, effects>>

\* BullMQ counts the attempt and retries (after a backoff, not modelled) while
\* attempts remain.  The 'failed' listener only logs.
Throw(w) ==
  LET j == run[w].job IN
  /\ run[w].pc = "throw"
  /\ run' = [run EXCEPT ![w] = [pc |-> "idle", job |-> NoJob]]
  /\ bull' = IF bull[j].lock = w
             THEN [bull EXCEPT
                     ![j].attempts = @ + 1, ![j].lock = NoWorker,
                     ![j].state = IF bull[j].attempts + 1 < MaxAttempts
                                  THEN "waiting" ELSE "failed"]
             ELSE bull
  /\ UNCHANGED <<req, idem, row, effects>>

(***************************************************************************)
(* Faults of a worker                                                      *)
(***************************************************************************)
DropLock(w) ==
  [j \in Jobs |-> IF bull[j].lock = w THEN [bull[j] EXCEPT !.lock = NoWorker]
                                      ELSE bull[j]]

\* The process dies, or is stopped by the shutdown handler's process.exit.
Crash(w) ==
  /\ run[w].pc # "idle"
  /\ run' = [run EXCEPT ![w] = [pc |-> "idle", job |-> NoJob]]
  /\ bull' = DropLock(w)
  /\ UNCHANGED <<req, idem, row, effects>>

\* The slot does not renew its lock in time (its event loop is busy or Redis
\* is unreachable) and keeps running without it.
LoseLock(w) ==
  /\ \E j \in Jobs : bull[j].lock = w
  /\ bull' = DropLock(w)
  /\ UNCHANGED <<req, idem, row, run, effects>>

\* BullMQ's stalled check: an active job without a lock goes back to waiting,
\* or to failed when it has stalled more than maxStalledCount times.  No
\* handler code runs in either case.
StalledCheck(j) ==
  /\ bull[j].state = "active" /\ bull[j].lock = NoWorker
  /\ bull' = [bull EXCEPT ![j].stalls = @ + 1,
                          ![j].state = IF bull[j].stalls + 1 > MaxStalls
                                       THEN "failed" ELSE "waiting"]
  /\ UNCHANGED <<req, idem, row, run, effects>>

(***************************************************************************)
(* Specification                                                           *)
(***************************************************************************)
RequestStep(c) ==
  CheckKey(c) \/ InsertKey(c) \/ InsertJob(c) \/ AddToQueue(c) \/ AuditAndReply(c)

HandlerStep(w) ==
  \/ MarkProcessing(w) \/ ProcessorReturns(w) \/ MarkCompleted(w) \/ SettleKey(w)
  \/ HandlerThrows(w) \/ MarkFailed(w) \/ Return(w) \/ Throw(w)

Next ==
  \/ \E c \in Clients, k \in Keys \cup {NoKey}, j \in Jobs : Submit(c, k, j)
  \/ \E c \in Clients : RequestStep(c) \/ RequestFails(c)
  \/ \E w \in Workers, j \in Jobs : Fetch(w, j)
  \/ \E w \in Workers : HandlerStep(w) \/ Crash(w) \/ LoseLock(w)
  \/ \E j \in Jobs : StalledCheck(j)

Spec == Init /\ [][Next]_vars

\* A request in progress, a free slot, a running handler and the stalled check
\* keep going; nobody is obliged to submit, to crash or to lose a lock.
Fairness ==
  /\ \A c \in Clients : WF_vars(RequestStep(c))
  /\ \A w \in Workers : WF_vars(HandlerStep(w))
  /\ \A j \in Jobs : WF_vars(\E w \in Workers : Fetch(w, j)) /\ WF_vars(StalledCheck(j))

FairSpec == Spec /\ Fairness

(***************************************************************************)
(* Safety                                                                  *)
(***************************************************************************)

\* However many requests race with one idempotency key, at most one jobs row is
\* ever created for it (UNIQUE key inserted before the row).
OneJobPerKey ==
  \A i, j \in Jobs : row[i].key # NoKey /\ row[i].key = row[j].key => i = j

\* A client told 'duplicate' is given the job of its own key, and that job's
\* processor has really run to the end at least once.
HonestDuplicate ==
  \A c \in Clients :
    req[c].answer = "duplicate" =>
      /\ req[c].named \in Jobs
      /\ row[req[c].named].key = req[c].key
      /\ effects[req[c].named] > 0

\* Two handlers run the same job at once only if BullMQ declared it stalled
\* since: without stalls a job has one handler.
OverlapNeedsStall ==
  \A j \in Jobs : Cardinality({w \in Workers : run[w].job = j}) <= 1 + bull[j].stalls

\* Retries and stalls together bound how often a job's side effects happen.
BoundedProcessing ==
  \A j \in Jobs : effects[j] <= MaxAttempts + MaxStalls

\* When BullMQ has completed a job that never stalled, its jobs row says
\* 'completed' and its idempotency key is completed in its name, whatever
\* failed and was retried before.
CompletedJobIsRecorded ==
  \A j \in Jobs :
    bull[j].state = "completed" /\ bull[j].stalls = 0 =>
      /\ row[j].status = "completed"
      /\ row[j].key # NoKey =>
           idem[row[j].key].status = "completed" /\ idem[row[j].key].job = j

(***************************************************************************)
(* Liveness                                                                *)
(***************************************************************************)

\* Every job the API put in the queue leaves it as completed or failed, through
\* any mix of errors, crashes and lost locks.
QueuedJobsSettle ==
  \A j \in Jobs :
    bull[j].state = "waiting" ~> bull[j].state \in {"completed", "failed"}

(***************************************************************************)
(* Refinement: what the idempotency key promises to a client               *)
(***************************************************************************)
Bound == {p \in Keys \X Jobs : row[p[2]].key = p[1]}
Processed == {j \in Jobs : effects[j] > 0}
Told == {p \in Keys \X Jobs :
           \E c \in Clients : /\ req[c].answer = "duplicate"
                              /\ req[c].key = p[1] /\ req[c].named = p[2]}

Promise == INSTANCE KeyedJobs WITH bound <- Bound, processed <- Processed, told <- Told

\* The job system implements the promise of KeyedJobs.
KeepsPromise == Promise!Spec
=============================================================================
