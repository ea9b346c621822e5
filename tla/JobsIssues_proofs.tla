-------------------------- MODULE JobsIssues_proofs --------------------------
(***************************************************************************)
(* Proofs about JobQueue, for any number of clients, keys, jobs, workers,  *)
(* attempts and stalls, and about Detection, for any configurations, keys, *)
(* runs, jobs, requests and deaths.                                        *)
(*                                                                         *)
(* IInv is the inductive invariant of JobQueue: types, which request owns  *)
(* which fresh job id, where the retry counters can stand, who holds an    *)
(* idempotency key, and what a completed key stands for.  RunsInv adds how *)
(* many slots may run a job at once and how often its processor can have   *)
(* run to the end.                                                         *)
(*                                                                         *)
(* IssuesIInv adds to IssuesInv which job works on which run, what of the  *)
(* run's issues it has inserted, that an issue's run has a row, and what a *)
(* request under way is about.  A step of a job is of one of eight kinds   *)
(* (ProcessKinds), a request's changes no run and no job (RequestFrame):   *)
(* every part is then proved once for jobs and once for requests.          *)
(***************************************************************************)
EXTENDS JobQueue, DetectionState, FiniteSetTheorems, TLAPS

Detect == INSTANCE Detection

(***************************************************************************)
(* JobQueue                                                                *)
(***************************************************************************)
\* A request past Submit owns a job id nobody else owns, and a request that
\* handles a key has one; only a finished request has an answer; a running slot
\* has a job.
Owners ==
  /\ \A c \in Clients :
       /\ req[c].pc = "new" <=> req[c].job = NoJob
       /\ req[c].pc \in {"check", "insert_key"} => req[c].key \in Keys
       /\ req[c].answer # "none" => req[c].pc = "done"
       /\ req[c].answer = "duplicate" => req[c].key \in Keys
  /\ \A c, d \in Clients : req[c].job = req[d].job /\ req[c].job # NoJob => c = d
  /\ \A w \in Workers : run[w].pc = "idle" <=> run[w].job = NoJob

\* Rows and queue entries exist only for owned ids, and not before the request
\* that owns the id has inserted them.
Fresh ==
  /\ \A j \in Jobs :
       /\ row[j].status # "none" => \E c \in Clients : req[c].job = j
       /\ row[j].status = "none" => row[j].key = NoKey /\ bull[j].state = "none"
       /\ bull[j].state = "none" => bull[j].attempts = 0 /\ bull[j].stalls = 0
  /\ \A c \in Clients :
       /\ req[c].pc \in {"check", "insert_key", "insert_job"}
            => row[req[c].job].status = "none"
       /\ req[c].pc = "add" => /\ row[req[c].job].status # "none"
                               /\ bull[req[c].job].state = "none"

\* A job that can still run has attempts and stalls left; only an active job
\* has a lock, and the lock's owner is running that job.
Counters ==
  \A j \in Jobs :
    /\ bull[j].state \in {"waiting", "active"}
         => bull[j].attempts < MaxAttempts /\ bull[j].stalls <= MaxStalls
    /\ bull[j].lock # NoWorker => bull[j].state = "active"

\* A key is claimed by one request between InsertKey and InsertJob, and by one
\* row afterwards.
KeyHeld ==
  /\ \A j \in Jobs : row[j].key \in Keys => idem[row[j].key].status # "none"
  /\ \A c \in Clients :
       req[c].pc = "insert_job" /\ req[c].key \in Keys =>
         /\ idem[req[c].key].status # "none"
         /\ \A j \in Jobs : row[j].key # req[c].key
         /\ \A d \in Clients :
              req[d].pc = "insert_job" /\ req[d].key = req[c].key => d = c

\* A completed key names a job of its own that has been processed, and a slot
\* about to complete a key has processed its job.
KeyHonest ==
  /\ \A k \in Keys : idem[k].status = "completed" =>
       idem[k].job \in Jobs /\ row[idem[k].job].key = k /\ effects[idem[k].job] > 0
  /\ \A w \in Workers : run[w].pc \in {"complete", "settle_key"} => effects[run[w].job] > 0

IInv ==
  /\ TypeOK /\ Owners /\ Fresh /\ Counters /\ KeyHeld /\ KeyHonest
  /\ OneJobPerKey /\ HonestDuplicate

LEMMA InitIInv == Init => IInv
  BY AbsentValues, AttemptBounds
  DEF Init, IInv, TypeOK, Owners, Fresh, Counters, KeyHeld, KeyHonest, OneJobPerKey,
      HonestDuplicate, Request, KeyRow, JobRow, QueueEntry, Run, Answer, RequestPc,
      HandlerPc, RowStatus, BullState

\* The members of the status sets, so that the type proof need not expand them.
LEMMA Members ==
  /\ "new" \in RequestPc /\ "check" \in RequestPc /\ "insert_key" \in RequestPc /\ "insert_job" \in RequestPc
  /\ "add" \in RequestPc /\ "audit" \in RequestPc /\ "done" \in RequestPc
  /\ "none" \in Answer /\ "queued" \in Answer /\ "duplicate" \in Answer /\ "in_progress" \in Answer
  /\ "error" \in Answer
  /\ "idle" \in HandlerPc /\ "start" \in HandlerPc /\ "process" \in HandlerPc /\ "complete" \in HandlerPc
  /\ "settle_key" \in HandlerPc /\ "return" \in HandlerPc /\ "catch" \in HandlerPc /\ "throw" \in HandlerPc
  /\ "none" \in RowStatus /\ "pending" \in RowStatus /\ "processing" \in RowStatus /\ "completed" \in RowStatus
  /\ "failed" \in RowStatus
  /\ "none" \in BullState /\ "waiting" \in BullState /\ "active" \in BullState /\ "completed" \in BullState
  /\ "failed" \in BullState
  BY DEF RequestPc, Answer, HandlerPc, RowStatus, BullState

\* What CheckKey and SettleKey write are again records of their tables.
LEMMA AnsweredRequest ==
  ASSUME NEW r \in Request, NEW j \in Jobs \cup {NoJob}
  PROVE  /\ [r EXCEPT !.pc = "done", !.answer = "duplicate", !.named = j] \in Request
         /\ [r EXCEPT !.pc = "done", !.answer = "in_progress"] \in Request
         /\ [r EXCEPT !.pc = "insert_key"] \in Request
  BY Members DEF Request

LEMMA CompletedKeyRow ==
  ASSUME NEW r \in KeyRow, NEW j \in Jobs
  PROVE  [r EXCEPT !.status = "completed", !.job = j] \in KeyRow
  BY DEF KeyRow

LEMMA TypeStep == TypeOK /\ Owners /\ Fresh /\ Counters /\ [Next]_vars => TypeOK'
<1> SUFFICES ASSUME TypeOK /\ Owners /\ Fresh /\ Counters, [Next]_vars PROVE TypeOK'
  OBVIOUS
<1> USE AbsentValues, AttemptBounds, Members DEF TypeOK
<1>1. ASSUME NEW c \in Clients, NEW k \in Keys \cup {NoKey}, NEW j \in Jobs, Submit(c, k, j) PROVE TypeOK'
  <2>1. req' \in [Clients -> Request]
    BY <1>1 DEF Submit, Request
  <2> QED
    BY <1>1, <2>1 DEF Submit
<1>2. ASSUME NEW c \in Clients, CheckKey(c) PROVE TypeOK'
  <2>1. req[c].key \in Keys /\ idem[req[c].key].job \in Jobs \cup {NoJob}
    BY <1>2 DEF CheckKey, Owners, KeyRow
  <2>2. req' \in [Clients -> Request]
    <3>1. req[c] \in Request
      OBVIOUS
    <3>2. CASE req' = [req EXCEPT ![c].pc = "done", ![c].answer = "duplicate",
                                  ![c].named = idem[req[c].key].job]
      BY <2>1, <3>1, <3>2, AnsweredRequest
    <3>3. CASE req' = [req EXCEPT ![c].pc = "done", ![c].answer = "in_progress"]
      BY <3>1, <3>3, AnsweredRequest, NoJob \in Jobs \cup {NoJob}
    <3>4. CASE req' = [req EXCEPT ![c].pc = "insert_key"]
      BY <3>1, <3>4, AnsweredRequest, NoJob \in Jobs \cup {NoJob}
    <3> QED
      BY <1>2, <3>2, <3>3, <3>4 DEF CheckKey
  <2> QED
    BY <1>2, <2>2 DEF CheckKey
<1>3. ASSUME NEW c \in Clients, InsertKey(c) PROVE TypeOK'
  <2>1. req[c] \in Request /\ req[c].key \in Keys /\ idem[req[c].key] \in KeyRow
    BY <1>3 DEF Owners, InsertKey
  <2>2. /\ [req[c] EXCEPT !.pc = "done", !.answer = "error"] \in Request
        /\ [req[c] EXCEPT !.pc = "insert_job"] \in Request
        /\ [idem[req[c].key] EXCEPT !.status = "pending"] \in KeyRow
    BY <2>1 DEF Request, KeyRow
  <2> QED
    BY <1>3, <2>1, <2>2 DEF InsertKey
<1>4. ASSUME NEW c \in Clients, InsertJob(c) PROVE TypeOK'
  <2>1. req[c] \in Request /\ req[c].job \in Jobs
    BY <1>4 DEF Owners, InsertJob, Request
  <2>2. /\ [req[c] EXCEPT !.pc = "add"] \in Request
        /\ [status |-> "pending", key |-> req[c].key] \in JobRow
    BY <2>1 DEF Request, JobRow
  <2> QED
    BY <1>4, <2>1, <2>2 DEF InsertJob
<1>5. ASSUME NEW c \in Clients, AddToQueue(c) PROVE TypeOK'
  <2>1. req[c] \in Request /\ req[c].job \in Jobs /\ bull[req[c].job] \in QueueEntry
    BY <1>5 DEF Owners, AddToQueue, Request
  <2>2. /\ [req[c] EXCEPT !.pc = "audit"] \in Request
        /\ [bull[req[c].job] EXCEPT !.state = "waiting"] \in QueueEntry
    BY <2>1 DEF Request, QueueEntry
  <2> QED
    BY <1>5, <2>1, <2>2 DEF AddToQueue
<1>6. ASSUME NEW c \in Clients, AuditAndReply(c) PROVE TypeOK'
  <2>1. req' \in [Clients -> Request]
    BY <1>6 DEF AuditAndReply, Request
  <2> QED
    BY <1>6, <2>1 DEF AuditAndReply
<1>7. ASSUME NEW c \in Clients, RequestFails(c) PROVE TypeOK'
  <2>1. req' \in [Clients -> Request]
    BY <1>7 DEF RequestFails, Request
  <2> QED
    BY <1>7, <2>1 DEF RequestFails
<1>8. ASSUME NEW w \in Workers, NEW j \in Jobs, Fetch(w, j) PROVE TypeOK'
  <2>1. bull' \in [Jobs -> QueueEntry]
    BY <1>8 DEF Fetch, QueueEntry, Counters
  <2>2. run' \in [Workers -> Run]
    BY <1>8 DEF Fetch, Run, Counters
  <2> QED
    BY <1>8, <2>1, <2>2 DEF Fetch
<1>9. ASSUME NEW w \in Workers, MarkProcessing(w) PROVE TypeOK'
  <2>1. row' \in [Jobs -> JobRow]
    BY <1>9 DEF MarkProcessing, Goto, SetRow, JobRow, Owners, Run
  <2>2. run' \in [Workers -> Run]
    BY <1>9 DEF MarkProcessing, Goto, SetRow, Run, Owners
  <2> QED
    BY <1>9, <2>1, <2>2 DEF MarkProcessing, Goto, SetRow
<1>10. ASSUME NEW w \in Workers, ProcessorReturns(w) PROVE TypeOK'
  <2>1. effects' \in [Jobs -> Nat]
    BY <1>10 DEF ProcessorReturns, Goto, Owners, Run
  <2>2. run' \in [Workers -> Run]
    BY <1>10 DEF ProcessorReturns, Goto, Run, Owners
  <2> QED
    BY <1>10, <2>1, <2>2 DEF ProcessorReturns, Goto
<1>11. ASSUME NEW w \in Workers, MarkCompleted(w) PROVE TypeOK'
  <2>1. row' \in [Jobs -> JobRow]
    BY <1>11 DEF MarkCompleted, Goto, SetRow, JobRow, Owners, Run
  <2>2. run' \in [Workers -> Run]
    BY <1>11 DEF MarkCompleted, Goto, SetRow, Run, Owners
  <2> QED
    BY <1>11, <2>1, <2>2 DEF MarkCompleted, Goto, SetRow
<1>12. ASSUME NEW w \in Workers, SettleKey(w) PROVE TypeOK'
  <2>1. run[w] \in Run /\ run[w].job \in Jobs /\ row[run[w].job] \in JobRow
    BY <1>12 DEF Owners, SettleKey, Goto, Run
  <2>2. [run[w] EXCEPT !.pc = "return"] \in Run
    BY <2>1 DEF Run
  <2>3. CASE row[run[w].job].key = NoKey
    BY <1>12, <2>1, <2>2, <2>3 DEF SettleKey, Goto
  <2>4. CASE row[run[w].job].key \in Keys
    BY <1>12, <2>1, <2>2, <2>4, CompletedKeyRow DEF SettleKey, Goto
  <2> QED
    BY <2>1, <2>3, <2>4 DEF JobRow
<1>13. ASSUME NEW w \in Workers, HandlerThrows(w) PROVE TypeOK'
  <2>1. run' \in [Workers -> Run]
    BY <1>13 DEF HandlerThrows, Goto, Run
  <2> QED
    BY <1>13, <2>1 DEF HandlerThrows, Goto
<1>14. ASSUME NEW w \in Workers, MarkFailed(w) PROVE TypeOK'
  <2>1. run[w] \in Run /\ run[w].job \in Jobs /\ row[run[w].job] \in JobRow
    BY <1>14 DEF Owners, MarkFailed, Goto, Run
  <2>2. /\ [run[w] EXCEPT !.pc = "throw"] \in Run
        /\ [row[run[w].job] EXCEPT !.status = "failed"] \in JobRow
    BY <2>1 DEF Run, JobRow
  <2> QED
    BY <1>14, <2>1, <2>2 DEF MarkFailed, Goto, SetRow
<1>15. ASSUME NEW w \in Workers, Return(w) PROVE TypeOK'
  <2>1. bull' \in [Jobs -> QueueEntry]
    BY <1>15 DEF Return, QueueEntry, Owners, Counters, Run
  <2>2. run' \in [Workers -> Run]
    BY <1>15 DEF Return, Run, Owners, Counters
  <2> QED
    BY <1>15, <2>1, <2>2 DEF Return
<1>16. ASSUME NEW w \in Workers, Throw(w) PROVE TypeOK'
  <2>1. bull' \in [Jobs -> QueueEntry]
    BY <1>16 DEF Throw, QueueEntry, Owners, Counters, Run
  <2>2. run' \in [Workers -> Run]
    BY <1>16 DEF Throw, Run, Owners, Counters
  <2> QED
    BY <1>16, <2>1, <2>2 DEF Throw
<1>17. ASSUME NEW w \in Workers, Crash(w) PROVE TypeOK'
  <2>1. bull' \in [Jobs -> QueueEntry]
    BY <1>17 DEF Crash, DropLock, QueueEntry
  <2>2. run' \in [Workers -> Run]
    BY <1>17 DEF Crash, DropLock, Run
  <2> QED
    BY <1>17, <2>1, <2>2 DEF Crash, DropLock
<1>18. ASSUME NEW w \in Workers, LoseLock(w) PROVE TypeOK'
  <2>1. bull' \in [Jobs -> QueueEntry]
    BY <1>18 DEF LoseLock, DropLock, QueueEntry
  <2> QED
    BY <1>18, <2>1 DEF LoseLock, DropLock
<1>19. ASSUME NEW j \in Jobs, StalledCheck(j) PROVE TypeOK'
  <2>1. bull' \in [Jobs -> QueueEntry]
    BY <1>19 DEF StalledCheck, QueueEntry, Counters
  <2> QED
    BY <1>19, <2>1 DEF StalledCheck
<1>20. ASSUME UNCHANGED vars PROVE TypeOK'
  BY <1>20 DEF vars
<1> QED
  BY <1>1, <1>2, <1>3, <1>4, <1>5, <1>6, <1>7, <1>8, <1>9, <1>10, <1>11, <1>12, <1>13, <1>14, <1>15, <1>16, <1>17, <1>18, <1>19, <1>20 DEF Next, RequestStep, HandlerStep

LEMMA OwnersStep == TypeOK /\ Owners /\ [Next]_vars => Owners'
<1> SUFFICES ASSUME TypeOK /\ Owners, [Next]_vars PROVE Owners'
  OBVIOUS
<1> USE AbsentValues, AttemptBounds
<1>1. ASSUME NEW c \in Clients, NEW k \in Keys \cup {NoKey}, NEW j \in Jobs, Submit(c, k, j) PROVE Owners'
  BY <1>1 DEF Submit, TypeOK, Request, KeyRow, JobRow, QueueEntry, Run, Owners
<1>2. ASSUME NEW c \in Clients, CheckKey(c) PROVE Owners'
  <2>1. CASE /\ req' = [req EXCEPT ![c].pc = "done", ![c].answer = "duplicate",
                                     ![c].named = idem[req[c].key].job]
              /\ idem[req[c].key].status = "completed"
    BY <1>2, <2>1 DEF CheckKey, TypeOK, Request, KeyRow, JobRow, QueueEntry, Run,
      Owners
  <2>2. CASE req' = [req EXCEPT ![c].pc = "done", ![c].answer = "in_progress"]
    BY <1>2, <2>2 DEF CheckKey, TypeOK, Request, KeyRow, JobRow, QueueEntry, Run,
      Owners
  <2>3. CASE req' = [req EXCEPT ![c].pc = "insert_key"]
    BY <1>2, <2>3 DEF CheckKey, TypeOK, Request, KeyRow, JobRow, QueueEntry, Run,
      Owners
  <2> QED
    BY <1>2, <2>1, <2>2, <2>3 DEF CheckKey
<1>3. ASSUME NEW c \in Clients, InsertKey(c) PROVE Owners'
  <2>1. CASE /\ idem' = [idem EXCEPT ![req[c].key].status = "pending"]
              /\ req' = [req EXCEPT ![c].pc = "insert_job"]
              /\ idem[req[c].key].status = "none"
    BY <1>3, <2>1 DEF InsertKey, TypeOK, Request, KeyRow, JobRow, QueueEntry, Run,
      Owners
  <2>2. CASE /\ idem' = idem
              /\ req' = [req EXCEPT ![c].pc = "done", ![c].answer = "error"]
    BY <1>3, <2>2 DEF InsertKey, TypeOK, Request, KeyRow, JobRow, QueueEntry, Run,
      Owners
  <2> QED
    BY <1>3, <2>1, <2>2 DEF InsertKey
<1>4. ASSUME NEW c \in Clients, InsertJob(c) PROVE Owners'
  BY <1>4 DEF InsertJob, TypeOK, Request, KeyRow, JobRow, QueueEntry, Run, Owners
<1>5. ASSUME NEW c \in Clients, AddToQueue(c) PROVE Owners'
  BY <1>5 DEF AddToQueue, TypeOK, Request, KeyRow, JobRow, QueueEntry, Run, Owners
<1>6. ASSUME NEW c \in Clients, AuditAndReply(c) PROVE Owners'
  BY <1>6 DEF AuditAndReply, TypeOK, Request, KeyRow, JobRow, QueueEntry, Run, Owners
<1>7. ASSUME NEW c \in Clients, RequestFails(c) PROVE Owners'
  BY <1>7 DEF RequestFails, TypeOK, Request, KeyRow, JobRow, QueueEntry, Run, Owners
<1>8. ASSUME NEW w \in Workers, NEW j \in Jobs, Fetch(w, j) PROVE Owners'
  BY <1>8 DEF Fetch, TypeOK, Request, KeyRow, JobRow, QueueEntry, Run, Owners
<1>9. ASSUME NEW w \in Workers, MarkProcessing(w) PROVE Owners'
  BY <1>9 DEF MarkProcessing, Goto, SetRow, TypeOK, Request, KeyRow, JobRow,
      QueueEntry, Run, Owners
<1>10. ASSUME NEW w \in Workers, ProcessorReturns(w) PROVE Owners'
  BY <1>10 DEF ProcessorReturns, Goto, TypeOK, Request, KeyRow, JobRow, QueueEntry,
      Run, Owners
<1>11. ASSUME NEW w \in Workers, MarkCompleted(w) PROVE Owners'
  BY <1>11 DEF MarkCompleted, Goto, SetRow, TypeOK, Request, KeyRow, JobRow,
      QueueEntry, Run, Owners
<1>12. ASSUME NEW w \in Workers, SettleKey(w) PROVE Owners'
  <2>0. run[w].job \in Jobs /\ row[run[w].job].key \in Keys \cup {NoKey}
    BY <1>12 DEF SettleKey, Goto, Owners, Run, JobRow, TypeOK
  <2>1. CASE row[run[w].job].key = NoKey /\ idem' = idem
    BY <1>12, <2>0, <2>1 DEF SettleKey, Goto, TypeOK, Request, KeyRow, JobRow,
      QueueEntry, Run, Owners
  <2>2. CASE /\ idem' = [idem EXCEPT ![row[run[w].job].key].status = "completed",
                                       ![row[run[w].job].key].job = run[w].job]
              /\ row[run[w].job].key \in Keys
    BY <1>12, <2>0, <2>2 DEF SettleKey, Goto, TypeOK, Request, KeyRow, JobRow,
      QueueEntry, Run, Owners
  <2> QED
    BY <1>12, <2>0, <2>1, <2>2 DEF SettleKey, Goto
<1>13. ASSUME NEW w \in Workers, HandlerThrows(w) PROVE Owners'
  BY <1>13 DEF HandlerThrows, Goto, TypeOK, Request, KeyRow, JobRow, QueueEntry, Run,
      Owners
<1>14. ASSUME NEW w \in Workers, MarkFailed(w) PROVE Owners'
  <2>1. CASE row' = row
    BY <1>14, <2>1 DEF MarkFailed, Goto, SetRow, TypeOK, Request, KeyRow, JobRow,
      QueueEntry, Run, Owners
  <2>2. CASE row' = [row EXCEPT ![run[w].job].status = "failed"]
    BY <1>14, <2>2 DEF MarkFailed, Goto, SetRow, TypeOK, Request, KeyRow, JobRow,
      QueueEntry, Run, Owners
  <2> QED
    BY <1>14, <2>1, <2>2 DEF MarkFailed, Goto, SetRow
<1>15. ASSUME NEW w \in Workers, Return(w) PROVE Owners'
  BY <1>15 DEF Return, TypeOK, Request, KeyRow, JobRow, QueueEntry, Run, Owners
<1>16. ASSUME NEW w \in Workers, Throw(w) PROVE Owners'
  BY <1>16 DEF Throw, TypeOK, Request, KeyRow, JobRow, QueueEntry, Run, Owners
<1>17. ASSUME NEW w \in Workers, Crash(w) PROVE Owners'
  BY <1>17 DEF Crash, DropLock, TypeOK, Request, KeyRow, JobRow, QueueEntry, Run,
      Owners
<1>18. CASE UNCHANGED <<req, run>>
  BY <1>18 DEF TypeOK, Request, KeyRow, JobRow, QueueEntry, Run, Owners
<1> QED
  BY <1>1, <1>2, <1>3, <1>4, <1>5, <1>6, <1>7, <1>8, <1>9, <1>10, <1>11, <1>12, <1>13, <1>14, <1>15, <1>16, <1>17, <1>18
  DEF
      Next, RequestStep, HandlerStep, vars, LoseLock, DropLock,
      StalledCheck

LEMMA FreshStep == TypeOK /\ Owners /\ Fresh /\ Counters /\ [Next]_vars => Fresh'
<1> SUFFICES ASSUME TypeOK /\ Owners /\ Fresh /\ Counters, [Next]_vars PROVE Fresh'
  OBVIOUS
<1> USE AbsentValues, AttemptBounds
<1>1. ASSUME NEW c \in Clients, NEW k \in Keys \cup {NoKey}, NEW j \in Jobs, Submit(c, k, j) PROVE Fresh'
  BY <1>1 DEF Submit, TypeOK, Request, KeyRow, JobRow, QueueEntry, Run, Owners,
      Fresh, Counters
<1>2. ASSUME NEW c \in Clients, CheckKey(c) PROVE Fresh'
  <2>1. /\ UNCHANGED <<bull, row>>
        /\ \A d \in Clients : req'[d].job = req[d].job /\ (d # c => req'[d].pc = req[d].pc)
        /\ req[c].pc = "check" /\ req'[c].pc \in {"done", "insert_key"}
    BY <1>2 DEF CheckKey, TypeOK, Request
  <2> QED
    BY <2>1 DEF TypeOK, Fresh
<1>3. ASSUME NEW c \in Clients, InsertKey(c) PROVE Fresh'
  <2>1. /\ UNCHANGED <<bull, row>>
        /\ \A d \in Clients : req'[d].job = req[d].job /\ (d # c => req'[d].pc = req[d].pc)
        /\ req[c].pc = "insert_key" /\ req'[c].pc \in {"done", "insert_job"}
    BY <1>3 DEF InsertKey, TypeOK, Request
  <2> QED
    BY <2>1 DEF TypeOK, Fresh
<1>4. ASSUME NEW c \in Clients, InsertJob(c) PROVE Fresh'
  BY <1>4 DEF InsertJob, TypeOK, Request, KeyRow, JobRow, QueueEntry, Run, Owners,
      Fresh, Counters
<1>5. ASSUME NEW c \in Clients, AddToQueue(c) PROVE Fresh'
  BY <1>5 DEF AddToQueue, TypeOK, Request, KeyRow, JobRow, QueueEntry, Run, Owners,
      Fresh, Counters
<1>6. ASSUME NEW c \in Clients, AuditAndReply(c) PROVE Fresh'
  <2>1. /\ UNCHANGED <<bull, row>>
        /\ \A d \in Clients : req'[d].job = req[d].job /\ (d # c => req'[d].pc = req[d].pc)
        /\ req'[c].pc = "done"
    BY <1>6 DEF AuditAndReply, TypeOK, Request
  <2> QED
    BY <2>1 DEF TypeOK, Fresh
<1>7. ASSUME NEW c \in Clients, RequestFails(c) PROVE Fresh'
  <2>1. /\ UNCHANGED <<bull, row>>
        /\ \A d \in Clients : req'[d].job = req[d].job /\ (d # c => req'[d].pc = req[d].pc)
        /\ req'[c].pc = "done"
    BY <1>7 DEF RequestFails, TypeOK, Request
  <2> QED
    BY <2>1 DEF TypeOK, Fresh
<1>8. ASSUME NEW w \in Workers, NEW j \in Jobs, Fetch(w, j) PROVE Fresh'
  <2>1. /\ UNCHANGED <<req, row>>
        /\ \A i \in Jobs : /\ (bull'[i].state = "none") = (bull[i].state = "none")
                           /\ bull'[i].attempts = bull[i].attempts
                           /\ bull'[i].stalls = bull[i].stalls
    BY <1>8 DEF Fetch, TypeOK, QueueEntry
  <2> QED
    BY <2>1 DEF TypeOK, Fresh, Owners, Request
<1>9. ASSUME NEW w \in Workers, MarkProcessing(w) PROVE Fresh'
  BY <1>9 DEF MarkProcessing, Goto, SetRow, TypeOK, Request, KeyRow, JobRow,
      QueueEntry, Run, Owners, Fresh, Counters
<1>10. ASSUME NEW w \in Workers, MarkCompleted(w) PROVE Fresh'
  BY <1>10 DEF MarkCompleted, Goto, SetRow, TypeOK, Request, KeyRow, JobRow,
      QueueEntry, Run, Owners, Fresh, Counters
<1>11. ASSUME NEW w \in Workers, MarkFailed(w) PROVE Fresh'
  <2>1. CASE row' = row
    BY <1>11, <2>1 DEF MarkFailed, Goto, SetRow, TypeOK, Request, KeyRow, JobRow,
      QueueEntry, Run, Owners, Fresh, Counters
  <2>2. CASE row' = [row EXCEPT ![run[w].job].status = "failed"]
    BY <1>11, <2>2 DEF MarkFailed, Goto, SetRow, TypeOK, Request, KeyRow, JobRow,
      QueueEntry, Run, Owners, Fresh, Counters
  <2> QED
    BY <1>11, <2>1, <2>2 DEF MarkFailed, Goto, SetRow
<1>12. ASSUME NEW w \in Workers, Return(w) PROVE Fresh'
  BY <1>12 DEF Return, TypeOK, Request, KeyRow, JobRow, QueueEntry, Run, Owners,
      Fresh, Counters
<1>13. ASSUME NEW w \in Workers, Throw(w) PROVE Fresh'
  <2>1. row' = row /\ req' = req
    BY <1>13 DEF Throw
  <2>2. ASSUME NEW j \in Jobs
        PROVE  /\ bull'[j].state = "none" => bull'[j] = bull[j]
               /\ bull[j].state = "none" => bull'[j].state = "none"
    BY <1>13, <2>2 DEF Throw, TypeOK, QueueEntry, Run, Counters
  <2> QED
    BY <2>1, <2>2 DEF TypeOK, Request, JobRow, Owners, Fresh
<1>14. ASSUME NEW w \in Workers, Crash(w) PROVE Fresh'
  BY <1>14 DEF Crash, DropLock, TypeOK, Request, KeyRow, JobRow, QueueEntry, Run,
      Owners, Fresh, Counters
<1>15. ASSUME NEW w \in Workers, LoseLock(w) PROVE Fresh'
  BY <1>15 DEF LoseLock, DropLock, TypeOK, Request, KeyRow, JobRow, QueueEntry, Run,
      Owners, Fresh, Counters
<1>16. ASSUME NEW j \in Jobs, StalledCheck(j) PROVE Fresh'
  BY <1>16 DEF StalledCheck, TypeOK, Request, KeyRow, JobRow, QueueEntry, Run,
      Owners, Fresh, Counters
<1>17. CASE UNCHANGED <<req, row, bull>>
  BY <1>17 DEF TypeOK, Request, KeyRow, JobRow, QueueEntry, Run, Owners, Fresh,
      Counters
<1> QED
  BY <1>1, <1>2, <1>3, <1>4, <1>5, <1>6, <1>7, <1>8, <1>9, <1>10, <1>11, <1>12, <1>13, <1>14, <1>15, <1>16, <1>17
  DEF
      Next, RequestStep, HandlerStep, vars, ProcessorReturns, Goto,
      SettleKey, HandlerThrows

LEMMA CountersStep == TypeOK /\ Owners /\ Fresh /\ Counters /\ [Next]_vars => Counters'
<1> SUFFICES ASSUME TypeOK /\ Owners /\ Fresh /\ Counters, [Next]_vars PROVE Counters'
  OBVIOUS
<1> USE AbsentValues, AttemptBounds
<1>1. ASSUME NEW c \in Clients, AddToQueue(c) PROVE Counters'
  BY <1>1 DEF AddToQueue, TypeOK, Request, KeyRow, JobRow, QueueEntry, Run, Owners,
      Fresh, Counters
<1>2. ASSUME NEW w \in Workers, NEW j \in Jobs, Fetch(w, j) PROVE Counters'
  BY <1>2 DEF Fetch, TypeOK, Request, KeyRow, JobRow, QueueEntry, Run, Owners, Fresh,
      Counters
<1>3. ASSUME NEW w \in Workers, Return(w) PROVE Counters'
  BY <1>3 DEF Return, TypeOK, Request, KeyRow, JobRow, QueueEntry, Run, Owners,
      Fresh, Counters
<1>4. ASSUME NEW w \in Workers, Throw(w) PROVE Counters'
  BY <1>4 DEF Throw, TypeOK, Request, KeyRow, JobRow, QueueEntry, Run, Owners, Fresh,
      Counters
<1>5. ASSUME NEW w \in Workers, Crash(w) PROVE Counters'
  BY <1>5 DEF Crash, DropLock, TypeOK, Request, KeyRow, JobRow, QueueEntry, Run,
      Owners, Fresh, Counters
<1>6. ASSUME NEW w \in Workers, LoseLock(w) PROVE Counters'
  BY <1>6 DEF LoseLock, DropLock, TypeOK, Request, KeyRow, JobRow, QueueEntry, Run,
      Owners, Fresh, Counters
<1>7. ASSUME NEW j \in Jobs, StalledCheck(j) PROVE Counters'
  BY <1>7 DEF StalledCheck, TypeOK, Request, KeyRow, JobRow, QueueEntry, Run, Owners,
      Fresh, Counters
<1>8. CASE UNCHANGED bull
  BY <1>8 DEF TypeOK, Request, KeyRow, JobRow, QueueEntry, Run, Owners, Fresh,
      Counters
<1> QED
  BY <1>1, <1>2, <1>3, <1>4, <1>5, <1>6, <1>7, <1>8
  DEF Next, RequestStep,
      HandlerStep, vars, Submit, CheckKey, InsertKey, InsertJob, AuditAndReply,
      RequestFails, MarkProcessing, Goto, SetRow, ProcessorReturns,
      MarkCompleted, SettleKey, HandlerThrows, MarkFailed

LEMMA KeyHeldStep == TypeOK /\ Owners /\ Fresh /\ KeyHeld /\ [Next]_vars => KeyHeld'
<1> SUFFICES ASSUME TypeOK /\ Owners /\ Fresh /\ KeyHeld, [Next]_vars PROVE KeyHeld'
  OBVIOUS
<1> USE AbsentValues, AttemptBounds
<1>1. ASSUME NEW c \in Clients, NEW k \in Keys \cup {NoKey}, NEW j \in Jobs, Submit(c, k, j) PROVE KeyHeld'
  BY <1>1 DEF Submit, TypeOK, Request, KeyRow, JobRow, QueueEntry, Run, Owners,
      Fresh, KeyHeld
<1>2. ASSUME NEW c \in Clients, CheckKey(c) PROVE KeyHeld'
  <2>1. CASE /\ req' = [req EXCEPT ![c].pc = "done", ![c].answer = "duplicate",
                                     ![c].named = idem[req[c].key].job]
              /\ idem[req[c].key].status = "completed"
    BY <1>2, <2>1 DEF CheckKey, TypeOK, Request, KeyRow, JobRow, QueueEntry, Run,
      Owners, Fresh, KeyHeld
  <2>2. CASE req' = [req EXCEPT ![c].pc = "done", ![c].answer = "in_progress"]
    BY <1>2, <2>2 DEF CheckKey, TypeOK, Request, KeyRow, JobRow, QueueEntry, Run,
      Owners, Fresh, KeyHeld
  <2>3. CASE req' = [req EXCEPT ![c].pc = "insert_key"]
    BY <1>2, <2>3 DEF CheckKey, TypeOK, Request, KeyRow, JobRow, QueueEntry, Run,
      Owners, Fresh, KeyHeld
  <2> QED
    BY <1>2, <2>1, <2>2, <2>3 DEF CheckKey
<1>3. ASSUME NEW c \in Clients, InsertKey(c) PROVE KeyHeld'
  <2>1. CASE /\ idem' = [idem EXCEPT ![req[c].key].status = "pending"]
              /\ req' = [req EXCEPT ![c].pc = "insert_job"]
              /\ idem[req[c].key].status = "none"
    BY <1>3, <2>1 DEF InsertKey, TypeOK, Request, KeyRow, JobRow, QueueEntry, Run,
      Owners, Fresh, KeyHeld
  <2>2. CASE /\ idem' = idem
              /\ req' = [req EXCEPT ![c].pc = "done", ![c].answer = "error"]
    BY <1>3, <2>2 DEF InsertKey, TypeOK, Request, KeyRow, JobRow, QueueEntry, Run,
      Owners, Fresh, KeyHeld
  <2> QED
    BY <1>3, <2>1, <2>2 DEF InsertKey
<1>4. ASSUME NEW c \in Clients, InsertJob(c) PROVE KeyHeld'
  BY <1>4 DEF InsertJob, TypeOK, Request, KeyRow, JobRow, QueueEntry, Run, Owners,
      Fresh, KeyHeld
<1>5. ASSUME NEW c \in Clients, AddToQueue(c) PROVE KeyHeld'
  BY <1>5 DEF AddToQueue, TypeOK, Request, KeyRow, JobRow, QueueEntry, Run, Owners,
      Fresh, KeyHeld
<1>6. ASSUME NEW c \in Clients, AuditAndReply(c) PROVE KeyHeld'
  BY <1>6 DEF AuditAndReply, TypeOK, Request, KeyRow, JobRow, QueueEntry, Run,
      Owners, Fresh, KeyHeld
<1>7. ASSUME NEW c \in Clients, RequestFails(c) PROVE KeyHeld'
  BY <1>7 DEF RequestFails, TypeOK, Request, KeyRow, JobRow, QueueEntry, Run, Owners,
      Fresh, KeyHeld
<1>8. ASSUME NEW w \in Workers, MarkProcessing(w) PROVE KeyHeld'
  BY <1>8 DEF MarkProcessing, Goto, SetRow, TypeOK, Request, KeyRow, JobRow,
      QueueEntry, Run, Owners, Fresh, KeyHeld
<1>9. ASSUME NEW w \in Workers, MarkCompleted(w) PROVE KeyHeld'
  BY <1>9 DEF MarkCompleted, Goto, SetRow, TypeOK, Request, KeyRow, JobRow,
      QueueEntry, Run, Owners, Fresh, KeyHeld
<1>10. ASSUME NEW w \in Workers, SettleKey(w) PROVE KeyHeld'
  <2>0. run[w].job \in Jobs /\ row[run[w].job].key \in Keys \cup {NoKey}
    BY <1>10 DEF SettleKey, Goto, Owners, Run, JobRow, TypeOK
  <2>1. CASE row[run[w].job].key = NoKey
    BY <1>10, <2>0, <2>1 DEF SettleKey, Goto, TypeOK, Run, KeyHeld
  <2>2. CASE row[run[w].job].key \in Keys
    <3>1. \A k \in Keys : IF k = row[run[w].job].key
                         THEN idem'[k].status = "completed" /\ idem'[k].job = run[w].job
                         ELSE idem'[k] = idem[k]
      BY <1>10, <2>2 DEF SettleKey, Goto, TypeOK, KeyRow
    <3>2. /\ UNCHANGED <<req, row, bull, effects>>
          /\ \A v \in Workers : /\ run'[v].job = run[v].job
                                 /\ run'[v].pc = IF v = w THEN "return" ELSE run[v].pc
          /\ run[w].pc = "settle_key"
      BY <1>10 DEF SettleKey, Goto, TypeOK, Run
    <3> QED
      BY <2>0, <2>2, <3>1, <3>2 DEF TypeOK, KeyHeld
  <2> QED
    BY <2>0, <2>1, <2>2
<1>11. ASSUME NEW w \in Workers, MarkFailed(w) PROVE KeyHeld'
  <2>1. CASE row' = row
    BY <1>11, <2>1 DEF MarkFailed, Goto, SetRow, TypeOK, Request, KeyRow, JobRow,
      QueueEntry, Run, Owners, Fresh, KeyHeld
  <2>2. CASE row' = [row EXCEPT ![run[w].job].status = "failed"]
    BY <1>11, <2>2 DEF MarkFailed, Goto, SetRow, TypeOK, Request, KeyRow, JobRow,
      QueueEntry, Run, Owners, Fresh, KeyHeld
  <2> QED
    BY <1>11, <2>1, <2>2 DEF MarkFailed, Goto, SetRow
<1>12. CASE UNCHANGED <<req, row, idem>>
  BY <1>12 DEF TypeOK, Request, KeyRow, JobRow, QueueEntry, Run, Owners, Fresh,
      KeyHeld
<1> QED
  BY <1>1, <1>2, <1>3, <1>4, <1>5, <1>6, <1>7, <1>8, <1>9, <1>10, <1>11, <1>12
  DEF
      Next, RequestStep, HandlerStep, vars, Fetch, ProcessorReturns, Goto,
      HandlerThrows, Return, Throw, Crash, DropLock, LoseLock, StalledCheck

LEMMA KeyHonestStep == TypeOK /\ Owners /\ Fresh /\ KeyHonest /\ [Next]_vars => KeyHonest'
<1> SUFFICES ASSUME TypeOK /\ Owners /\ Fresh /\ KeyHonest, [Next]_vars PROVE KeyHonest'
  OBVIOUS
<1> USE AbsentValues, AttemptBounds
<1>1. ASSUME NEW c \in Clients, InsertKey(c) PROVE KeyHonest'
  <2>1. CASE /\ idem' = [idem EXCEPT ![req[c].key].status = "pending"]
              /\ req' = [req EXCEPT ![c].pc = "insert_job"]
              /\ idem[req[c].key].status = "none"
    BY <1>1, <2>1 DEF InsertKey, TypeOK, Request, KeyRow, JobRow, QueueEntry, Run,
      Owners, Fresh, KeyHonest
  <2>2. CASE /\ idem' = idem
              /\ req' = [req EXCEPT ![c].pc = "done", ![c].answer = "error"]
    BY <1>1, <2>2 DEF InsertKey, TypeOK, Request, KeyRow, JobRow, QueueEntry, Run,
      Owners, Fresh, KeyHonest
  <2> QED
    BY <1>1, <2>1, <2>2 DEF InsertKey
<1>2. ASSUME NEW c \in Clients, InsertJob(c) PROVE KeyHonest'
  BY <1>2 DEF InsertJob, TypeOK, Request, KeyRow, JobRow, QueueEntry, Run, Owners,
      Fresh, KeyHonest
<1>3. ASSUME NEW w \in Workers, NEW j \in Jobs, Fetch(w, j) PROVE KeyHonest'
  BY <1>3 DEF Fetch, TypeOK, Request, KeyRow, JobRow, QueueEntry, Run, Owners, Fresh,
      KeyHonest
<1>4. ASSUME NEW w \in Workers, MarkProcessing(w) PROVE KeyHonest'
  BY <1>4 DEF MarkProcessing, Goto, SetRow, TypeOK, Request, KeyRow, JobRow,
      QueueEntry, Run, Owners, Fresh, KeyHonest
<1>5. ASSUME NEW w \in Workers, ProcessorReturns(w) PROVE KeyHonest'
  BY <1>5 DEF ProcessorReturns, Goto, TypeOK, Request, KeyRow, JobRow, QueueEntry,
      Run, Owners, Fresh, KeyHonest
<1>6. ASSUME NEW w \in Workers, MarkCompleted(w) PROVE KeyHonest'
  BY <1>6 DEF MarkCompleted, Goto, SetRow, TypeOK, Request, KeyRow, JobRow,
      QueueEntry, Run, Owners, Fresh, KeyHonest
<1>7. ASSUME NEW w \in Workers, SettleKey(w) PROVE KeyHonest'
  <2>0. run[w].job \in Jobs /\ row[run[w].job].key \in Keys \cup {NoKey}
    BY <1>7 DEF SettleKey, Goto, Owners, Run, JobRow, TypeOK
  <2>1. CASE row[run[w].job].key = NoKey
    BY <1>7, <2>0, <2>1 DEF SettleKey, Goto, TypeOK, Run, KeyHonest
  <2>2. CASE row[run[w].job].key \in Keys
    <3>1. \A k \in Keys : IF k = row[run[w].job].key
                         THEN idem'[k].status = "completed" /\ idem'[k].job = run[w].job
                         ELSE idem'[k] = idem[k]
      BY <1>7, <2>2 DEF SettleKey, Goto, TypeOK, KeyRow
    <3>2. /\ UNCHANGED <<req, row, bull, effects>>
          /\ \A v \in Workers : /\ run'[v].job = run[v].job
                                 /\ run'[v].pc = IF v = w THEN "return" ELSE run[v].pc
          /\ run[w].pc = "settle_key"
      BY <1>7 DEF SettleKey, Goto, TypeOK, Run
    <3>3. /\ run[w].job \in Jobs /\ effects[run[w].job] > 0
          /\ row[run[w].job].key \in Keys
      BY <2>0, <2>2, <3>2 DEF KeyHonest
    <3>4. \A k \in Keys : idem'[k].status = "completed" =>
            idem'[k].job \in Jobs /\ row[idem'[k].job].key = k /\ effects[idem'[k].job] > 0
      BY <3>1, <3>3 DEF KeyHonest
    <3>5. \A v \in Workers : run'[v].pc \in {"complete", "settle_key"}
                              => effects[run'[v].job] > 0
      BY <3>2 DEF KeyHonest
    <3> QED
      BY <3>2, <3>4, <3>5 DEF KeyHonest
  <2> QED
    BY <2>0, <2>1, <2>2
<1>8. ASSUME NEW w \in Workers, HandlerThrows(w) PROVE KeyHonest'
  BY <1>8 DEF HandlerThrows, Goto, TypeOK, Request, KeyRow, JobRow, QueueEntry, Run,
      Owners, Fresh, KeyHonest
<1>9. ASSUME NEW w \in Workers, MarkFailed(w) PROVE KeyHonest'
  <2>1. CASE row' = row
    BY <1>9, <2>1 DEF MarkFailed, Goto, SetRow, TypeOK, Request, KeyRow, JobRow,
      QueueEntry, Run, Owners, Fresh, KeyHonest
  <2>2. CASE row' = [row EXCEPT ![run[w].job].status = "failed"]
    BY <1>9, <2>2 DEF MarkFailed, Goto, SetRow, TypeOK, Request, KeyRow, JobRow,
      QueueEntry, Run, Owners, Fresh, KeyHonest
  <2> QED
    BY <1>9, <2>1, <2>2 DEF MarkFailed, Goto, SetRow
<1>10. ASSUME NEW w \in Workers, Return(w) PROVE KeyHonest'
  BY <1>10 DEF Return, TypeOK, Request, KeyRow, JobRow, QueueEntry, Run, Owners,
      Fresh, KeyHonest
<1>11. ASSUME NEW w \in Workers, Throw(w) PROVE KeyHonest'
  BY <1>11 DEF Throw, TypeOK, Request, KeyRow, JobRow, QueueEntry, Run, Owners,
      Fresh, KeyHonest
<1>12. ASSUME NEW w \in Workers, Crash(w) PROVE KeyHonest'
  BY <1>12 DEF Crash, DropLock, TypeOK, Request, KeyRow, JobRow, QueueEntry, Run,
      Owners, Fresh, KeyHonest
<1>13. CASE UNCHANGED <<idem, row, effects, run>>
  BY <1>13 DEF TypeOK, Request, KeyRow, JobRow, QueueEntry, Run, Owners, Fresh,
      KeyHonest
<1> QED
  BY <1>1, <1>2, <1>3, <1>4, <1>5, <1>6, <1>7, <1>8, <1>9, <1>10, <1>11, <1>12, <1>13
  DEF
      Next, RequestStep, HandlerStep, vars, Submit, CheckKey, AddToQueue,
      AuditAndReply, RequestFails, LoseLock, DropLock, StalledCheck

LEMMA OneJobStep == TypeOK /\ Owners /\ KeyHeld /\ OneJobPerKey /\ [Next]_vars => OneJobPerKey'
<1> SUFFICES ASSUME TypeOK /\ Owners /\ KeyHeld /\ OneJobPerKey, [Next]_vars PROVE OneJobPerKey'
  OBVIOUS
<1> USE AbsentValues, AttemptBounds
<1>1. ASSUME NEW c \in Clients, InsertJob(c) PROVE OneJobPerKey'
  BY <1>1 DEF InsertJob, TypeOK, Request, KeyRow, JobRow, QueueEntry, Run, Owners,
      KeyHeld, OneJobPerKey
<1>2. ASSUME NEW w \in Workers, MarkProcessing(w) PROVE OneJobPerKey'
  BY <1>2 DEF MarkProcessing, Goto, SetRow, TypeOK, Request, KeyRow, JobRow,
      QueueEntry, Run, Owners, KeyHeld, OneJobPerKey
<1>3. ASSUME NEW w \in Workers, MarkCompleted(w) PROVE OneJobPerKey'
  BY <1>3 DEF MarkCompleted, Goto, SetRow, TypeOK, Request, KeyRow, JobRow,
      QueueEntry, Run, Owners, KeyHeld, OneJobPerKey
<1>4. ASSUME NEW w \in Workers, MarkFailed(w) PROVE OneJobPerKey'
  <2>1. CASE row' = row
    BY <1>4, <2>1 DEF MarkFailed, Goto, SetRow, TypeOK, Request, KeyRow, JobRow,
      QueueEntry, Run, Owners, KeyHeld, OneJobPerKey
  <2>2. CASE row' = [row EXCEPT ![run[w].job].status = "failed"]
    BY <1>4, <2>2 DEF MarkFailed, Goto, SetRow, TypeOK, Request, KeyRow, JobRow,
      QueueEntry, Run, Owners, KeyHeld, OneJobPerKey
  <2> QED
    BY <1>4, <2>1, <2>2 DEF MarkFailed, Goto, SetRow
<1>5. CASE UNCHANGED row
  BY <1>5 DEF TypeOK, Request, KeyRow, JobRow, QueueEntry, Run, Owners, KeyHeld,
      OneJobPerKey
<1> QED
  BY <1>1, <1>2, <1>3, <1>4, <1>5
  DEF Next, RequestStep, HandlerStep, vars, Submit,
      CheckKey, InsertKey, AddToQueue, AuditAndReply, RequestFails,
      Fetch, ProcessorReturns, Goto, SettleKey, HandlerThrows, Return, Throw, Crash,
      DropLock, LoseLock, StalledCheck

LEMMA HonestStep == TypeOK /\ Owners /\ Fresh /\ KeyHonest /\ HonestDuplicate /\ [Next]_vars => HonestDuplicate'
<1> SUFFICES ASSUME TypeOK /\ Owners /\ Fresh /\ KeyHonest /\ HonestDuplicate, [Next]_vars PROVE HonestDuplicate'
  OBVIOUS
<1> USE AbsentValues, AttemptBounds
<1>1. ASSUME NEW c \in Clients, NEW k \in Keys \cup {NoKey}, NEW j \in Jobs, Submit(c, k, j) PROVE HonestDuplicate'
  BY <1>1 DEF Submit, TypeOK, Request, KeyRow, JobRow, QueueEntry, Run, Owners,
      Fresh, KeyHonest, HonestDuplicate
<1>2. ASSUME NEW c \in Clients, CheckKey(c) PROVE HonestDuplicate'
  <2>1. CASE /\ req' = [req EXCEPT ![c].pc = "done", ![c].answer = "duplicate",
                                     ![c].named = idem[req[c].key].job]
              /\ idem[req[c].key].status = "completed"
    BY <1>2, <2>1 DEF CheckKey, TypeOK, Request, KeyRow, JobRow, QueueEntry, Run,
      Owners, Fresh, KeyHonest, HonestDuplicate
  <2>2. CASE req' = [req EXCEPT ![c].pc = "done", ![c].answer = "in_progress"]
    BY <1>2, <2>2 DEF CheckKey, TypeOK, Request, KeyRow, JobRow, QueueEntry, Run,
      Owners, Fresh, KeyHonest, HonestDuplicate
  <2>3. CASE req' = [req EXCEPT ![c].pc = "insert_key"]
    BY <1>2, <2>3 DEF CheckKey, TypeOK, Request, KeyRow, JobRow, QueueEntry, Run,
      Owners, Fresh, KeyHonest, HonestDuplicate
  <2> QED
    BY <1>2, <2>1, <2>2, <2>3 DEF CheckKey
<1>3. ASSUME NEW c \in Clients, InsertKey(c) PROVE HonestDuplicate'
  <2>1. CASE /\ idem' = [idem EXCEPT ![req[c].key].status = "pending"]
              /\ req' = [req EXCEPT ![c].pc = "insert_job"]
              /\ idem[req[c].key].status = "none"
    BY <1>3, <2>1 DEF InsertKey, TypeOK, Request, KeyRow, JobRow, QueueEntry, Run,
      Owners, Fresh, KeyHonest, HonestDuplicate
  <2>2. CASE /\ idem' = idem
              /\ req' = [req EXCEPT ![c].pc = "done", ![c].answer = "error"]
    BY <1>3, <2>2 DEF InsertKey, TypeOK, Request, KeyRow, JobRow, QueueEntry, Run,
      Owners, Fresh, KeyHonest, HonestDuplicate
  <2> QED
    BY <1>3, <2>1, <2>2 DEF InsertKey
<1>4. ASSUME NEW c \in Clients, InsertJob(c) PROVE HonestDuplicate'
  BY <1>4 DEF InsertJob, TypeOK, Request, KeyRow, JobRow, QueueEntry, Run, Owners,
      Fresh, KeyHonest, HonestDuplicate
<1>5. ASSUME NEW c \in Clients, AddToQueue(c) PROVE HonestDuplicate'
  BY <1>5 DEF AddToQueue, TypeOK, Request, KeyRow, JobRow, QueueEntry, Run, Owners,
      Fresh, KeyHonest, HonestDuplicate
<1>6. ASSUME NEW c \in Clients, AuditAndReply(c) PROVE HonestDuplicate'
  BY <1>6 DEF AuditAndReply, TypeOK, Request, KeyRow, JobRow, QueueEntry, Run,
      Owners, Fresh, KeyHonest, HonestDuplicate
<1>7. ASSUME NEW c \in Clients, RequestFails(c) PROVE HonestDuplicate'
  BY <1>7 DEF RequestFails, TypeOK, Request, KeyRow, JobRow, QueueEntry, Run, Owners,
      Fresh, KeyHonest, HonestDuplicate
<1>8. ASSUME NEW w \in Workers, MarkProcessing(w) PROVE HonestDuplicate'
  BY <1>8 DEF MarkProcessing, Goto, SetRow, TypeOK, Request, KeyRow, JobRow,
      QueueEntry, Run, Owners, Fresh, KeyHonest, HonestDuplicate
<1>9. ASSUME NEW w \in Workers, ProcessorReturns(w) PROVE HonestDuplicate'
  BY <1>9 DEF ProcessorReturns, Goto, TypeOK, Request, KeyRow, JobRow, QueueEntry,
      Run, Owners, Fresh, KeyHonest, HonestDuplicate
<1>10. ASSUME NEW w \in Workers, MarkCompleted(w) PROVE HonestDuplicate'
  BY <1>10 DEF MarkCompleted, Goto, SetRow, TypeOK, Request, KeyRow, JobRow,
      QueueEntry, Run, Owners, Fresh, KeyHonest, HonestDuplicate
<1>11. ASSUME NEW w \in Workers, MarkFailed(w) PROVE HonestDuplicate'
  <2>1. CASE row' = row
    BY <1>11, <2>1 DEF MarkFailed, Goto, SetRow, TypeOK, Request, KeyRow, JobRow,
      QueueEntry, Run, Owners, Fresh, KeyHonest, HonestDuplicate
  <2>2. CASE row' = [row EXCEPT ![run[w].job].status = "failed"]
    BY <1>11, <2>2 DEF MarkFailed, Goto, SetRow, TypeOK, Request, KeyRow, JobRow,
      QueueEntry, Run, Owners, Fresh, KeyHonest, HonestDuplicate
  <2> QED
    BY <1>11, <2>1, <2>2 DEF MarkFailed, Goto, SetRow
<1>12. CASE UNCHANGED <<req, row, effects>>
  BY <1>12 DEF TypeOK, Request, KeyRow, JobRow, QueueEntry, Run, Owners, Fresh,
      KeyHonest, HonestDuplicate
<1> QED
  BY <1>1, <1>2, <1>3, <1>4, <1>5, <1>6, <1>7, <1>8, <1>9, <1>10, <1>11, <1>12
  DEF
      Next, RequestStep, HandlerStep, vars, Fetch, SettleKey, Goto,
      HandlerThrows, Return, Throw, Crash, DropLock, LoseLock, StalledCheck

THEOREM Invariance == Spec => []IInv
<1>1. IInv /\ [Next]_vars => IInv'
  BY TypeStep, OwnersStep, FreshStep, CountersStep, KeyHeldStep, KeyHonestStep,
     OneJobStep, HonestStep DEF IInv
<1> QED
  BY InitIInv, <1>1, PTL DEF Spec

\* Every reachable state is well typed: in particular no job ever exceeds its
\* attempts or its stalls.
THEOREM TypeCorrect == Spec => []TypeOK
<1>1. IInv => TypeOK
  BY DEF IInv
<1> QED
  BY Invariance, <1>1, PTL

\* However many requests race, an idempotency key has at most one job.
THEOREM UniqueJob == Spec => []OneJobPerKey
<1>1. IInv => OneJobPerKey
  BY DEF IInv
<1> QED
  BY Invariance, <1>1, PTL

\* A 'duplicate' answer always names the key's own, already processed job.
THEOREM DuplicatesAreHonest == Spec => []HonestDuplicate
<1>1. IInv => HonestDuplicate
  BY DEF IInv
<1> QED
  BY Invariance, <1>1, PTL

(***************************************************************************)
(* Refinement: JobQueue implements KeyedJobs.                              *)
(***************************************************************************)

\* Steps that leave keys of rows, effects and answers alone leave the promise
\* alone.
LEMMA PromiseFrame ==
  ASSUME TypeOK,
         \A j \in Jobs : row'[j].key = row[j].key,
         UNCHANGED effects,
         \A c \in Clients : /\ req'[c].answer = "duplicate" <=> req[c].answer = "duplicate"
                            /\ req[c].answer = "duplicate" =>
                                 req'[c].key = req[c].key /\ req'[c].named = req[c].named
  PROVE  UNCHANGED Promise!vars
<1>1. Bound' = Bound
  BY DEF Bound
<1>2. Processed' = Processed
  BY DEF Processed
<1>3. Told' = Told
  BY DEF Told
<1> QED
  BY <1>1, <1>2, <1>3 DEF Promise!vars

\* Creating a row binds its key, if it has one, to the new job.
LEMMA InsertJobBinds ==
  ASSUME IInv, NEW c \in Clients, InsertJob(c)
  PROVE  Promise!Next \/ UNCHANGED Promise!vars
<1> DEFINE k == req[c].key  j == req[c].job
<1>1. /\ j \in Jobs /\ k \in Keys \cup {NoKey}
      /\ \A i \in Jobs : row'[i].key = IF i = j THEN k ELSE row[i].key
      /\ row[j].key = NoKey /\ (k \in Keys => \A i \in Jobs : row[i].key # k)
  BY DEF IInv, TypeOK, Owners, Fresh, KeyHeld, Request, InsertJob
<1>2. UNCHANGED <<Processed, Told>>
  BY DEF InsertJob, IInv, TypeOK, Request, Processed, Told
<1>3. CASE k = NoKey
  <2>1. Bound' = Bound
    BY <1>1, <1>3, AbsentValues DEF Bound
  <2> QED
    BY <1>2, <2>1 DEF Promise!vars
<1>4. CASE k \in Keys
  <2>1. Bound' = Bound \cup {<<k, j>>}
    BY <1>1, <1>4, AbsentValues DEF Bound
  <2>2. \A p \in Bound : p[1] # k /\ p[2] # j
    BY <1>1, <1>4, AbsentValues DEF Bound
  <2>3. Promise!Bind(k, j)
    BY <1>2, <2>1, <2>2 DEF Promise!Bind
  <2> QED
    BY <1>1, <1>4, <2>3 DEF Promise!Next
<1> QED
  BY <1>1, <1>3, <1>4

\* A 'duplicate' answer tells the client the processed job of its key.
LEMMA CheckKeyTells ==
  ASSUME IInv, NEW c \in Clients, CheckKey(c)
  PROVE  Promise!Next \/ UNCHANGED Promise!vars
<1> DEFINE k == req[c].key
<1>1. CASE /\ idem[k].status = "completed"
           /\ req' = [req EXCEPT ![c].pc = "done", ![c].answer = "duplicate",
                                 ![c].named = idem[k].job]
  <2> DEFINE j == idem[k].job
  <2>1. /\ k \in Keys /\ j \in Jobs /\ row[j].key = k /\ effects[j] > 0
        /\ UNCHANGED <<row, effects>>
    BY <1>1 DEF CheckKey, IInv, TypeOK, Owners, KeyHonest
  <2>2. \A d \in Clients :
          /\ d # c => req'[d] = req[d]
          /\ req'[c].answer = "duplicate" /\ req'[c].key = k /\ req'[c].named = j
    BY <1>1 DEF IInv, TypeOK, Request
  <2>3. req[c].answer # "duplicate"
    BY DEF CheckKey, IInv, Owners
  <2>4. Told' = Told \cup {<<k, j>>}
    BY <2>1, <2>2, <2>3 DEF Told
  <2>5. UNCHANGED <<Bound, Processed>>
    BY <2>1 DEF Bound, Processed
  <2>6. <<k, j>> \in Bound /\ j \in Processed
    BY <2>1 DEF Bound, Processed
  <2>7. Promise!Tell(k, j)
    BY <2>4, <2>5, <2>6 DEF Promise!Tell
  <2> QED
    BY <2>1, <2>7 DEF Promise!Next
<1>2. CASE \/ req' = [req EXCEPT ![c].pc = "done", ![c].answer = "in_progress"]
           \/ req' = [req EXCEPT ![c].pc = "insert_key"]
  <2>1. /\ UNCHANGED <<row, effects>>
        /\ \A d \in Clients : d # c => req'[d] = req[d]
        /\ req'[c].answer # "duplicate"
    BY <1>2 DEF CheckKey, IInv, TypeOK, Request, Owners
  <2>2. req[c].answer # "duplicate"
    BY DEF CheckKey, IInv, Owners
  <2> QED
    BY <2>1, <2>2, PromiseFrame DEF IInv
<1> QED
  BY <1>1, <1>2 DEF CheckKey

\* The whole job system implements the promise of the abstract module.
THEOREM Refinement == Spec => KeepsPromise
<1>1. Init => Promise!Init
  BY AbsentValues DEF Init, Promise!Init, Bound, Processed, Told
<1>2. IInv /\ [Next]_vars => [Promise!Next]_(Promise!vars)
  <2> SUFFICES ASSUME IInv, [Next]_vars PROVE Promise!Next \/ UNCHANGED Promise!vars
    OBVIOUS
  <2>1. ASSUME NEW c \in Clients, InsertJob(c) PROVE Promise!Next \/ UNCHANGED Promise!vars
    BY <2>1, InsertJobBinds
  <2>2. ASSUME NEW c \in Clients, CheckKey(c) PROVE Promise!Next \/ UNCHANGED Promise!vars
    BY <2>2, CheckKeyTells
  <2>3. ASSUME NEW w \in Workers, ProcessorReturns(w)
        PROVE  Promise!Next \/ UNCHANGED Promise!vars
    <3>1. run[w].job \in Jobs
      BY <2>3 DEF ProcessorReturns, Goto, IInv, TypeOK, Owners, Run
    <3>2. Processed' = Processed \cup {run[w].job}
      BY <2>3, <3>1 DEF ProcessorReturns, Processed, IInv, TypeOK
    <3>3. UNCHANGED <<Bound, Told>>
      BY <2>3 DEF ProcessorReturns, Bound, Told
    <3> QED
      BY <3>1, <3>2, <3>3 DEF Promise!Next, Promise!Process
  <2>4. ASSUME NEW c \in Clients, NEW k \in Keys \cup {NoKey}, NEW j \in Jobs, Submit(c, k, j)
        PROVE  UNCHANGED Promise!vars
    <3>1. /\ UNCHANGED <<row, effects>> /\ req[c].answer # "duplicate"
          /\ \A d \in Clients : req'[d].answer = req[d].answer /\ req'[d].named = req[d].named
                                /\ (d # c => req'[d].key = req[d].key)
      BY <2>4 DEF Submit, IInv, TypeOK, Owners, Request
    <3> QED
      BY <3>1, PromiseFrame DEF IInv
  <2>5. ASSUME NEW c \in Clients,
               InsertKey(c) \/ AddToQueue(c) \/ AuditAndReply(c) \/ RequestFails(c)
        PROVE  UNCHANGED Promise!vars
    <3>1. /\ UNCHANGED <<row, effects>> /\ req[c].answer # "duplicate"
          /\ req'[c].answer # "duplicate"
          /\ \A d \in Clients : d # c => req'[d] = req[d]
      BY <2>5 DEF InsertKey, AddToQueue, AuditAndReply, RequestFails, IInv, TypeOK, Owners,
                  Request
    <3> QED
      BY <3>1, PromiseFrame DEF IInv
  <2>6. ASSUME NEW w \in Workers, MarkProcessing(w) \/ MarkCompleted(w) \/ MarkFailed(w)
        PROVE  UNCHANGED Promise!vars
    <3>1. UNCHANGED <<req, effects>> /\ \A j \in Jobs : row'[j].key = row[j].key
      BY <2>6 DEF MarkProcessing, MarkCompleted, MarkFailed, SetRow, IInv, TypeOK, JobRow
    <3> QED
      BY <3>1, PromiseFrame DEF IInv
  <2>7. CASE UNCHANGED <<req, row, effects>>
    BY <2>7, PromiseFrame DEF IInv
  <2> QED
    BY <2>1, <2>2, <2>3, <2>4, <2>5, <2>6, <2>7
    DEF Next, RequestStep, HandlerStep, vars, Fetch, SettleKey, HandlerThrows,
        Return, Throw, Crash, LoseLock, StalledCheck
<1> QED
  BY Invariance, <1>1, <1>2, PTL DEF Spec, KeepsPromise, Promise!Spec

(***************************************************************************)
(* Runs of one job.  RunsInv says how many slots run a job and how often   *)
(* it was processed: a job hands out one run while it is active and one    *)
(* more for every stall, and is charged an attempt, a stall or its active  *)
(* state for each time its processor ran to the end or still may.          *)
(***************************************************************************)
Handlers(j) == {w \in Workers : run[w].job = j}
ToProcess(j) == {w \in Workers : run[w].job = j /\ run[w].pc \in {"start", "process"}}
Slot(j) == IF bull[j].state = "active" THEN 1 ELSE 0
Budget(j) == bull[j].stalls + Slot(j)
Charge(j) == bull[j].attempts + Budget(j)

\* A lock is held by a slot that runs the job, and what runs was queued.
LockOwner ==
  /\ \A j \in Jobs, w \in Workers : bull[j].lock = w => run[w].job = j
  /\ \A w \in Workers : run[w].job # NoJob => bull[run[w].job].state # "none"

\* A job that will not run again has used no more than its attempts and stalls.
Spent ==
  \A j \in Jobs : bull[j].state \in {"completed", "failed"} =>
    bull[j].attempts + bull[j].stalls <= MaxAttempts + MaxStalls

Fits(j) ==
  /\ IsFiniteSet(Handlers(j)) /\ Cardinality(Handlers(j)) <= Budget(j)
  /\ IsFiniteSet(ToProcess(j)) /\ effects[j] + Cardinality(ToProcess(j)) <= Charge(j)

\* The key of a job, if it has one, is completed in the job's name.
KeySettled(j) ==
  row[j].key # NoKey => idem[row[j].key].status = "completed" /\ idem[row[j].key].job = j

\* While a job never stalled, its only run has written what it has passed, and so
\* has the run that completed it.
Written ==
  \A j \in Jobs : bull[j].stalls = 0 =>
    /\ \A w \in Workers : run[w].job = j =>
         /\ run[w].pc \in {"settle_key", "return"} => row[j].status = "completed"
         /\ run[w].pc = "return" => KeySettled(j)
    /\ bull[j].state = "completed" => row[j].status = "completed" /\ KeySettled(j)

RunsInv == IInv /\ LockOwner /\ Spent /\ (\A j \in Jobs : Fits(j)) /\ Written

\* What a step does to the slots of a job and to its account.
Shrinks(j) ==
  /\ Handlers(j)' \subseteq Handlers(j) /\ ToProcess(j)' \subseteq ToProcess(j)
  /\ effects'[j] = effects[j] /\ Budget(j)' = Budget(j) /\ Charge(j)' = Charge(j)
StartsRun(j) ==
  \E w \in Workers \ Handlers(j) :
    /\ Handlers(j)' = Handlers(j) \cup {w} /\ ToProcess(j)' = ToProcess(j) \cup {w}
    /\ effects'[j] = effects[j] /\ Budget(j)' = Budget(j) + 1 /\ Charge(j)' = Charge(j) + 1
Processes(j) ==
  \E w \in ToProcess(j) :
    /\ Handlers(j)' = Handlers(j) /\ ToProcess(j)' = ToProcess(j) \ {w}
    /\ effects'[j] = effects[j] + 1 /\ Budget(j)' = Budget(j) /\ Charge(j)' = Charge(j)
EndsRun(j) ==
  \E w \in Handlers(j) :
    /\ Handlers(j)' = Handlers(j) \ {w} /\ ToProcess(j)' \subseteq ToProcess(j)
    /\ effects'[j] = effects[j] /\ Budget(j)' = Budget(j) - 1 /\ Charge(j)' = Charge(j)

LEMMA InitRuns == Init => LockOwner /\ Spent /\ (\A j \in Jobs : Fits(j)) /\ Written
<1> SUFFICES ASSUME Init PROVE LockOwner /\ Spent /\ (\A j \in Jobs : Fits(j)) /\ Written
  OBVIOUS
<1>1. \A j \in Jobs : Handlers(j) = {} /\ ToProcess(j) = {}
  BY AbsentValues DEF Init, Handlers, ToProcess
<1>2. \A j \in Jobs : Fits(j)
  <2> SUFFICES ASSUME NEW j \in Jobs PROVE Fits(j)
    OBVIOUS
  <2>1. Slot(j) = 0 /\ bull[j].attempts = 0 /\ bull[j].stalls = 0 /\ effects[j] = 0
    BY DEF Init, Slot
  <2> QED
    BY <1>1, <2>1, FS_EmptySet DEF Fits, Budget, Charge
<1> QED
  BY <1>2, AbsentValues DEF Init, LockOwner, Spent, Written

LEMMA LockOwnerStep ==
  TypeOK /\ Owners /\ Fresh /\ Counters /\ LockOwner /\ [Next]_vars => LockOwner'
<1> SUFFICES ASSUME TypeOK, Owners, Fresh, Counters, LockOwner, [Next]_vars PROVE LockOwner'
  OBVIOUS
<1> USE AbsentValues DEF LockOwner
<1>1. ASSUME NEW c \in Clients, AddToQueue(c) PROVE LockOwner'
  BY <1>1 DEF AddToQueue, TypeOK, Request, QueueEntry, Run, Owners, Fresh, Counters
<1>2. ASSUME NEW w \in Workers, NEW j \in Jobs, Fetch(w, j) PROVE LockOwner'
  BY <1>2 DEF Fetch, TypeOK, QueueEntry, Run, Owners, Counters
<1>3. ASSUME NEW w \in Workers, NEW a \in HandlerPc, NEW b \in HandlerPc \ {"idle"}, Goto(w, a, b),
             UNCHANGED bull
      PROVE LockOwner'
  <2>1. \A v \in Workers : run'[v].job = run[v].job
    BY <1>3 DEF Goto, TypeOK, Run
  <2> QED
    BY <1>3, <2>1
<1>4. ASSUME NEW w \in Workers, Return(w) \/ Throw(w) PROVE LockOwner'
  <2>1. \A v \in Workers : run'[v] = IF v = w THEN [pc |-> "idle", job |-> NoJob] ELSE run[v]
    BY <1>4 DEF Return, Throw, TypeOK
  <2>2. \A j \in Jobs, v \in Workers : bull'[j].lock = v => bull[j].lock = v /\ v # w
    <3> SUFFICES ASSUME NEW j \in Jobs, NEW v \in Workers, bull'[j].lock = v
                 PROVE  bull[j].lock = v /\ v # w
      OBVIOUS
    <3>1. run[w].job \in Jobs
      BY <1>4 DEF Return, Throw, TypeOK, Run, Owners
    <3>2. bull[j].lock = w => j = run[w].job
      OBVIOUS
    <3>3. CASE bull[run[w].job].lock = w /\ j = run[w].job
      BY <1>4, <3>1, <3>3 DEF Return, Throw, TypeOK, QueueEntry
    <3>4. CASE ~(bull[run[w].job].lock = w /\ j = run[w].job)
      <4>1. bull'[j] = bull[j]
        BY <1>4, <3>1, <3>4 DEF Return, Throw, TypeOK
      <4> QED
        BY <3>2, <3>4, <4>1
    <3> QED
      BY <3>3, <3>4
  <2>3. \A j \in Jobs : bull'[j].state = "none" => bull[j].state = "none"
    BY <1>4 DEF Return, Throw, TypeOK, QueueEntry
  <2> QED
    BY <2>1, <2>2, <2>3 DEF TypeOK, Run
<1>5. ASSUME NEW w \in Workers, Crash(w) PROVE LockOwner'
  BY <1>5 DEF Crash, DropLock, TypeOK, QueueEntry, Run, Owners
<1>6. ASSUME NEW w \in Workers, LoseLock(w) PROVE LockOwner'
  BY <1>6 DEF LoseLock, DropLock, TypeOK, QueueEntry, Run, Owners
<1>7. ASSUME NEW j \in Jobs, StalledCheck(j) PROVE LockOwner'
  BY <1>7 DEF StalledCheck, TypeOK, QueueEntry, Run, Owners
<1>8. CASE UNCHANGED <<bull, run>>
  BY <1>8
<1>9. ASSUME NEW w \in Workers,
             MarkProcessing(w) \/ ProcessorReturns(w) \/ MarkCompleted(w) \/ SettleKey(w)
               \/ HandlerThrows(w) \/ MarkFailed(w)
      PROVE LockOwner'
  <2>1. /\ UNCHANGED bull
        /\ \E a \in HandlerPc, b \in HandlerPc \ {"idle"} : Goto(w, a, b)
    BY <1>9, Members DEF MarkProcessing, ProcessorReturns, MarkCompleted, SettleKey,
      HandlerThrows, MarkFailed
  <2> QED
    BY <1>3, <2>1
<1>10. ASSUME NEW c \in Clients, RequestStep(c) \/ RequestFails(c) PROVE LockOwner'
  <2>1. AddToQueue(c) \/ UNCHANGED <<bull, run, effects>>
    BY <1>10 DEF RequestStep, CheckKey, InsertKey, InsertJob, AuditAndReply, RequestFails
  <2> QED
    BY <1>1, <1>8, <2>1
<1>11. ASSUME NEW c \in Clients, NEW k \in Keys \cup {NoKey}, NEW i \in Jobs, Submit(c, k, i) PROVE LockOwner'
  BY <1>8, <1>11 DEF Submit
<1> QED
  BY <1>2, <1>4, <1>5, <1>6, <1>7, <1>8, <1>9, <1>10, <1>11 DEF Next, HandlerStep, vars

\* A step either leaves a job's account alone, or starts one run of it, or ends
\* the processor of one, or ends one run and its turn.
LEMMA StepKinds ==
  ASSUME TypeOK, Owners, Fresh, Counters, LockOwner, [Next]_vars, NEW j \in Jobs
  PROVE  Shrinks(j) \/ StartsRun(j) \/ Processes(j) \/ EndsRun(j)
<1> USE AbsentValues
<1> DEFINE Kinds == Shrinks(j) \/ StartsRun(j) \/ Processes(j) \/ EndsRun(j)
<1>1. ASSUME NEW c \in Clients, AddToQueue(c) PROVE Kinds
  <2>1. Handlers(j)' = Handlers(j) /\ ToProcess(j)' = ToProcess(j)
    BY <1>1 DEF AddToQueue, Handlers, ToProcess
  <2>2. Slot(j)' = Slot(j) /\ bull'[j].attempts = bull[j].attempts /\ bull'[j].stalls = bull[j].stalls
    BY <1>1 DEF AddToQueue, TypeOK, Request, QueueEntry, Owners, Fresh, Slot
  <2> QED
    BY <1>1, <2>1, <2>2 DEF AddToQueue, Shrinks, Budget, Charge
<1>2. ASSUME NEW w \in Workers, NEW i \in Jobs, Fetch(w, i) PROVE Kinds
  <2>1. run[w].job = NoJob
    BY <1>2 DEF Fetch, Owners
  <2>2. w \notin Handlers(j)
    BY <2>1 DEF Handlers
  <2>3. CASE i = j
    <3>1. Handlers(j)' = Handlers(j) \cup {w} /\ ToProcess(j)' = ToProcess(j) \cup {w}
      BY <1>2, <2>3 DEF Fetch, Handlers, ToProcess, TypeOK
    <3>2. /\ Slot(j) = 0 /\ Slot(j)' = 1
          /\ bull'[j].attempts = bull[j].attempts /\ bull'[j].stalls = bull[j].stalls
      BY <1>2, <2>3 DEF Fetch, Slot, TypeOK, QueueEntry
    <3>3. bull[j].attempts \in Int /\ bull[j].stalls \in Int
      BY AttemptBounds DEF TypeOK, QueueEntry
    <3>4. Budget(j)' = Budget(j) + 1 /\ Charge(j)' = Charge(j) + 1
      BY <3>2, <3>3 DEF Budget, Charge
    <3> QED
      BY <1>2, <2>2, <3>1, <3>4 DEF StartsRun, Fetch
  <2>4. CASE i # j
    <3>1. Handlers(j)' = Handlers(j) /\ ToProcess(j)' = ToProcess(j)
      BY <1>2, <2>1, <2>4 DEF Fetch, Handlers, ToProcess, TypeOK
    <3>2. bull'[j] = bull[j]
      BY <1>2, <2>4 DEF Fetch, TypeOK
    <3> QED
      BY <1>2, <3>1, <3>2 DEF Fetch, Shrinks, Budget, Charge, Slot
  <2> QED
    BY <2>3, <2>4
<1>3. ASSUME NEW w \in Workers, ProcessorReturns(w) PROVE Kinds
  <2>1. Handlers(j)' = Handlers(j)
    BY <1>3 DEF ProcessorReturns, Goto, Handlers, TypeOK, Run
  <2>2. Budget(j)' = Budget(j) /\ Charge(j)' = Charge(j)
    BY <1>3 DEF ProcessorReturns, Budget, Charge, Slot
  <2>3. ToProcess(j)' = ToProcess(j) \ {w}
    BY <1>3 DEF ProcessorReturns, Goto, ToProcess, TypeOK, Run
  <2>4. CASE run[w].job = j
    <3>1. effects'[j] = effects[j] + 1 /\ w \in ToProcess(j)
      BY <1>3, <2>4 DEF ProcessorReturns, Goto, TypeOK, ToProcess
    <3> QED
      BY <2>1, <2>2, <2>3, <3>1 DEF Processes
  <2>5. CASE run[w].job # j
    <3>1. effects'[j] = effects[j]
      BY <1>3, <2>5 DEF ProcessorReturns, TypeOK
    <3> QED
      BY <2>1, <2>2, <2>3, <3>1 DEF Shrinks
  <2> QED
    BY <2>4, <2>5
<1>4. ASSUME NEW w \in Workers, NEW a \in HandlerPc, NEW b \in {"process", "settle_key", "return", "catch", "throw"},
             Goto(w, a, b), b = "process" => a = "start", UNCHANGED <<bull, effects>>
      PROVE Kinds
  <2>1. Handlers(j)' = Handlers(j)
    BY <1>4 DEF Goto, Handlers, TypeOK, Run
  <2>2. ToProcess(j)' \subseteq ToProcess(j)
    BY <1>4 DEF Goto, ToProcess, TypeOK, Run
  <2> QED
    BY <1>4, <2>1, <2>2 DEF Shrinks, Budget, Charge, Slot
<1>5. ASSUME NEW w \in Workers, Return(w) \/ Throw(w) PROVE Kinds
  <2>1. Handlers(j)' = Handlers(j) \ {w} /\ ToProcess(j)' \subseteq ToProcess(j)
    BY <1>5 DEF Return, Throw, Handlers, ToProcess, TypeOK
  <2>2. effects' = effects
    BY <1>5 DEF Return, Throw
  <2>3. CASE bull[j].lock = w
    <3>1. run[w].job = j /\ bull[j].state = "active"
      BY <2>3 DEF LockOwner, Counters
    <3>2. /\ bull'[j].attempts = bull[j].attempts + 1 /\ bull'[j].stalls = bull[j].stalls
          /\ Slot(j) = 1 /\ Slot(j)' = 0
      BY <1>5, <2>3, <3>1 DEF Return, Throw, TypeOK, QueueEntry, Slot
    <3>3. bull[j].attempts \in Int /\ bull[j].stalls \in Int
      BY AttemptBounds DEF TypeOK, QueueEntry
    <3>4. Budget(j)' = Budget(j) - 1 /\ Charge(j)' = Charge(j)
      BY <3>2, <3>3 DEF Budget, Charge
    <3>5. w \in Handlers(j)
      BY <3>1 DEF Handlers
    <3> QED
      BY <2>1, <2>2, <3>4, <3>5 DEF EndsRun
  <2>4. CASE bull[j].lock # w
    <3>1. bull'[j] = bull[j]
      BY <1>5, <2>4 DEF Return, Throw, TypeOK
    <3> QED
      BY <2>1, <2>2, <3>1 DEF Shrinks, Budget, Charge, Slot
  <2> QED
    BY <2>3, <2>4
<1>6. ASSUME NEW w \in Workers, Crash(w) \/ LoseLock(w) PROVE Kinds
  <2>1. Handlers(j)' \subseteq Handlers(j) /\ ToProcess(j)' \subseteq ToProcess(j)
    BY <1>6 DEF Crash, LoseLock, Handlers, ToProcess, TypeOK
  <2>2. /\ bull'[j].attempts = bull[j].attempts /\ bull'[j].stalls = bull[j].stalls
        /\ bull'[j].state = bull[j].state
    BY <1>6 DEF Crash, LoseLock, DropLock, TypeOK, QueueEntry
  <2>3. effects' = effects
    BY <1>6 DEF Crash, LoseLock
  <2> QED
    BY <2>1, <2>2, <2>3 DEF Shrinks, Budget, Charge, Slot
<1>7. ASSUME NEW i \in Jobs, StalledCheck(i) PROVE Kinds
  <2>1. Handlers(j)' = Handlers(j) /\ ToProcess(j)' = ToProcess(j) /\ effects' = effects
    BY <1>7 DEF StalledCheck, Handlers, ToProcess
  <2>2. CASE i = j
    <3>1. /\ bull'[j].attempts = bull[j].attempts /\ bull'[j].stalls = bull[j].stalls + 1
          /\ Slot(j) = 1 /\ Slot(j)' = 0
      BY <1>7, <2>2 DEF StalledCheck, TypeOK, QueueEntry, Slot
    <3>2. bull[j].attempts \in Int /\ bull[j].stalls \in Int
      BY AttemptBounds DEF TypeOK, QueueEntry
    <3> QED
      BY <2>1, <3>1, <3>2 DEF Shrinks, Budget, Charge
  <2>3. CASE i # j
    <3>1. bull'[j] = bull[j]
      BY <1>7, <2>3 DEF StalledCheck, TypeOK
    <3> QED
      BY <2>1, <3>1 DEF Shrinks, Budget, Charge, Slot
  <2> QED
    BY <2>2, <2>3
<1>8. CASE UNCHANGED <<bull, run, effects>>
  BY <1>8 DEF Shrinks, Handlers, ToProcess, Budget, Charge, Slot
<1>9. ASSUME NEW w \in Workers,
             MarkProcessing(w) \/ MarkCompleted(w) \/ SettleKey(w) \/ HandlerThrows(w)
               \/ MarkFailed(w)
      PROVE Kinds
  <2>1. /\ UNCHANGED <<bull, effects>>
        /\ \E a \in HandlerPc, b \in {"process", "settle_key", "return", "catch", "throw"} :
             Goto(w, a, b) /\ (b = "process" => a = "start")
    BY <1>9, Members DEF MarkProcessing, MarkCompleted, SettleKey, HandlerThrows, MarkFailed
  <2> QED
    BY <1>4, <2>1
<1>10. ASSUME NEW c \in Clients, RequestStep(c) \/ RequestFails(c) PROVE Kinds
  <2>1. AddToQueue(c) \/ UNCHANGED <<bull, run, effects>>
    BY <1>10 DEF RequestStep, CheckKey, InsertKey, InsertJob, AuditAndReply, RequestFails
  <2> QED
    BY <1>1, <1>8, <2>1
<1>11. ASSUME NEW c \in Clients, NEW k \in Keys \cup {NoKey}, NEW i \in Jobs, Submit(c, k, i) PROVE Kinds
  BY <1>8, <1>11 DEF Submit
<1> QED
  BY <1>2, <1>3, <1>5, <1>6, <1>7, <1>8, <1>9, <1>10, <1>11 DEF Next, HandlerStep, vars

LEMMA FitsStep ==
  ASSUME TypeOK, Owners, Fresh, Counters, LockOwner, [Next]_vars, NEW j \in Jobs, Fits(j)
  PROVE  Fits(j)'
<1>1. /\ Cardinality(Handlers(j)) \in Nat /\ Cardinality(ToProcess(j)) \in Nat
      /\ effects[j] \in Nat /\ Budget(j) \in Int /\ Charge(j) \in Int
  BY FS_CardinalityType, AttemptBounds DEF Fits, TypeOK, QueueEntry, Budget, Charge, Slot
<1>2. CASE Shrinks(j)
  <2>1. /\ IsFiniteSet(Handlers(j)') /\ Cardinality(Handlers(j)') <= Cardinality(Handlers(j))
    BY <1>2, FS_Subset DEF Shrinks, Fits
  <2>2. /\ IsFiniteSet(ToProcess(j)') /\ Cardinality(ToProcess(j)') <= Cardinality(ToProcess(j))
    BY <1>2, FS_Subset DEF Shrinks, Fits
  <2>3. Cardinality(Handlers(j)') \in Nat /\ Cardinality(ToProcess(j)') \in Nat
    BY <2>1, <2>2, FS_CardinalityType
  <2> QED
    BY <1>1, <1>2, <2>1, <2>2, <2>3 DEF Shrinks, Fits
<1>3. CASE StartsRun(j)
  <2>1. PICK w \in Workers \ Handlers(j) :
          /\ Handlers(j)' = Handlers(j) \cup {w} /\ ToProcess(j)' = ToProcess(j) \cup {w}
          /\ effects'[j] = effects[j] /\ Budget(j)' = Budget(j) + 1 /\ Charge(j)' = Charge(j) + 1
    BY <1>3 DEF StartsRun
  <2>2. w \notin ToProcess(j)
    BY <2>1 DEF Handlers, ToProcess
  <2>3. IsFiniteSet(Handlers(j)') /\ Cardinality(Handlers(j)') = Cardinality(Handlers(j)) + 1
    BY <2>1, FS_AddElement DEF Fits
  <2>4. IsFiniteSet(ToProcess(j)') /\ Cardinality(ToProcess(j)') = Cardinality(ToProcess(j)) + 1
    BY <2>1, <2>2, FS_AddElement DEF Fits
  <2> QED
    BY <1>1, <2>1, <2>3, <2>4 DEF Fits
<1>4. CASE Processes(j)
  <2>1. PICK w \in ToProcess(j) :
          /\ Handlers(j)' = Handlers(j) /\ ToProcess(j)' = ToProcess(j) \ {w}
          /\ effects'[j] = effects[j] + 1 /\ Budget(j)' = Budget(j) /\ Charge(j)' = Charge(j)
    BY <1>4 DEF Processes
  <2>2. IsFiniteSet(ToProcess(j)') /\ Cardinality(ToProcess(j)') = Cardinality(ToProcess(j)) - 1
    BY <2>1, FS_RemoveElement DEF Fits
  <2> QED
    BY <1>1, <2>1, <2>2 DEF Fits
<1>5. CASE EndsRun(j)
  <2>1. PICK w \in Handlers(j) :
          /\ Handlers(j)' = Handlers(j) \ {w} /\ ToProcess(j)' \subseteq ToProcess(j)
          /\ effects'[j] = effects[j] /\ Budget(j)' = Budget(j) - 1 /\ Charge(j)' = Charge(j)
    BY <1>5 DEF EndsRun
  <2>2. IsFiniteSet(Handlers(j)') /\ Cardinality(Handlers(j)') = Cardinality(Handlers(j)) - 1
    BY <2>1, FS_RemoveElement DEF Fits
  <2>3. /\ IsFiniteSet(ToProcess(j)') /\ Cardinality(ToProcess(j)') <= Cardinality(ToProcess(j))
    BY <2>1, FS_Subset DEF Fits
  <2>4. Cardinality(ToProcess(j)') \in Nat
    BY <2>3, FS_CardinalityType
  <2> QED
    BY <1>1, <2>1, <2>2, <2>3, <2>4 DEF Fits
<1> QED
  BY <1>2, <1>3, <1>4, <1>5, StepKinds

LEMMA SpentStep ==
  TypeOK /\ Owners /\ Fresh /\ Counters /\ Spent /\ [Next]_vars => Spent'
<1> SUFFICES ASSUME TypeOK, Owners, Fresh, Counters, Spent, [Next]_vars, NEW j \in Jobs,
                    bull'[j].state \in {"completed", "failed"}
             PROVE  bull'[j].attempts + bull'[j].stalls <= MaxAttempts + MaxStalls
  BY DEF Spent
<1> USE AttemptBounds
<1>0. /\ bull[j].attempts \in Int /\ bull[j].stalls \in Int
      /\ bull[j].state = "active" =>
           bull[j].attempts + 1 <= MaxAttempts /\ bull[j].stalls <= MaxStalls
      /\ bull[j].state \in {"completed", "failed"} =>
           bull[j].attempts + bull[j].stalls <= MaxAttempts + MaxStalls
  BY DEF TypeOK, QueueEntry, Counters, Spent
<1>1. ASSUME NEW c \in Clients, AddToQueue(c) PROVE bull'[j] = bull[j]
  BY <1>1 DEF AddToQueue, TypeOK, QueueEntry
<1>2. ASSUME NEW w \in Workers, NEW i \in Jobs, Fetch(w, i) PROVE bull'[j] = bull[j]
  BY <1>2 DEF Fetch, TypeOK, QueueEntry
<1>3. ASSUME NEW w \in Workers, Return(w) \/ Throw(w)
      PROVE  \/ bull'[j] = bull[j]
             \/ /\ bull[j].state = "active" /\ bull'[j].stalls = bull[j].stalls
                /\ bull'[j].attempts = bull[j].attempts + 1
  <2>1. run[w].job \in Jobs
    BY <1>3 DEF Return, Throw, TypeOK, Run, Owners
  <2>2. CASE j = run[w].job /\ bull[j].lock = w
    <3>1. bull[j].state = "active"
      BY <2>2, AbsentValues DEF Counters
    <3> QED
      BY <1>3, <2>2, <3>1 DEF Return, Throw, TypeOK, QueueEntry
  <2>3. CASE ~(j = run[w].job /\ bull[j].lock = w)
    BY <1>3, <2>1, <2>3 DEF Return, Throw, TypeOK
  <2> QED
    BY <2>2, <2>3
<1>4. ASSUME NEW w \in Workers, Crash(w) \/ LoseLock(w)
      PROVE  /\ bull'[j].state = bull[j].state /\ bull'[j].attempts = bull[j].attempts
             /\ bull'[j].stalls = bull[j].stalls
  BY <1>4 DEF Crash, LoseLock, DropLock, TypeOK, QueueEntry
<1>5. ASSUME NEW i \in Jobs, StalledCheck(i)
      PROVE  \/ bull'[j] = bull[j]
             \/ /\ bull[j].state = "active" /\ bull'[j].stalls = bull[j].stalls + 1
                /\ bull'[j].attempts = bull[j].attempts
  BY <1>5 DEF StalledCheck, TypeOK, QueueEntry
<1>6. CASE UNCHANGED bull
  BY <1>0, <1>6
<1>7. ASSUME NEW c \in Clients, RequestStep(c) \/ RequestFails(c)
      PROVE  bull' = bull \/ bull'[j] = bull[j]
  BY <1>1, <1>7 DEF RequestStep, CheckKey, InsertKey, InsertJob, AuditAndReply, RequestFails
<1>8. ASSUME NEW w \in Workers, HandlerStep(w)
      PROVE  bull' = bull \/ Return(w) \/ Throw(w)
  BY <1>8 DEF HandlerStep, MarkProcessing, ProcessorReturns, MarkCompleted, SettleKey,
     HandlerThrows, MarkFailed
<1>9. ASSUME NEW c \in Clients, NEW k \in Keys \cup {NoKey}, NEW i \in Jobs, Submit(c, k, i)
      PROVE  bull' = bull
  BY <1>9 DEF Submit
<1> QED
  BY <1>0, <1>2, <1>3, <1>4, <1>5, <1>6, <1>7, <1>8, <1>9 DEF Next, vars

\* A job that never stalled has at most one run, and none unless it is active.
LEMMA OneRun ==
  ASSUME TypeOK, NEW j \in Jobs, Fits(j), bull[j].stalls = 0
  PROVE  /\ \A v, w \in Handlers(j) : v = w
         /\ bull[j].state # "active" => Handlers(j) = {}
<1>1. Cardinality(Handlers(j)) \in Nat /\ Cardinality(Handlers(j)) <= Slot(j)
  BY FS_CardinalityType DEF Fits, Budget, Slot
<1>2. CASE Cardinality(Handlers(j)) = 0
  BY <1>2, FS_EmptySet DEF Fits
<1>3. CASE Cardinality(Handlers(j)) # 0
  <2>1. Cardinality(Handlers(j)) = 1 /\ bull[j].state = "active"
    BY <1>1, <1>3 DEF Slot
  <2>2. PICK x : Handlers(j) = {x}
    BY <2>1, FS_Singleton DEF Fits
  <2> QED
    BY <2>1, <2>2
<1> QED
  BY <1>2, <1>3

\* The part of Written that is about one job.
WrittenOf(j) ==
  bull[j].stalls = 0 =>
    /\ \A w \in Workers : run[w].job = j =>
         /\ run[w].pc \in {"settle_key", "return"} => row[j].status = "completed"
         /\ run[w].pc = "return" => KeySettled(j)
    /\ bull[j].state = "completed" => row[j].status = "completed" /\ KeySettled(j)

LEMMA WrittenStep ==
  ASSUME IInv, LockOwner, \A j \in Jobs : Fits(j), Written, [Next]_vars, NEW j \in Jobs
  PROVE  WrittenOf(j)'
<1> USE AbsentValues DEF IInv
<1>0. WrittenOf(j)
  BY DEF Written, WrittenOf
<1>1. ASSUME NEW c \in Clients, InsertKey(c) PROVE WrittenOf(j)'
  <2>1. \A k \in Keys : idem[k].status = "completed" => idem'[k] = idem[k]
    BY <1>1 DEF InsertKey, TypeOK, KeyRow
  <2>2. row[j].key \in Keys \cup {NoKey}
    BY DEF TypeOK, JobRow
  <2>3. KeySettled(j) => KeySettled(j)'
    BY <1>1, <2>1, <2>2 DEF KeySettled, InsertKey
  <2> QED
    BY <1>0, <1>1, <2>3 DEF InsertKey, WrittenOf
<1>2. ASSUME NEW c \in Clients, InsertJob(c) PROVE WrittenOf(j)'
  <2>1. CASE req[c].job = j
    <3>1. bull[j].state = "none"
      BY <1>2, <2>1 DEF InsertJob, Fresh
    <3>2. \A w \in Workers : run[w].job # j
      BY <3>1 DEF LockOwner
    <3> QED
      BY <1>2, <3>1, <3>2 DEF InsertJob, WrittenOf
  <2>2. CASE req[c].job # j
    <3>1. row'[j] = row[j]
      BY <1>2, <2>2 DEF InsertJob, TypeOK
    <3> QED
      BY <1>0, <1>2, <3>1 DEF InsertJob, WrittenOf, KeySettled
  <2> QED
    BY <2>1, <2>2
<1>3. ASSUME NEW c \in Clients, AddToQueue(c) PROVE WrittenOf(j)'
  <2>1. bull'[j].state = "completed" => bull'[j] = bull[j]
    BY <1>3 DEF AddToQueue, TypeOK, QueueEntry
  <2>2. bull'[j].stalls = bull[j].stalls
    BY <1>3 DEF AddToQueue, TypeOK, QueueEntry
  <2> QED
    BY <1>0, <1>3, <2>1, <2>2 DEF AddToQueue, WrittenOf, KeySettled
<1>4. ASSUME NEW w \in Workers, NEW i \in Jobs, Fetch(w, i) PROVE WrittenOf(j)'
  <2>1. bull'[j].state = "completed" => bull'[j] = bull[j]
    BY <1>4 DEF Fetch, TypeOK, QueueEntry
  <2>2. bull'[j].stalls = bull[j].stalls
    BY <1>4 DEF Fetch, TypeOK, QueueEntry
  <2>3. \A v \in Workers : run'[v] = run[v] \/ run'[v].pc = "start"
    BY <1>4 DEF Fetch, TypeOK
  <2> QED
    BY <1>0, <1>4, <2>1, <2>2, <2>3 DEF Fetch, WrittenOf, KeySettled
<1>5. ASSUME NEW w \in Workers, MarkCompleted(w) PROVE WrittenOf(j)'
  <2>1. CASE run[w].job = j
    <3>1. bull[j].state # "none"
      BY <2>1 DEF LockOwner
    <3>2. row[j].status # "none"
      BY <3>1 DEF Fresh
    <3>3. row'[j].status = "completed" /\ row'[j].key = row[j].key
      BY <1>5, <2>1, <3>2 DEF MarkCompleted, SetRow, TypeOK, JobRow
    <3>4. \A v \in Workers : run'[v].job = j /\ run'[v].pc = "return" => run[v] = run'[v]
      BY <1>5 DEF MarkCompleted, Goto, TypeOK, Run
    <3> QED
      BY <1>0, <1>5, <3>3, <3>4 DEF MarkCompleted, WrittenOf, KeySettled
  <2>2. CASE run[w].job # j
    <3>1. row'[j] = row[j]
      BY <1>5, <2>2 DEF MarkCompleted, SetRow, TypeOK
    <3>2. \A v \in Workers : run'[v].job = j => run'[v] = run[v]
      BY <1>5, <2>2 DEF MarkCompleted, Goto, TypeOK, Run
    <3> QED
      BY <1>0, <1>5, <3>1, <3>2 DEF MarkCompleted, WrittenOf, KeySettled
  <2> QED
    BY <2>1, <2>2
<1>6. ASSUME NEW w \in Workers, SettleKey(w) PROVE WrittenOf(j)'
  <2>1. run[w].job \in Jobs /\ row[run[w].job].key \in Keys \cup {NoKey}
    BY <1>6 DEF SettleKey, Goto, TypeOK, Run, Owners, JobRow
  <2> DEFINE K == row[run[w].job].key
  <2>a. K \in Keys => /\ idem'[K].status = "completed"
                      /\ idem'[K].job = run[w].job
                      /\ \A k \in Keys : k # K => idem'[k] = idem[k]
    BY <1>6 DEF SettleKey, TypeOK, KeyRow
  <2>b. K = NoKey => idem' = idem
    BY <1>6 DEF SettleKey
  <2>c. row' = row /\ run'[w].job = run[w].job
    BY <1>6 DEF SettleKey, Goto, TypeOK, Run
  <2> HIDE DEF K
  <2>2. KeySettled(run[w].job)'
    BY <2>1, <2>a, <2>c DEF KeySettled, K
  <2>3. ASSUME KeySettled(j) PROVE KeySettled(j)'
    <3>1. row[j].key # NoKey /\ row[j].key = K => run[w].job = j
      BY <2>1 DEF OneJobPerKey, K
    <3>2. row[j].key \in Keys \cup {NoKey}
      BY DEF TypeOK, JobRow
    <3>3. row[j].key # NoKey /\ row[j].key # K => idem'[row[j].key] = idem[row[j].key]
      BY <2>1, <2>a, <2>b, <3>2 DEF K
    <3> QED
      BY <2>1, <2>2, <2>3, <2>c, <3>1, <3>3 DEF KeySettled, K
  <2>4. \A v \in Workers : run'[v] = IF v = w THEN [run[w] EXCEPT !.pc = "return"] ELSE run[v]
    BY <1>6 DEF SettleKey, Goto, TypeOK, Run
  <2>5. run'[w].job = run[w].job /\ run[w].pc = "settle_key"
    BY <1>6 DEF SettleKey, Goto, TypeOK, Run
  <2> QED
    BY <1>0, <1>6, <2>2, <2>3, <2>4, <2>5 DEF SettleKey, WrittenOf
<1>7. ASSUME NEW w \in Workers,
             MarkProcessing(w) \/ MarkFailed(w)
      PROVE WrittenOf(j)'
  <2>1. /\ run'[w].job = run[w].job /\ run'[w].pc \in {"process", "throw"}
        /\ \A v \in Workers : v # w => run'[v] = run[v]
    BY <1>7 DEF MarkProcessing, MarkFailed, Goto, TypeOK, Run
  <2>2. CASE run[w].job = j
    <3>1. bull[j].stalls = 0 =>
            /\ bull[j].state = "active"
            /\ \A v \in Workers : run[v].job = j => v = w
      BY <2>2, OneRun DEF Handlers
    <3> QED
      BY <1>7, <2>1, <3>1 DEF WrittenOf, MarkProcessing, MarkFailed
  <2>3. CASE run[w].job # j
    <3>1. row'[j] = row[j]
      BY <1>7, <2>3 DEF MarkProcessing, MarkFailed, SetRow, TypeOK
    <3> QED
      BY <1>0, <1>7, <2>1, <2>3, <3>1 DEF MarkProcessing, MarkFailed, WrittenOf, KeySettled
  <2> QED
    BY <2>2, <2>3
<1>8. ASSUME NEW w \in Workers, ProcessorReturns(w) \/ HandlerThrows(w) PROVE WrittenOf(j)'
  <2>1. /\ run'[w].pc \in {"complete", "catch"}
        /\ \A v \in Workers : v # w => run'[v] = run[v]
    BY <1>8 DEF ProcessorReturns, HandlerThrows, Goto, TypeOK, Run
  <2> QED
    BY <1>0, <1>8, <2>1 DEF ProcessorReturns, HandlerThrows, WrittenOf, KeySettled
<1>9. ASSUME NEW w \in Workers, Return(w) PROVE WrittenOf(j)'
  <2>1. \A v \in Workers : run'[v].job = j => run'[v] = run[v]
    BY <1>9 DEF Return, TypeOK, Run
  <2>2. CASE bull[j].lock = w /\ run[w].job = j
    <3>1. bull'[j].stalls = bull[j].stalls
      BY <1>9, <2>2 DEF Return, TypeOK, QueueEntry
    <3> QED
      BY <1>0, <1>9, <2>1, <2>2, <3>1 DEF Return, WrittenOf, KeySettled
  <2>3. CASE ~(bull[j].lock = w /\ run[w].job = j)
    <3>1. bull'[j] = bull[j]
      BY <1>9, <2>3 DEF Return, TypeOK, LockOwner
    <3> QED
      BY <1>0, <1>9, <2>1, <3>1 DEF Return, WrittenOf, KeySettled
  <2> QED
    BY <2>2, <2>3
<1>10. ASSUME NEW w \in Workers, Throw(w) PROVE WrittenOf(j)'
  <2>1. \A v \in Workers : run'[v].job = j => run'[v] = run[v]
    BY <1>10 DEF Throw, TypeOK, Run
  <2>2. bull'[j] = bull[j] \/ bull'[j].state # "completed"
    BY <1>10 DEF Throw, TypeOK, QueueEntry
  <2>3. bull'[j].stalls = bull[j].stalls
    BY <1>10 DEF Throw, TypeOK, QueueEntry
  <2> QED
    BY <1>0, <1>10, <2>1, <2>2, <2>3 DEF Throw, WrittenOf, KeySettled
<1>11. ASSUME NEW w \in Workers, Crash(w) \/ LoseLock(w) PROVE WrittenOf(j)'
  <2>1. \A v \in Workers : run'[v].job = j => run'[v] = run[v]
    BY <1>11 DEF Crash, LoseLock, TypeOK, Run
  <2>2. bull'[j].state = bull[j].state /\ bull'[j].stalls = bull[j].stalls
    BY <1>11 DEF Crash, LoseLock, DropLock, TypeOK, QueueEntry
  <2> QED
    BY <1>0, <1>11, <2>1, <2>2 DEF Crash, LoseLock, WrittenOf, KeySettled
<1>12. ASSUME NEW i \in Jobs, StalledCheck(i) PROVE WrittenOf(j)'
  <2>1. bull'[j] = bull[j] \/ bull'[j].stalls # 0
    BY <1>12, AttemptBounds DEF StalledCheck, TypeOK, QueueEntry
  <2> QED
    BY <1>0, <1>12, <2>1 DEF StalledCheck, WrittenOf, KeySettled
<1>13. CASE UNCHANGED <<idem, row, bull, run>>
  BY <1>0, <1>13 DEF WrittenOf, KeySettled
<1>14. ASSUME NEW c \in Clients, RequestStep(c) \/ RequestFails(c) PROVE WrittenOf(j)'
  <2>1. \/ InsertKey(c) \/ InsertJob(c) \/ AddToQueue(c)
        \/ UNCHANGED <<idem, row, bull, run>>
    BY <1>14 DEF RequestStep, CheckKey, AuditAndReply, RequestFails
  <2> QED
    BY <1>1, <1>2, <1>3, <1>13, <2>1
<1>15. ASSUME NEW c \in Clients, NEW k \in Keys \cup {NoKey}, NEW i \in Jobs, Submit(c, k, i)
       PROVE  WrittenOf(j)'
  BY <1>13, <1>15 DEF Submit
<1> QED
  BY <1>4, <1>5, <1>6, <1>7, <1>8, <1>9, <1>10, <1>11, <1>12, <1>13, <1>14, <1>15
  DEF Next, HandlerStep, vars

THEOREM RunsInvariance == Spec => []RunsInv
<1>1. Init => RunsInv
  BY InitIInv, InitRuns DEF RunsInv
<1>2. RunsInv /\ [Next]_vars => RunsInv'
  <2> SUFFICES ASSUME RunsInv, [Next]_vars PROVE RunsInv'
    OBVIOUS
  <2> USE DEF RunsInv
  <2>1. IInv'
    BY TypeStep, OwnersStep, FreshStep, CountersStep, KeyHeldStep, KeyHonestStep,
       OneJobStep, HonestStep DEF IInv
  <2>2. LockOwner' /\ Spent'
    BY LockOwnerStep, SpentStep DEF IInv
  <2>3. ASSUME NEW j \in Jobs PROVE Fits(j)'
    BY FitsStep DEF IInv
  <2>4. \A j \in Jobs : WrittenOf(j)'
    BY WrittenStep
  <2>5. Written'
    BY <2>4 DEF Written, WrittenOf
  <2> QED
    BY <2>1, <2>2, <2>3, <2>5
<1> QED
  BY <1>1, <1>2, PTL DEF Spec

\* Two handlers run one job at once only after BullMQ declared it stalled, and
\* never more than one for every stall besides the one that is due.
THEOREM Overlaps == Spec => []OverlapNeedsStall
<1>1. RunsInv => OverlapNeedsStall
  <2> SUFFICES ASSUME RunsInv, NEW j \in Jobs
               PROVE  Cardinality(Handlers(j)) <= 1 + bull[j].stalls
    BY DEF OverlapNeedsStall, Handlers
  <2>1. Cardinality(Handlers(j)) \in Nat /\ bull[j].stalls \in Int
    BY FS_CardinalityType, AttemptBounds DEF RunsInv, Fits, IInv, TypeOK, QueueEntry
  <2> QED
    BY <2>1 DEF RunsInv, Fits, Budget, Slot
<1> QED
  BY RunsInvariance, <1>1, PTL

\* The processor of a job runs to its end at most once for every attempt and
\* every stall the queue allows.
THEOREM Bounded == Spec => []BoundedProcessing
<1>1. RunsInv => BoundedProcessing
  <2> SUFFICES ASSUME RunsInv, NEW j \in Jobs PROVE effects[j] <= MaxAttempts + MaxStalls
    BY DEF BoundedProcessing
  <2>1. /\ Cardinality(ToProcess(j)) \in Nat /\ effects[j] \in Nat
        /\ bull[j].stalls \in Int /\ bull[j].attempts \in Int
    BY FS_CardinalityType, AttemptBounds DEF RunsInv, Fits, IInv, TypeOK, QueueEntry
  <2>2. effects[j] <= Charge(j)
    BY <2>1, AttemptBounds DEF RunsInv, Fits, Charge, Budget, Slot
  <2>3. Charge(j) <= MaxAttempts + MaxStalls
    <3>1. CASE bull[j].state \in {"waiting", "active"}
      BY <2>1, <3>1, AttemptBounds DEF RunsInv, IInv, Counters, Charge, Budget, Slot
    <3>2. CASE bull[j].state \in {"completed", "failed"}
      BY <2>1, <3>2, AttemptBounds DEF RunsInv, Spent, Charge, Budget, Slot
    <3>3. CASE bull[j].state = "none"
      <4>1. bull[j].attempts = 0 /\ bull[j].stalls = 0
        BY <3>3 DEF RunsInv, IInv, Fresh
      <4> QED
        BY <3>3, <4>1, AttemptBounds DEF Charge, Budget, Slot
    <3> QED
      BY <3>1, <3>2, <3>3 DEF RunsInv, IInv, TypeOK, QueueEntry, BullState
  <2> QED
    BY <2>1, <2>2, <2>3, AttemptBounds DEF Charge, Budget, Slot
<1> QED
  BY RunsInvariance, <1>1, PTL

\* A job that BullMQ completed without a stall is completed in its row, and its
\* idempotency key in its name.
THEOREM Recorded == Spec => []CompletedJobIsRecorded
<1>1. RunsInv => CompletedJobIsRecorded
  BY DEF RunsInv, Written, KeySettled, CompletedJobIsRecorded
<1> QED
  BY RunsInvariance, <1>1, PTL

-----------------------------------------------------------------------------
(***************************************************************************)
(* Detection                                                               *)
(***************************************************************************)
\* Where a job has a run.
Working == {"discover", "issues", "sources", "fail"}

\* A run is worked on by one job, which gives it its row; the row has the job's
\* configuration.
Worked ==
  /\ \A j \in DetJobs :
       /\ detJobs[j].at \in Working =>
            /\ detJobs[j].run \in DetRuns
            /\ detRuns[detJobs[j].run].status = "running"
       /\ detJobs[j].at \notin Working => detJobs[j].run = None
       /\ detJobs[j].at \in {"discover", "issues", "sources"} =>
            detRuns[detJobs[j].run].config = detJobs[j].config
       /\ detJobs[j].at = "start" => detJobs[j].config \in Configs
       /\ detJobs[j].at \in {"enqueue", "waiting"} \cup Working /\ detJobs[j].replays = None
            => detJobs[j].config \in Configs
       /\ detJobs[j].at = "sources" <=> detJobs[j].key # None
  /\ \A i, j \in DetJobs : detJobs[i].run = detJobs[j].run /\ detJobs[i].run # None => i = j
  /\ \A r \in DetRuns : detRuns[r].status # "none" => detRuns[r].config \in Configs

\* What a job that inserts issues has left to do is all that its run lacks.
InsertedBy(j) ==
  detJobs[j].at \in {"discover", "issues", "sources"} =>
    /\ detJobs[j].left \subseteq detFound[detJobs[j].config]
    /\ \A k \in detFound[detJobs[j].config] \ detJobs[j].left :
         detIssues[k] # None /\ detIssues[k].run = detJobs[j].run
    /\ \A k \in DetKeys : detIssues[k] # None /\ detIssues[k].run = detJobs[j].run =>
         detIssues[k].sources \/ k = detJobs[j].key
    /\ detJobs[j].key # None => detIssues[detJobs[j].key] # None

\* An issue belongs to a run that has a row.
Filed == \A k \in DetKeys : detIssues[k] # None => detRuns[detIssues[k].run].status # "none"

\* Where a request is tells what it is about.
Asked ==
  /\ \A a \in DetActors :
       /\ detActors[a].at = "idle" => detActors[a] = Detect!Idle
       /\ detActors[a].at \in {"insert", "mark", "dismiss", "done"} => detActors[a].key = None
       /\ detActors[a].at \in {"set", "record"} =>
            /\ detActors[a].key \in DetKeys /\ detActors[a].status \in Decisions
            /\ detIssues[detActors[a].key] # None
       /\ detActors[a].at \in {"insert", "mark"} => detActors[a].op = "promote"
       /\ detActors[a].at \in {"set", "record", "dismiss", "done"} => detActors[a].op # "promote"
       /\ detActors[a].at \in {"insert", "mark", "dismiss"} => detAI # None
       /\ detActors[a].at = "mark" => detPromoted
  /\ detPromoted => detAI # None

IssuesIInv ==
  IssuesInv /\ Worked /\ (\A j \in DetJobs : InsertedBy(j)) /\ Filed /\ Asked

LEMMA AdvanceFrame ==
  ASSUME DetTypeOK, NEW j \in DetJobs, NEW new \in DetJob, Detect!Advance(j, new)
  PROVE  /\ detJobs' \in [DetJobs -> DetJob] /\ detJobs'[j] = new
         /\ \A i \in DetJobs : i # j => detJobs'[i] = detJobs[i]
BY DEF Detect!Advance, DetTypeOK

\* A job's step gives it a new record, and leaves requests alone.
LEMMA ProcessAdvances ==
  ASSUME DetTypeOK, Worked, NEW j \in DetJobs, Detect!Process(j)
  PROVE  \E new \in DetJob : Detect!Advance(j, new)
<1> DEFINE job == detJobs[j]
<1>0. /\ job \in DetJob /\ Detect!NoDetJob \in DetJob
  BY NoRow DEF DetTypeOK, DetJob, Detect!NoDetJob
<1> HIDE DEF job
<1>1. CASE Detect!AskRun(j)
  <2>1. PICK f \in Configs : Detect!Advance(j, [Detect!NoDetJob EXCEPT !.at = "enqueue", !.config = f])
    BY <1>1 DEF Detect!AskRun
  <2>2. [Detect!NoDetJob EXCEPT !.at = "enqueue", !.config = f] \in DetJob
    BY <1>0 DEF DetJob
  <2> QED
    BY <2>1, <2>2
<1>2. CASE Detect!AskReplay(j)
  <2>1. PICK r \in DetRuns : Detect!Advance(j, [Detect!NoDetJob EXCEPT !.at = "enqueue", !.replays = r])
    BY <1>2 DEF Detect!AskReplay, Detect!DetRuns, DetRuns
  <2>2. [Detect!NoDetJob EXCEPT !.at = "enqueue", !.replays = r] \in DetJob
    BY <1>0 DEF DetJob
  <2> QED
    BY <2>1, <2>2
<1>3. CASE Detect!EnqueueRun(j)
  <2>1. PICK to \in {"waiting", "ended"} : Detect!Advance(j, [job EXCEPT !.at = to])
    BY <1>3 DEF Detect!EnqueueRun, job
  <2>2. [job EXCEPT !.at = to] \in DetJob
    BY <1>0 DEF DetJob
  <2> QED
    BY <2>1, <2>2
<1>4. ASSUME Detect!Advance(j, Detect!Ended(job)) PROVE \E new \in DetJob : Detect!Advance(j, new)
  <2>1. Detect!Ended(job) \in DetJob
    BY <1>0 DEF Detect!Ended, DetJob
  <2> QED
    BY <1>4, <2>1
<1>5. CASE Detect!LoadOriginal(j)
  <2> DEFINE config == detRuns[job.replays].config
  <2>1. CASE detRuns[job.replays].status = "none"
    BY <1>4, <1>5, <2>1 DEF Detect!LoadOriginal, job
  <2>2. CASE detRuns[job.replays].status # "none"
    <3>1. Detect!Advance(j, [job EXCEPT !.at = "start", !.config = config])
      BY <1>5, <2>2 DEF Detect!LoadOriginal, job
    <3>2. job.replays \in DetRuns
      BY <1>0, <1>5 DEF Detect!LoadOriginal, DetJob, job
    <3>3. config \in Configs \cup {None}
      BY <3>2 DEF DetTypeOK
    <3>4. [job EXCEPT !.at = "start", !.config = config] \in DetJob
      BY <1>0, <3>3 DEF DetJob
    <3> QED
      BY <3>1, <3>4
  <2> QED
    BY <2>1, <2>2
<1>6. CASE Detect!StartRun(j)
  <2>1. PICK r \in DetRuns : Detect!Advance(j, [job EXCEPT !.at = "discover", !.run = r,
                                              !.left = detFound[job.config]])
    BY <1>6 DEF Detect!StartRun, Detect!DetRuns, DetRuns, job
  <2>2. detFound[job.config] \in SUBSET DetKeys
    BY <1>6 DEF Detect!StartRun, Worked, DetTypeOK, job
  <2>3. [job EXCEPT !.at = "discover", !.run = r, !.left = detFound[job.config]] \in DetJob
    BY <1>0, <2>2 DEF DetJob
  <2> QED
    BY <2>1, <2>3
<1>7. ASSUME NEW at \in {"issues", "fail"}, Detect!Advance(j, [job EXCEPT !.at = at])
      PROVE  \E new \in DetJob : Detect!Advance(j, new)
  <2>1. [job EXCEPT !.at = at] \in DetJob
    BY <1>0 DEF DetJob
  <2> QED
    BY <1>7, <2>1
<1>8. CASE Detect!Discover(j)
  BY <1>7, <1>8 DEF Detect!Discover, job
<1>9. CASE Detect!InsertIssue(j)
  <2>1. PICK k \in job.left :
          \/ Detect!Advance(j, [job EXCEPT !.at = "fail"])
          \/ Detect!Advance(j, [job EXCEPT !.at = "sources", !.left = job.left \ {k}, !.key = k])
    BY <1>9 DEF Detect!InsertIssue, job
  <2>2. [job EXCEPT !.at = "sources", !.left = job.left \ {k}, !.key = k] \in DetJob
    BY <1>0 DEF DetJob
  <2> QED
    BY <1>7, <2>1, <2>2
<1>10. CASE Detect!InsertSources(j)
  <2>1. Detect!Advance(j, [job EXCEPT !.at = "issues", !.key = None])
    BY <1>10 DEF Detect!InsertSources, job
  <2>2. [job EXCEPT !.at = "issues", !.key = None] \in DetJob
    BY <1>0 DEF DetJob
  <2> QED
    BY <2>1, <2>2
<1>11. CASE Detect!CompleteRun(j)
  BY <1>4, <1>11 DEF Detect!CompleteRun, job
<1>12. CASE Detect!Throws(j)
  <2>1. Detect!Advance(j, [job EXCEPT !.at = "fail", !.left = {}, !.key = None])
    BY <1>12 DEF Detect!Throws, job
  <2>2. [job EXCEPT !.at = "fail", !.left = {}, !.key = None] \in DetJob
    BY <1>0 DEF DetJob
  <2> QED
    BY <2>1, <2>2
<1>13. CASE Detect!FailRun(j)
  <2>1. \/ Detect!Advance(j, Detect!Ended(job))
        \/ Detect!Advance(j, [Detect!NoDetJob EXCEPT !.at = "waiting", !.config = job.config])
    BY <1>13 DEF Detect!FailRun, job
  <2>2. [Detect!NoDetJob EXCEPT !.at = "waiting", !.config = job.config] \in DetJob
    BY <1>0 DEF DetJob
  <2> QED
    BY <1>4, <2>1, <2>2
<1>14. CASE Detect!Dies(j)
  <2> DEFINE config == IF job.replays = None THEN job.config ELSE None
  <2>1. Detect!Advance(j, [Detect!NoDetJob EXCEPT !.at = "waiting", !.replays = job.replays, !.config = config])
    BY <1>14 DEF Detect!Dies, job
  <2>2. config \in Configs \cup {None}
    BY <1>0 DEF DetJob
  <2>3. [Detect!NoDetJob EXCEPT !.at = "waiting", !.replays = job.replays, !.config = config] \in DetJob
    BY <1>0, <2>2 DEF DetJob
  <2> QED
    BY <2>1, <2>3
<1> QED
  BY <1>1, <1>2, <1>3, <1>5, <1>6, <1>8, <1>9, <1>10, <1>11, <1>12, <1>13, <1>14 DEF Detect!Process

\* A row of detection_runs.
RunRow == [status : {"none", "running", "completed", "failed"},
           config : Configs \cup {None}, whole : BOOLEAN]

(***************************************************************************)
(* What the steps of a job do, one kind at a time                          *)
(***************************************************************************)
\* The row of a run gets a new status and, maybe, a mark that it is not whole.
Writes(r, status) ==
  /\ detRuns' \in [DetRuns -> RunRow]
  /\ detRuns'[r].status = status /\ detRuns'[r].config = detRuns[r].config
  /\ \A q \in DetRuns : q # r => detRuns'[q] = detRuns[q]

\* A job that is not running goes on, without one.
Waits(j) ==
  /\ detJobs[j].at \notin Working /\ detJobs'[j].at \notin Working
  /\ detJobs'[j].run = None /\ detJobs'[j].key = None
  /\ detJobs'[j].at = "start" => detJobs'[j].config \in Configs
  /\ detJobs'[j].at \in {"enqueue", "waiting"} /\ detJobs'[j].replays = None
       => detJobs'[j].config \in Configs
  /\ UNCHANGED <<detRuns, detIssues, detAI, detDeaths>>

Starts(j) ==
  \E r \in DetRuns :
    /\ detJobs[j].at \in {"start", "waiting"} /\ detJobs[j].config \in Configs
    /\ detJobs'[j] = [detJobs[j] EXCEPT !.at = "discover", !.run = r,
                        !.left = detFound[detJobs[j].config]]
    /\ detRuns' \in [DetRuns -> RunRow]
    /\ detRuns[r].status = "none"
    /\ detRuns'[r] = [status |-> "running", config |-> detJobs[j].config, whole |-> TRUE]
    /\ \A q \in DetRuns : q # r => detRuns'[q] = detRuns[q]
    /\ UNCHANGED <<detIssues, detAI, detDeaths>>

Discovers(j) ==
  /\ detJobs[j].at = "discover" /\ detJobs'[j] = [detJobs[j] EXCEPT !.at = "issues"]
  /\ detAI' = detAI \/ (detAI = None /\ detAI' = [status |-> "pending", promoted |-> FALSE])
  /\ UNCHANGED <<detRuns, detIssues, detDeaths>>

Inserts(j) ==
  \E k \in detJobs[j].left :
    /\ detJobs[j].at = "issues" /\ detIssues[k] = None
    /\ detJobs'[j] = [detJobs[j] EXCEPT !.at = "sources", !.left = detJobs[j].left \ {k},
                        !.key = k]
    /\ detIssues' = [detIssues EXCEPT ![k] =
                       [run |-> detJobs[j].run, status |-> "open", sources |-> FALSE]]
    /\ UNCHANGED <<detRuns, detAI, detDeaths>>

Joins(j) ==
  /\ detJobs[j].at = "sources"
  /\ detJobs'[j] = [detJobs[j] EXCEPT !.at = "issues", !.key = None]
  /\ detIssues' = [detIssues EXCEPT ![detJobs[j].key].sources = TRUE]
  /\ UNCHANGED <<detRuns, detAI, detDeaths>>

Completes(j) ==
  /\ detJobs[j].at = "issues" /\ detJobs[j].left = {}
  /\ detJobs'[j] = [Detect!NoDetJob EXCEPT !.at = "ended"]
  /\ Writes(detJobs[j].run, "completed")
  /\ UNCHANGED <<detIssues, detAI, detDeaths>>

\* A statement of the job fails; its run stays 'running'.
Stops(j) ==
  /\ detJobs[j].at \in Working
  /\ detJobs'[j].at = "fail" /\ detJobs'[j].run = detJobs[j].run /\ detJobs'[j].key = None
  /\ detJobs'[j].replays = detJobs[j].replays /\ detJobs'[j].config = detJobs[j].config
  /\ detRuns' = detRuns \/ Writes(detJobs[j].run, "running")
  /\ UNCHANGED <<detIssues, detAI, detDeaths>>

\* The job leaves its run, which says 'failed' or is marked.
Leaves(j) ==
  /\ detJobs[j].at \in Working /\ detJobs'[j].at \in {"ended", "waiting"}
  /\ detJobs'[j].run = None /\ detJobs'[j].key = None
  /\ detJobs'[j].at = "waiting" /\ detJobs'[j].replays = None => detJobs'[j].config \in Configs
  /\ \/ Writes(detJobs[j].run, "failed")
     \/ Writes(detJobs[j].run, "running") /\ ~detRuns'[detJobs[j].run].whole
  /\ detDeaths' \in {detDeaths, detDeaths + 1} /\ detDeaths' <= MaxDeaths
  /\ UNCHANGED <<detIssues, detAI>>

LEMMA WritesStatus ==
  ASSUME DetTypeOK, NEW r \in DetRuns, NEW status \in {"completed", "failed"},
         detRuns' = [detRuns EXCEPT ![r].status = status]
  PROVE  Writes(r, status)
<1>1. detRuns \in [DetRuns -> RunRow]
  BY DEF DetTypeOK, RunRow
<1>2. /\ detRuns'[r] = [detRuns[r] EXCEPT !.status = status]
      /\ \A q \in DetRuns : q # r => detRuns'[q] = detRuns[q]
  BY <1>1
<1>3. [detRuns[r] EXCEPT !.status = status] \in RunRow
  BY <1>1 DEF RunRow
<1> QED
  BY <1>1, <1>2, <1>3 DEF Writes, RunRow

LEMMA WritesMark ==
  ASSUME DetTypeOK, NEW r \in DetRuns, detRuns[r].status = "running",
         detRuns' = [detRuns EXCEPT ![r].whole = FALSE]
  PROVE  Writes(r, "running") /\ ~detRuns'[r].whole
<1>1. detRuns \in [DetRuns -> RunRow]
  BY DEF DetTypeOK, RunRow
<1>2. /\ detRuns'[r] = [detRuns[r] EXCEPT !.whole = FALSE]
      /\ \A q \in DetRuns : q # r => detRuns'[q] = detRuns[q]
  BY <1>1
<1>3. [detRuns[r] EXCEPT !.whole = FALSE] \in RunRow
  BY <1>1 DEF RunRow
<1> QED
  BY <1>1, <1>2, <1>3 DEF Writes, RunRow

LEMMA ProcessFrame ==
  ASSUME DetTypeOK, Worked, NEW j \in DetJobs, Detect!Process(j)
  PROVE  /\ UNCHANGED <<detFound, detHistory, detPromoted, detActors>>
         /\ detJobs' \in [DetJobs -> DetJob]
         /\ \A i \in DetJobs : i # j => detJobs'[i] = detJobs[i]
<1>1. UNCHANGED <<detFound, detHistory, detPromoted, detActors>>
  <2> USE DEF Detect!rows
  <2>1. CASE Detect!AskRun(j) \/ Detect!AskReplay(j) \/ Detect!EnqueueRun(j) \/ Detect!LoadOriginal(j)
    BY <2>1 DEF Detect!AskRun, Detect!AskReplay, Detect!EnqueueRun, Detect!LoadOriginal
  <2>2. CASE Detect!StartRun(j) \/ Detect!Discover(j) \/ Detect!InsertIssue(j) \/ Detect!InsertSources(j)
    BY <2>2 DEF Detect!StartRun, Detect!Discover, Detect!InsertIssue, Detect!InsertSources
  <2>3. CASE Detect!CompleteRun(j) \/ Detect!Throws(j) \/ Detect!FailRun(j) \/ Detect!Dies(j)
    BY <2>3 DEF Detect!CompleteRun, Detect!Throws, Detect!FailRun, Detect!Dies
  <2> QED
    BY <2>1, <2>2, <2>3 DEF Detect!Process
<1> QED
  BY <1>1, ProcessAdvances, AdvanceFrame

LEMMA ProcessKinds ==
  ASSUME DetTypeOK, Worked, NEW j \in DetJobs, Detect!Process(j)
  PROVE  \/ Waits(j) \/ Starts(j) \/ Discovers(j) \/ Inserts(j) \/ Joins(j)
         \/ Completes(j) \/ Stops(j) \/ Leaves(j)
<1> DEFINE job == detJobs[j]
<1>0. job \in DetJob /\ DOMAIN detJobs = DetJobs
  BY DEF DetTypeOK
<1>a. ASSUME NEW new, Detect!Advance(j, new) PROVE detJobs'[j] = new
  BY <1>a, <1>0 DEF Detect!Advance
<1>b. job.at \in Working => job.run \in DetRuns /\ detRuns[job.run].status = "running"
  BY DEF Worked
<1>c. job.at \notin Working => job.run = None
  BY DEF Worked
<1>d. job.at # "sources" => job.key = None
  BY DEF Worked
<1> HIDE DEF job
<1>1. CASE Detect!AskRun(j)
  <2>1. PICK f \in Configs : Detect!Advance(j, [Detect!NoDetJob EXCEPT !.at = "enqueue", !.config = f])
    BY <1>1 DEF Detect!AskRun
  <2>2. /\ detJobs'[j] = [Detect!NoDetJob EXCEPT !.at = "enqueue", !.config = f] /\ job = Detect!NoDetJob
        /\ UNCHANGED <<detRuns, detIssues, detAI, detDeaths>>
    BY <1>1, <1>a, <2>1 DEF Detect!AskRun, Detect!rows, job
  <2> QED
    BY <2>2 DEF Waits, Detect!NoDetJob, Working, job
<1>2. CASE Detect!AskReplay(j)
  <2>1. PICK r \in DetRuns : Detect!Advance(j, [Detect!NoDetJob EXCEPT !.at = "enqueue", !.replays = r])
    BY <1>2 DEF Detect!AskReplay, Detect!DetRuns, DetRuns
  <2>2. /\ detJobs'[j] = [Detect!NoDetJob EXCEPT !.at = "enqueue", !.replays = r] /\ job = Detect!NoDetJob
        /\ UNCHANGED <<detRuns, detIssues, detAI, detDeaths>>
    BY <1>2, <1>a, <2>1 DEF Detect!AskReplay, Detect!rows, job
  <2> QED
    BY <2>2, NoRow DEF Waits, Detect!NoDetJob, Working, job
<1>3. CASE Detect!EnqueueRun(j)
  <2>1. PICK to \in {"waiting", "ended"} : Detect!Advance(j, [job EXCEPT !.at = to])
    BY <1>3 DEF Detect!EnqueueRun, job
  <2>2. /\ detJobs'[j] = [job EXCEPT !.at = to] /\ job.at = "enqueue"
        /\ UNCHANGED <<detRuns, detIssues, detAI, detDeaths>>
    BY <1>3, <1>a, <2>1 DEF Detect!EnqueueRun, Detect!rows, job
  <2>3. /\ detJobs'[j].at = to /\ detJobs'[j].run = job.run /\ detJobs'[j].key = job.key
        /\ detJobs'[j].replays = job.replays /\ detJobs'[j].config = job.config
    BY <1>0, <2>2 DEF DetJob
  <2>4. job.replays = None => job.config \in Configs
    BY <2>2 DEF Worked, job
  <2> QED
    BY <1>c, <1>d, <2>2, <2>3, <2>4 DEF Waits, Working, job
<1>4. CASE Detect!LoadOriginal(j)
  <2> DEFINE config == detRuns[job.replays].config
  <2>1. /\ job.at = "waiting" /\ job.replays # None
        /\ UNCHANGED <<detRuns, detIssues, detAI, detDeaths>>
    BY <1>4 DEF Detect!LoadOriginal, Detect!rows, job
  <2>2. CASE detRuns[job.replays].status = "none"
    <3>1. Detect!Advance(j, Detect!Ended(job))
      BY <1>4, <2>2 DEF Detect!LoadOriginal, job
    <3>2. detJobs'[j] = Detect!Ended(job)
      BY <1>a, <3>1
    <3> QED
      BY <2>1, <3>2 DEF Waits, Detect!Ended, Detect!NoDetJob, Working, job
  <2>3. CASE detRuns[job.replays].status # "none"
    <3>1. Detect!Advance(j, [job EXCEPT !.at = "start", !.config = config])
      BY <1>4, <2>3 DEF Detect!LoadOriginal, job
    <3>2. detJobs'[j] = [job EXCEPT !.at = "start", !.config = config]
      BY <1>a, <3>1
    <3>3. config \in Configs
      BY <1>0, <2>1, <2>3 DEF Worked, DetJob
    <3>4. /\ detJobs'[j].at = "start" /\ detJobs'[j].run = job.run
          /\ detJobs'[j].key = job.key /\ detJobs'[j].config = config
      BY <1>0, <3>2 DEF DetJob
    <3> QED
      BY <1>c, <1>d, <2>1, <3>3, <3>4 DEF Waits, Working, job
  <2> QED
    BY <2>2, <2>3
<1>5. CASE Detect!StartRun(j)
  <2>1. /\ job.at = "start" \/ (job.at = "waiting" /\ job.replays = None)
        /\ UNCHANGED <<detIssues, detAI, detDeaths>>
    BY <1>5 DEF Detect!StartRun, Detect!DetRuns, DetRuns, job
  <2>2. PICK r \in DetRuns :
          /\ \A q \in DetRuns : detRuns[q].status = "none" <=> q >= r
          /\ detRuns' = [detRuns EXCEPT ![r] = [status |-> "running", config |-> job.config,
                                                whole |-> TRUE]]
          /\ Detect!Advance(j, [job EXCEPT !.at = "discover", !.run = r, !.left = detFound[job.config]])
    BY <1>5 DEF Detect!StartRun, Detect!DetRuns, DetRuns, job
  <2>3. r >= r
    BY NoRow DEF DetRuns
  <2>4. job.config \in Configs
    BY <2>1 DEF Worked, job
  <2>5. detRuns[r].status = "none"
    BY <2>2, <2>3
  <2>6. [status |-> "running", config |-> job.config, whole |-> TRUE] \in RunRow
    BY <2>4 DEF RunRow
  <2>7. detRuns \in [DetRuns -> RunRow]
    BY DEF DetTypeOK, RunRow
  <2>8. /\ detRuns' \in [DetRuns -> RunRow]
        /\ detRuns'[r] = [status |-> "running", config |-> job.config, whole |-> TRUE]
        /\ \A q \in DetRuns : q # r => detRuns'[q] = detRuns[q]
    BY <2>2, <2>6, <2>7
  <2>9. detJobs'[j] = [job EXCEPT !.at = "discover", !.run = r, !.left = detFound[job.config]]
    BY <1>a, <2>2
  <2> QED
    BY <2>1, <2>4, <2>5, <2>8, <2>9 DEF Starts, job
<1>6. CASE Detect!Discover(j)
  <2>1. Detect!Advance(j, [job EXCEPT !.at = "issues"]) /\ job.at = "discover"
    BY <1>6 DEF Detect!Discover, job
  <2> QED
    BY <1>6, <1>a, <2>1 DEF Detect!Discover, Discovers, job
<1>7. CASE Detect!InsertIssue(j)
  <2>0. job.at = "issues" /\ UNCHANGED <<detRuns, detAI, detDeaths>>
    BY <1>7 DEF Detect!InsertIssue, job
  <2>1. PICK k \in job.left :
          IF detIssues[k] # None
          THEN /\ UNCHANGED detIssues
               /\ Detect!Advance(j, [job EXCEPT !.at = "fail"])
          ELSE /\ detIssues' = [detIssues EXCEPT ![k] =
                    [run |-> job.run, status |-> "open", sources |-> FALSE]]
               /\ Detect!Advance(j, [job EXCEPT !.at = "sources", !.left = job.left \ {k}, !.key = k])
    BY <1>7 DEF Detect!InsertIssue, job
  <2>2. CASE detIssues[k] # None
    <3>1. detJobs'[j] = [job EXCEPT !.at = "fail"] /\ UNCHANGED detIssues
      BY <1>a, <2>1, <2>2
    <3>2. /\ detJobs'[j].at = "fail" /\ detJobs'[j].run = job.run /\ detJobs'[j].key = None
          /\ detJobs'[j].replays = job.replays /\ detJobs'[j].config = job.config
      BY <1>0, <1>d, <2>0, <3>1 DEF DetJob
    <3> QED
      BY <2>0, <3>1, <3>2 DEF Stops, Working, job
  <2>3. CASE detIssues[k] = None
    <3>1. detJobs'[j] = [job EXCEPT !.at = "sources", !.left = job.left \ {k}, !.key = k]
      BY <1>a, <2>1, <2>3
    <3> QED
      BY <2>0, <2>1, <2>3, <3>1 DEF Inserts, job
  <2> QED
    BY <2>2, <2>3
<1>8. CASE Detect!InsertSources(j)
  <2>1. Detect!Advance(j, [job EXCEPT !.at = "issues", !.key = None])
    BY <1>8 DEF Detect!InsertSources, job
  <2> QED
    BY <1>8, <1>a, <2>1 DEF Detect!InsertSources, Joins, job
<1>9. CASE Detect!CompleteRun(j)
  <2>1. /\ job.at = "issues" /\ job.left = {} /\ Detect!Advance(j, Detect!Ended(job))
        /\ detRuns' = [detRuns EXCEPT ![job.run].status = "completed"]
        /\ UNCHANGED <<detIssues, detAI, detDeaths>>
    BY <1>9 DEF Detect!CompleteRun, job
  <2>2. detJobs'[j] = [Detect!NoDetJob EXCEPT !.at = "ended"]
    BY <1>a, <2>1 DEF Detect!Ended
  <2>3. Writes(job.run, "completed")
    BY <1>b, <2>1, WritesStatus DEF Working
  <2> QED
    BY <2>1, <2>2, <2>3 DEF Completes, job
<1>10. CASE Detect!Throws(j)
  <2>1. /\ job.at \in Working
        /\ Detect!Advance(j, [job EXCEPT !.at = "fail", !.left = {}, !.key = None])
        /\ detRuns' = [detRuns EXCEPT ![job.run].whole = FALSE]
        /\ UNCHANGED <<detIssues, detAI, detDeaths>>
    BY <1>10 DEF Detect!Throws, Working, job
  <2>2. detJobs'[j] = [job EXCEPT !.at = "fail", !.left = {}, !.key = None]
    BY <1>a, <2>1
  <2>3. /\ detJobs'[j].at = "fail" /\ detJobs'[j].run = job.run /\ detJobs'[j].key = None
        /\ detJobs'[j].replays = job.replays /\ detJobs'[j].config = job.config
    BY <1>0, <2>2 DEF DetJob
  <2>4. Writes(job.run, "running")
    BY <1>b, <2>1, WritesMark
  <2> QED
    BY <2>1, <2>3, <2>4 DEF Stops, job
<1>11. CASE Detect!FailRun(j)
  <2>0. /\ job.at = "fail" /\ job.at \in Working
        /\ UNCHANGED <<detIssues, detAI, detDeaths>> /\ detDeaths <= MaxDeaths
    BY <1>11, NoRow DEF Detect!FailRun, Working, job, DetTypeOK
  <2>1. CASE /\ detRuns' = [detRuns EXCEPT ![job.run].status = "failed"]
             /\ Detect!Advance(j, Detect!Ended(job))
    <3>1. detJobs'[j] = Detect!Ended(job) /\ Writes(job.run, "failed")
      BY <1>a, <1>b, <2>0, <2>1, WritesStatus
    <3> QED
      BY <2>0, <3>1 DEF Leaves, Detect!Ended, Detect!NoDetJob, job
  <2>2. CASE /\ detRuns' = [detRuns EXCEPT ![job.run].whole = FALSE]
             /\ Detect!Advance(j, Detect!Ended(job))
    <3>1. detJobs'[j] = Detect!Ended(job) /\ Writes(job.run, "running") /\ ~detRuns'[job.run].whole
      BY <1>a, <1>b, <2>0, <2>2, WritesMark
    <3> QED
      BY <2>0, <3>1 DEF Leaves, Detect!Ended, Detect!NoDetJob, job
  <2>3. CASE /\ detRuns' = [detRuns EXCEPT ![job.run].whole = FALSE]
             /\ job.replays = None
             /\ Detect!Advance(j, [Detect!NoDetJob EXCEPT !.at = "waiting", !.config = job.config])
    <3>1. /\ detJobs'[j] = [Detect!NoDetJob EXCEPT !.at = "waiting", !.config = job.config]
          /\ Writes(job.run, "running") /\ ~detRuns'[job.run].whole
      BY <1>a, <1>b, <2>0, <2>3, WritesMark
    <3>2. job.config \in Configs
      BY <2>0, <2>3 DEF Worked, job
    <3> QED
      BY <2>0, <3>1, <3>2 DEF Leaves, Detect!NoDetJob, job
  <2> QED
    BY <1>11, <2>1, <2>2, <2>3 DEF Detect!FailRun, job
<1>12. CASE Detect!Dies(j)
  <2> DEFINE config == IF job.replays = None THEN job.config ELSE None
  <2>1. /\ job.at \in Working
        /\ Detect!Advance(j, [Detect!NoDetJob EXCEPT !.at = "waiting", !.replays = job.replays, !.config = config])
        /\ detRuns' = [detRuns EXCEPT ![job.run].whole = FALSE]
        /\ detDeaths' = detDeaths + 1 /\ detDeaths < MaxDeaths
        /\ UNCHANGED <<detIssues, detAI>>
    BY <1>12 DEF Detect!Dies, Working, job
  <2>2. detJobs'[j] = [Detect!NoDetJob EXCEPT !.at = "waiting", !.replays = job.replays, !.config = config]
    BY <1>a, <2>1
  <2>3. /\ detJobs'[j].at = "waiting" /\ detJobs'[j].run = None /\ detJobs'[j].key = None
        /\ detJobs'[j].replays = job.replays /\ detJobs'[j].config = config
    BY <2>2 DEF Detect!NoDetJob
  <2>4. Writes(job.run, "running") /\ ~detRuns'[job.run].whole
    BY <1>b, <2>1, WritesMark
  <2>5. job.replays = None => job.config \in Configs
    BY <2>1 DEF Worked, job
  <2>6. detDeaths' <= MaxDeaths
    BY <2>1, NoRow DEF DetTypeOK
  <2> QED
    BY <2>1, <2>3, <2>4, <2>5, <2>6 DEF Leaves, job
<1> QED
  BY <1>1, <1>2, <1>3, <1>4, <1>5, <1>6, <1>7, <1>8, <1>9, <1>10, <1>11, <1>12 DEF Detect!Process

(***************************************************************************)
(* Steps of jobs preserve the invariant                                    *)
(***************************************************************************)
LEMMA ProcessType ==
  ASSUME DetTypeOK, Worked, NEW j \in DetJobs, InsertedBy(j), Detect!Process(j)
  PROVE  DetTypeOK'
<1>0. detRuns \in [DetRuns -> RunRow] /\ detJobs[j] \in DetJob
  BY DEF DetTypeOK, RunRow
<1>1. detRuns' \in [DetRuns -> RunRow]
  BY <1>0, ProcessKinds DEF Waits, Starts, Discovers, Inserts, Joins, Completes, Stops, Leaves,
                            Writes
<1>2. detIssues' \in [DetKeys -> Issue \cup {None}]
  <2>1. CASE Inserts(j)
    <3>1. PICK k \in detJobs[j].left :
            detIssues' = [detIssues EXCEPT ![k] =
                            [run |-> detJobs[j].run, status |-> "open", sources |-> FALSE]]
      BY <2>1 DEF Inserts
    <3>2. detJobs[j].run \in DetRuns /\ k \in DetKeys
      BY <1>0, <2>1, <3>1 DEF Inserts, Worked, Working, DetJob
    <3>3. [run |-> detJobs[j].run, status |-> "open", sources |-> FALSE] \in Issue
      BY <3>2 DEF Issue, Statuses
    <3> QED
      BY <3>1, <3>3 DEF DetTypeOK
  <2>2. CASE Joins(j)
    <3> DEFINE k == detJobs[j].key
    <3>1. detIssues' = [detIssues EXCEPT ![k] = [detIssues[k] EXCEPT !.sources = TRUE]]
      BY <2>2 DEF Joins
    <3>2. k \in DetKeys
      BY <1>0, <2>2 DEF Joins, Worked, DetJob
    <3>3. detIssues[k] \in Issue
      BY <2>2, <3>2, NoRow DEF Joins, InsertedBy, DetTypeOK
    <3>4. [detIssues[k] EXCEPT !.sources = TRUE] \in Issue
      BY <3>3 DEF Issue
    <3> QED
      BY <3>1, <3>4 DEF DetTypeOK
  <2>3. CASE UNCHANGED detIssues
    BY <2>3 DEF DetTypeOK
  <2> QED
    BY <2>1, <2>2, <2>3, ProcessKinds DEF Waits, Starts, Discovers, Completes, Stops, Leaves
<1>3. detAI' \in {None} \cup Discovery
  <2>1. [status |-> "pending", promoted |-> FALSE] \in Discovery
    BY DEF Discovery
  <2>2. detAI' = detAI \/ detAI' = [status |-> "pending", promoted |-> FALSE]
    BY ProcessKinds DEF Waits, Starts, Discovers, Inserts, Joins, Completes, Stops, Leaves
  <2> QED
    BY <2>1, <2>2 DEF DetTypeOK
<1>4. detDeaths' \in 0..MaxDeaths
  <2>1. detDeaths' = detDeaths \/ (detDeaths' = detDeaths + 1 /\ detDeaths' <= MaxDeaths)
    BY ProcessKinds DEF Waits, Starts, Discovers, Inserts, Joins, Completes, Stops, Leaves
  <2> QED
    BY <2>1, NoRow DEF DetTypeOK
<1> QED
  BY <1>1, <1>2, <1>3, <1>4, ProcessFrame DEF DetTypeOK, RunRow

LEMMA ProcessWorked ==
  ASSUME DetTypeOK, Worked, Filed, NEW j \in DetJobs, Detect!Process(j)
  PROVE  Worked'
<1>0. detJobs[j] \in DetJob
  BY DEF DetTypeOK
<1>1. CASE Waits(j)
  BY <1>1, ProcessFrame, NoRow DEF Waits, Worked, Working
<1>2. CASE Starts(j)
  <2>1. PICK r \in DetRuns :
          /\ detJobs'[j] = [detJobs[j] EXCEPT !.at = "discover", !.run = r,
                              !.left = detFound[detJobs[j].config]]
          /\ detRuns[r].status = "none"
          /\ detRuns'[r] = [status |-> "running", config |-> detJobs[j].config, whole |-> TRUE]
          /\ \A q \in DetRuns : q # r => detRuns'[q] = detRuns[q]
    BY <1>2 DEF Starts
  <2>2. /\ detJobs'[j].at = "discover" /\ detJobs'[j].run = r
        /\ detJobs'[j].config = detJobs[j].config /\ detJobs'[j].key = detJobs[j].key
        /\ detJobs[j].config \in Configs /\ detJobs[j].at \in {"start", "waiting"}
    BY <1>0, <1>2, <2>1 DEF DetJob, Starts
  <2>3. \A i \in DetJobs : i # j => detJobs'[i] = detJobs[i] /\ detJobs[i].run # r
    BY <2>1, ProcessFrame, NoRow DEF Worked
  <2>4. detRuns'[r].status = "running" /\ detRuns'[r].config = detJobs[j].config
    BY <2>1
  <2>5. ASSUME NEW i \in DetJobs, i # j, detJobs[i].run # None
        PROVE  detRuns'[detJobs[i].run] = detRuns[detJobs[i].run] /\ detJobs[i].run # r
    <3>1. detJobs[i].run \in DetRuns
      BY <2>5 DEF Worked
    <3> QED
      BY <2>1, <2>3, <2>5, <3>1
  <2>6. ASSUME NEW i \in DetJobs, i # j
        PROVE  /\ detJobs'[i] = detJobs[i]
               /\ detJobs[i].at \in Working =>
                    /\ detRuns'[detJobs[i].run].status = "running"
                    /\ detRuns'[detJobs[i].run].config = detRuns[detJobs[i].run].config
    BY <2>3, <2>5, <2>6, NoRow DEF Worked
  <2>7. \A q \in DetRuns : detRuns'[q].status # "none" => detRuns'[q].config \in Configs
    BY <2>1, <2>2, <2>4 DEF Worked
  <2>8. \A i, l \in DetJobs :
          detJobs'[i].run = detJobs'[l].run /\ detJobs'[i].run # None => i = l
    BY <2>2, <2>3 DEF Worked
  <2>9. detJobs[j].key = None
    BY <2>2 DEF Worked
  <2>10. ASSUME NEW i \in DetJobs
         PROVE  /\ detJobs'[i].at \in Working =>
                     /\ detJobs'[i].run \in DetRuns
                     /\ detRuns'[detJobs'[i].run].status = "running"
                /\ detJobs'[i].at \notin Working => detJobs'[i].run = None
                /\ detJobs'[i].at \in {"discover", "issues", "sources"} =>
                     detRuns'[detJobs'[i].run].config = detJobs'[i].config
                /\ detJobs'[i].at = "start" => detJobs'[i].config \in Configs
                /\ detJobs'[i].at \in {"enqueue", "waiting"} \cup Working
                       /\ detJobs'[i].replays = None
                     => detJobs'[i].config \in Configs
                /\ detJobs'[i].at = "sources" <=> detJobs'[i].key # None
    <3>1. CASE i = j
      BY <2>2, <2>4, <2>9, <3>1 DEF Working
    <3>2. CASE i # j
      BY <2>6, <3>2 DEF Worked, Working
    <3> QED
      BY <3>1, <3>2
  <2> QED
    BY <2>7, <2>8, <2>10 DEF Worked
<1>3. ASSUME UNCHANGED detRuns,
             detJobs[j].at \in {"discover", "issues", "sources"},
             detJobs'[j].at \in {"issues", "sources"},
             detJobs'[j].run = detJobs[j].run, detJobs'[j].config = detJobs[j].config,
             detJobs'[j].replays = detJobs[j].replays,
             detJobs'[j].at = "sources" <=> detJobs'[j].key # None
      PROVE  Worked'
  BY <1>3, ProcessFrame DEF Worked, Working
<1>4. CASE Discovers(j)
  BY <1>0, <1>3, <1>4 DEF Discovers, DetJob, Worked
<1>5. CASE Inserts(j)
  BY <1>0, <1>3, <1>5, NoRow DEF Inserts, DetJob
<1>6. CASE Joins(j)
  BY <1>0, <1>3, <1>6 DEF Joins, DetJob
<1>7. CASE Completes(j) \/ Leaves(j)
  <2>1. /\ detJobs[j].at \in Working /\ detJobs'[j].at \in {"ended", "waiting"}
        /\ detJobs'[j].run = None /\ detJobs'[j].key = None
        /\ detJobs'[j].at = "waiting" /\ detJobs'[j].replays = None
             => detJobs'[j].config \in Configs
    BY <1>7 DEF Completes, Leaves, Detect!NoDetJob, Working
  <2>2. /\ \A q \in DetRuns : q # detJobs[j].run => detRuns'[q] = detRuns[q]
        /\ detRuns'[detJobs[j].run].config = detRuns[detJobs[j].run].config
        /\ detRuns[detJobs[j].run].status = "running" /\ detJobs[j].run \in DetRuns
    BY <1>7, <2>1 DEF Completes, Leaves, Writes, Worked
  <2>3. \A i \in DetJobs : i # j => detJobs'[i] = detJobs[i] /\ detJobs[i].run # detJobs[j].run
    BY <2>2, ProcessFrame, NoRow DEF Worked
  <2> QED
    BY <2>1, <2>2, <2>3 DEF Worked, Working
<1>8. CASE Stops(j)
  <2>1. /\ detRuns' = detRuns \/ Writes(detJobs[j].run, "running")
        /\ detJobs[j].run \in DetRuns /\ detRuns[detJobs[j].run].status = "running"
    BY <1>8 DEF Stops, Worked
  <2>2. \A q \in DetRuns :
          detRuns'[q].status = detRuns[q].status /\ detRuns'[q].config = detRuns[q].config
    BY <2>1 DEF Writes
  <2>3. /\ detJobs[j].at \in Working /\ detJobs'[j].at = "fail"
        /\ detJobs'[j].run = detJobs[j].run /\ detJobs'[j].key = None
    BY <1>8 DEF Stops
  <2>4. detJobs'[j].replays = None => detJobs'[j].config \in Configs
    BY <1>8 DEF Stops, Worked
  <2> QED
    BY <2>1, <2>2, <2>3, <2>4, ProcessFrame DEF Worked, Working
<1> QED
  BY <1>1, <1>2, <1>4, <1>5, <1>6, <1>7, <1>8, ProcessKinds

LEMMA ProcessInserted ==
  ASSUME DetTypeOK, Worked, Filed, NEW j \in DetJobs, Detect!Process(j), NEW i \in DetJobs,
         InsertedBy(i), InsertedBy(j)
  PROVE  InsertedBy(i)'
<1> DEFINE left == detJobs[j].left
           mine == detJobs[j].run
           key == detJobs[j].key
<1>a. ASSUME NEW l \in DetJobs, detJobs[l].at \in {"discover", "issues", "sources"}
      PROVE  /\ detFound[detJobs[l].config] \subseteq DetKeys
             /\ detJobs[l].key # None => detJobs[l].key \in DetKeys
  <2>1. detJobs[l].config = detRuns[detJobs[l].run].config /\ detJobs[l].run \in DetRuns
    BY <1>a DEF Worked, Working
  <2>2. detRuns[detJobs[l].run].status = "running"
    BY <1>a DEF Worked, Working
  <2>3. detJobs[l].config \in Configs
    BY <2>1, <2>2 DEF Worked
  <2>4. detJobs[l] \in DetJob
    BY DEF DetTypeOK
  <2> QED
    BY <2>3, <2>4 DEF DetTypeOK, DetJob
<1>0. /\ detJobs[j] \in DetJob /\ detFound' = detFound
      /\ i # j => detJobs'[i] = detJobs[i]
      /\ DOMAIN detIssues = DetKeys
  BY ProcessFrame DEF DetTypeOK
<1>1. CASE i # j /\ UNCHANGED detIssues
  BY <1>0, <1>1 DEF InsertedBy
<1>2. CASE i = j /\ (Waits(j) \/ Completes(j) \/ Stops(j) \/ Leaves(j))
  <2>1. detJobs'[j].at \notin {"discover", "issues", "sources"}
    BY <1>2 DEF Waits, Completes, Stops, Leaves, Working, Detect!NoDetJob
  <2> QED
    BY <1>2, <2>1 DEF InsertedBy
<1>3. CASE i = j /\ Starts(j)
  <2>1. PICK r \in DetRuns :
          /\ detJobs'[j] = [detJobs[j] EXCEPT !.at = "discover", !.run = r,
                              !.left = detFound[detJobs[j].config]]
          /\ detRuns[r].status = "none" /\ UNCHANGED detIssues
          /\ detJobs[j].at \in {"start", "waiting"}
    BY <1>3 DEF Starts
  <2>2. /\ detJobs'[j].left = detFound[detJobs[j].config] /\ detJobs'[j].run = r
        /\ detJobs'[j].config = detJobs[j].config /\ detJobs'[j].key = None
    BY <1>0, <2>1 DEF DetJob, Worked
  <2>3. \A k \in DetKeys : detIssues[k] # None => detIssues[k].run # r
    BY <2>1 DEF Filed
  <2> QED
    BY <1>0, <1>3, <2>1, <2>2, <2>3 DEF InsertedBy
<1>4. CASE i = j /\ Discovers(j)
  <2>1. /\ detJobs'[j].left = left /\ detJobs'[j].run = mine /\ detJobs'[j].key = key
        /\ detJobs'[j].config = detJobs[j].config /\ detJobs[j].at = "discover"
        /\ UNCHANGED detIssues
    BY <1>0, <1>4 DEF Discovers, DetJob
  <2> QED
    BY <1>0, <1>4, <2>1 DEF InsertedBy
<1>5. CASE Inserts(j)
  <2>1. PICK k \in left :
          /\ detJobs'[j] = [detJobs[j] EXCEPT !.at = "sources", !.left = left \ {k}, !.key = k]
          /\ detIssues[k] = None /\ detJobs[j].at = "issues"
          /\ detIssues' = [detIssues EXCEPT ![k] =
                             [run |-> mine, status |-> "open", sources |-> FALSE]]
    BY <1>5 DEF Inserts
  <2>2. /\ detJobs'[j].left = left \ {k} /\ detJobs'[j].key = k
        /\ detJobs'[j].run = mine /\ detJobs'[j].config = detJobs[j].config
        /\ key = None /\ k \in DetKeys /\ mine \in DetRuns
    BY <1>0, <2>1 DEF DetJob, Worked, Working
  <2>3. [run |-> mine, status |-> "open", sources |-> FALSE] \in Issue
    BY <2>2 DEF Issue, Statuses
  <2>4. /\ detIssues'[k] # None /\ detIssues'[k].run = mine
        /\ \A l \in DetKeys : l # k => detIssues'[l] = detIssues[l]
    BY <1>0, <2>1, <2>2, <2>3, NoRow
  <2>5. CASE i = j
    <3>1. /\ left \subseteq detFound[detJobs[j].config]
          /\ \A l \in detFound[detJobs[j].config] \ left :
               detIssues[l] # None /\ detIssues[l].run = mine
          /\ \A l \in DetKeys : detIssues[l] # None /\ detIssues[l].run = mine =>
               detIssues[l].sources
      BY <2>1, <2>2, NoRow DEF InsertedBy
    <3>2. \A l \in detFound[detJobs[j].config] \ (left \ {k}) :
            detIssues'[l] # None /\ detIssues'[l].run = mine
      <4>1. ASSUME NEW l \in detFound[detJobs[j].config] \ (left \ {k})
            PROVE  detIssues'[l] # None /\ detIssues'[l].run = mine
        <5>1. l # k => detIssues'[l] = detIssues[l]
          BY <1>0, <2>1
        <5> QED
          BY <2>4, <3>1, <5>1
      <4> QED
        BY <4>1
    <3>3. \A l \in DetKeys : detIssues'[l] # None /\ detIssues'[l].run = mine =>
               detIssues'[l].sources \/ l = k
      BY <2>4, <3>1
    <3> QED
      BY <1>0, <2>2, <2>4, <2>5, <3>1, <3>2, <3>3 DEF InsertedBy
  <2>6. CASE i # j
    <3>1. ASSUME detJobs[i].at \in {"discover", "issues", "sources"}
          PROVE  /\ detJobs[i].left \subseteq detFound[detJobs[i].config]
                 /\ \A l \in detFound[detJobs[i].config] \ detJobs[i].left :
                      detIssues'[l] # None /\ detIssues'[l].run = detJobs[i].run
                 /\ \A l \in DetKeys : detIssues'[l] # None /\ detIssues'[l].run = detJobs[i].run =>
                      detIssues'[l].sources \/ l = detJobs[i].key
                 /\ detJobs[i].key # None => detIssues'[detJobs[i].key] # None
      <4>1. detJobs[i].run # mine
        BY <2>2, <2>6, NoRow DEF Worked
      <4>3. /\ detJobs[i].left \subseteq detFound[detJobs[i].config]
            /\ \A l \in detFound[detJobs[i].config] \ detJobs[i].left :
                 detIssues[l] # None /\ detIssues[l].run = detJobs[i].run
            /\ \A l \in DetKeys : detIssues[l] # None /\ detIssues[l].run = detJobs[i].run =>
                 detIssues[l].sources \/ l = detJobs[i].key
            /\ detJobs[i].key # None => detIssues[detJobs[i].key] # None
        BY <3>1 DEF InsertedBy
      <4>7. /\ detFound[detJobs[i].config] \subseteq DetKeys
            /\ detJobs[i].key # None => detJobs[i].key \in DetKeys
        BY <1>a, <3>1
      <4>4. \A l \in detFound[detJobs[i].config] \ detJobs[i].left :
                 detIssues'[l] # None /\ detIssues'[l].run = detJobs[i].run
        BY <2>1, <2>4, <4>3, <4>7
      <4>5. \A l \in DetKeys : detIssues'[l] # None /\ detIssues'[l].run = detJobs[i].run =>
                      detIssues'[l].sources \/ l = detJobs[i].key
        BY <2>4, <4>1, <4>3
      <4>6. detJobs[i].key # None => detIssues'[detJobs[i].key] # None
        BY <2>1, <2>4, <4>3, <4>7
      <4> QED
        BY <4>3, <4>4, <4>5, <4>6
    <3> QED
      BY <1>0, <2>6, <3>1 DEF InsertedBy
  <2> QED
    BY <2>5, <2>6
<1>6. CASE Joins(j)
  <2>1. /\ detJobs[j].at = "sources"
        /\ detJobs'[j] = [detJobs[j] EXCEPT !.at = "issues", !.key = None]
        /\ detIssues' = [detIssues EXCEPT ![key].sources = TRUE]
    BY <1>6 DEF Joins
  <2>2. /\ detJobs'[j].left = left /\ detJobs'[j].key = None
        /\ detJobs'[j].run = mine /\ detJobs'[j].config = detJobs[j].config
        /\ key \in DetKeys
    BY <1>0, <2>1 DEF DetJob, Worked
  <2>3. detIssues[key] \in Issue
    BY <2>1, <2>2, NoRow DEF InsertedBy, DetTypeOK
  <2>4. detIssues'[key] = [detIssues[key] EXCEPT !.sources = TRUE]
    BY <1>0, <2>1, <2>2
  <2>5. /\ [detIssues[key] EXCEPT !.sources = TRUE] \in Issue
        /\ [detIssues[key] EXCEPT !.sources = TRUE].run = detIssues[key].run
        /\ [detIssues[key] EXCEPT !.sources = TRUE].sources
    BY <2>3 DEF Issue
  <2>6. /\ detIssues'[key] # None /\ detIssues[key] # None
        /\ detIssues'[key].run = detIssues[key].run /\ detIssues'[key].sources
        /\ \A l \in DetKeys : l # key => detIssues'[l] = detIssues[l]
    BY <1>0, <2>1, <2>2, <2>3, <2>4, <2>5, NoRow
  <2>7. \A l \in DetKeys : detIssues'[l] # None <=> detIssues[l] # None
    BY <2>6
  <2>8. \A l \in DetKeys : detIssues'[l].run = detIssues[l].run
    BY <2>6
  <2>9. \A l \in DetKeys : detIssues[l].sources => detIssues'[l].sources
    BY <2>6
  <2>10. CASE i = j
    <3>1. /\ left \subseteq detFound[detJobs[j].config]
          /\ \A l \in detFound[detJobs[j].config] \ left :
               detIssues'[l] # None /\ detIssues'[l].run = mine
      BY <1>a, <2>1, <2>7, <2>8, <2>10 DEF InsertedBy
    <3>2. \A l \in DetKeys : detIssues'[l] # None /\ detIssues'[l].run = mine =>
            detIssues'[l].sources
      <4>1. \A l \in DetKeys : detIssues[l] # None /\ detIssues[l].run = mine =>
              detIssues[l].sources \/ l = key
        BY <2>1, <2>10 DEF InsertedBy
      <4>2. ASSUME NEW l \in DetKeys, detIssues'[l] # None, detIssues'[l].run = mine
            PROVE  detIssues'[l].sources
        BY <2>6, <2>7, <2>8, <2>9, <4>1, <4>2
      <4> QED
        BY <4>2
    <3> QED
      BY <1>0, <2>2, <2>10, <3>1, <3>2 DEF InsertedBy
  <2>11. CASE i # j
    <3>1. ASSUME detJobs[i].at \in {"discover", "issues", "sources"}
          PROVE  /\ detJobs[i].left \subseteq detFound[detJobs[i].config]
                 /\ \A l \in detFound[detJobs[i].config] \ detJobs[i].left :
                      detIssues'[l] # None /\ detIssues'[l].run = detJobs[i].run
                 /\ \A l \in DetKeys : detIssues'[l] # None /\ detIssues'[l].run = detJobs[i].run =>
                      detIssues'[l].sources \/ l = detJobs[i].key
                 /\ detJobs[i].key # None => detIssues'[detJobs[i].key] # None
      BY <1>a, <2>7, <2>8, <2>9, <3>1 DEF InsertedBy
    <3> QED
      BY <1>0, <2>11, <3>1 DEF InsertedBy
  <2> QED
    BY <2>10, <2>11
<1> QED
  <2>1. Waits(j) \/ Starts(j) \/ Discovers(j) \/ Completes(j) \/ Stops(j) \/ Leaves(j)
          => UNCHANGED detIssues
    BY DEF Waits, Starts, Discovers, Completes, Stops, Leaves
  <2>2. CASE Waits(j) \/ Completes(j) \/ Stops(j) \/ Leaves(j)
    BY <1>1, <1>2, <2>1, <2>2
  <2>3. CASE Starts(j) \/ Discovers(j)
    BY <1>1, <1>3, <1>4, <2>1, <2>3
  <2> QED
    BY <1>5, <1>6, <2>2, <2>3, ProcessKinds

\* An issue keeps its run, its status and its sources when jobs go on; a new one is
\* open.
LEMMA ProcessIssues ==
  ASSUME DetTypeOK, Worked, NEW j \in DetJobs, InsertedBy(j), Detect!Process(j), NEW k \in DetKeys
  PROVE  /\ detIssues[k] # None =>
              /\ detIssues'[k] # None /\ detIssues'[k].run = detIssues[k].run
              /\ detIssues'[k].status = detIssues[k].status
              /\ detIssues[k].sources => detIssues'[k].sources
         /\ detIssues[k] = None /\ detIssues'[k] # None =>
              /\ Inserts(j) /\ detJobs[j].run \in DetRuns
              /\ detIssues'[k].run = detJobs[j].run /\ detIssues'[k].status = "open"
<1>0. detJobs[j] \in DetJob /\ DOMAIN detIssues = DetKeys
  BY DEF DetTypeOK
<1>1. CASE UNCHANGED detIssues
  BY <1>1
<1>2. CASE Inserts(j)
  <2>1. PICK l \in detJobs[j].left :
          /\ detIssues[l] = None /\ detJobs[j].at = "issues"
          /\ detIssues' = [detIssues EXCEPT ![l] =
                             [run |-> detJobs[j].run, status |-> "open", sources |-> FALSE]]
    BY <1>2 DEF Inserts
  <2>2. detJobs[j].run \in DetRuns
    BY <2>1 DEF Worked, Working
  <2> QED
    BY <1>0, <1>2, <2>1, <2>2
<1>3. CASE Joins(j)
  <2>1. /\ detJobs[j].at = "sources"
        /\ detIssues' = [detIssues EXCEPT ![detJobs[j].key].sources = TRUE]
    BY <1>3 DEF Joins
  <2>2. CASE k # detJobs[j].key
    BY <1>0, <2>1, <2>2
  <2>3. CASE k = detJobs[j].key
    <3>1. detIssues[k] \in Issue
      BY <2>1, <2>3, NoRow DEF InsertedBy, DetTypeOK
    <3>2. detIssues'[k] = [detIssues[k] EXCEPT !.sources = TRUE]
      BY <1>0, <2>1, <2>3
    <3>3. /\ [detIssues[k] EXCEPT !.sources = TRUE] \in Issue
          /\ [detIssues[k] EXCEPT !.sources = TRUE].run = detIssues[k].run
          /\ [detIssues[k] EXCEPT !.sources = TRUE].status = detIssues[k].status
          /\ [detIssues[k] EXCEPT !.sources = TRUE].sources
      BY <3>1 DEF Issue
    <3> QED
      BY <3>1, <3>2, <3>3, NoRow
  <2> QED
    BY <2>2, <2>3
<1> QED
  <2>1. Waits(j) \/ Starts(j) \/ Discovers(j) \/ Completes(j) \/ Stops(j) \/ Leaves(j)
          => UNCHANGED detIssues
    BY DEF Waits, Starts, Discovers, Completes, Stops, Leaves
  <2> QED
    BY <1>1, <1>2, <1>3, <2>1, ProcessKinds

\* A run keeps its configuration; it comes to say something else from 'running', by
\* the job that works on it.
LEMMA ProcessRuns ==
  ASSUME DetTypeOK, Worked, NEW j \in DetJobs, Detect!Process(j), NEW r \in DetRuns
  PROVE  /\ detRuns[r].status # "none" =>
              detRuns'[r].status # "none" /\ detRuns'[r].config = detRuns[r].config
         /\ detRuns'[r].status = "completed" =>
              detRuns[r].status = "completed" \/ (Completes(j) /\ detJobs[j].run = r)
<1>1. CASE UNCHANGED detRuns
  BY <1>1
<1>2. CASE Starts(j)
  <2>1. PICK q \in DetRuns :
          /\ detRuns[q].status = "none"
          /\ detRuns'[q].status = "running"
          /\ \A p \in DetRuns : p # q => detRuns'[p] = detRuns[p]
    BY <1>2 DEF Starts
  <2> QED
    BY <2>1
<1>3. CASE Completes(j)
  BY <1>3 DEF Completes, Writes
<1>4. ASSUME NEW status \in {"running", "failed"}, Writes(detJobs[j].run, status)
      PROVE  /\ detRuns[r].status # "none" =>
                   detRuns'[r].status # "none" /\ detRuns'[r].config = detRuns[r].config
             /\ detRuns'[r].status = "completed" => detRuns[r].status = "completed"
  BY <1>4 DEF Writes
<1>5. CASE Stops(j)
  BY <1>1, <1>4, <1>5 DEF Stops
<1>6. CASE Leaves(j)
  BY <1>4, <1>6 DEF Leaves
<1> QED
  <2>1. Waits(j) \/ Discovers(j) \/ Inserts(j) \/ Joins(j) => UNCHANGED detRuns
    BY DEF Waits, Discovers, Inserts, Joins
  <2> QED
    BY <1>1, <1>2, <1>3, <1>5, <1>6, <2>1, ProcessKinds

LEMMA ProcessFiled ==
  ASSUME DetTypeOK, Worked, Filed, NEW j \in DetJobs, InsertedBy(j), Detect!Process(j)
  PROVE  Filed'
<1> SUFFICES ASSUME NEW k \in DetKeys, detIssues'[k] # None
             PROVE  detRuns'[detIssues'[k].run].status # "none"
  BY DEF Filed
<1>1. CASE detIssues[k] # None
  <2>1. detIssues[k].run \in DetRuns /\ detRuns[detIssues[k].run].status # "none"
    BY <1>1, NoRow DEF Filed, DetTypeOK, Issue
  <2> QED
    BY <1>1, <2>1, ProcessIssues, ProcessRuns
<1>2. CASE detIssues[k] = None
  <2>1. /\ detIssues'[k].run = detJobs[j].run /\ detJobs[j].run \in DetRuns
        /\ detJobs[j].at = "issues"
    BY <1>2, ProcessIssues DEF Inserts
  <2>2. detRuns[detJobs[j].run].status = "running"
    BY <2>1 DEF Worked, Working
  <2> QED
    BY <2>1, <2>2, ProcessRuns
<1> QED
  BY <1>1, <1>2

LEMMA ProcessWhole ==
  ASSUME DetTypeOK, Worked, CompletedIsWhole, NEW j \in DetJobs, InsertedBy(j), Detect!Process(j)
  PROVE  CompletedIsWhole'
<1> SUFFICES ASSUME NEW r \in DetRuns, detRuns'[r].status = "completed",
                    NEW k \in detFound'[detRuns'[r].config]
             PROVE  detIssues'[k] # None /\ detIssues'[k].run = r /\ detIssues'[k].sources
  BY DEF CompletedIsWhole
<1>1. detFound' = detFound
  BY ProcessFrame
<1>2. CASE detRuns[r].status = "completed"
  <2>1. k \in detFound[detRuns[r].config] /\ k \in DetKeys
    BY <1>1, <1>2, ProcessRuns DEF Worked, DetTypeOK
  <2>2. detIssues[k] # None /\ detIssues[k].run = r /\ detIssues[k].sources
    BY <1>2, <2>1 DEF CompletedIsWhole
  <2> QED
    BY <2>1, <2>2, ProcessIssues
<1>3. CASE Completes(j) /\ detJobs[j].run = r
  <2>1. /\ detJobs[j].at = "issues" /\ detJobs[j].left = {} /\ UNCHANGED detIssues
        /\ detRuns[r].status = "running" /\ detRuns[r].config = detJobs[j].config
        /\ detJobs[j].key = None
    BY <1>3 DEF Completes, Worked, Working
  <2>2. k \in detFound[detJobs[j].config] /\ k \in DetKeys
    BY <1>1, <2>1, ProcessRuns DEF Worked, DetTypeOK
  <2> QED
    BY <1>3, <2>1, <2>2, NoRow DEF InsertedBy
<1> QED
  BY <1>2, <1>3, ProcessRuns

LEMMA ProcessCauses ==
  ASSUME DetTypeOK, Worked, RunningHasACause, NEW j \in DetJobs, InsertedBy(j), Detect!Process(j)
  PROVE  RunningHasACause'
<1>1. ASSUME NEW r \in DetRuns, detRuns'[r].status = "running", Owner(r)' = {}
      PROVE  ~detRuns'[r].whole
  <2>0. \A i \in DetJobs : detJobs'[i].run # r
    BY <1>1 DEF Owner
  <2>1. \A i \in DetJobs : i # j => detJobs[i].run # r
    BY <2>0, ProcessFrame
  <2>2. detJobs[j].run # r /\ detRuns'[r] = detRuns[r] => ~detRuns'[r].whole
    BY <1>1, <2>1 DEF RunningHasACause, Owner
  <2>3. CASE Waits(j)
    BY <2>2, <2>3, NoRow DEF Waits, Worked
  <2>4. CASE Starts(j)
    <3>1. PICK q \in DetRuns :
            /\ detJobs'[j] = [detJobs[j] EXCEPT !.at = "discover", !.run = q,
                                !.left = detFound[detJobs[j].config]]
            /\ detJobs[j].at \in {"start", "waiting"}
            /\ \A p \in DetRuns : p # q => detRuns'[p] = detRuns[p]
      BY <2>4 DEF Starts
    <3>2. detJobs'[j].run = q
      BY <3>1 DEF DetTypeOK, DetJob
    <3>3. detJobs[j].run = None
      BY <3>1 DEF Worked, Working
    <3> QED
      BY <2>0, <2>2, <3>1, <3>2, <3>3, NoRow
  <2>5. CASE Discovers(j) \/ Inserts(j) \/ Joins(j)
    <3>1. detJobs'[j].run = detJobs[j].run /\ UNCHANGED detRuns
      BY <2>5 DEF Discovers, Inserts, Joins, DetTypeOK, DetJob
    <3> QED
      BY <2>0, <2>2, <3>1
  <2>6. CASE Completes(j)
    BY <1>1, <2>2, <2>6 DEF Completes, Writes
  <2>7. CASE Stops(j)
    <3>1. detJobs'[j].run = detJobs[j].run /\ (detRuns' = detRuns \/ Writes(detJobs[j].run, "running"))
      BY <2>7 DEF Stops
    <3> QED
      BY <2>0, <2>2, <3>1 DEF Writes
  <2>8. CASE Leaves(j)
    <3>1. \/ Writes(detJobs[j].run, "failed")
          \/ Writes(detJobs[j].run, "running") /\ ~detRuns'[detJobs[j].run].whole
      BY <2>8 DEF Leaves
    <3> QED
      BY <1>1, <2>2, <3>1 DEF Writes
  <2> QED
    BY <2>3, <2>4, <2>5, <2>6, <2>7, <2>8, ProcessKinds
<1>2. ASSUME NEW k \in DetKeys, detIssues'[k] # None, ~detIssues'[k].sources
      PROVE  detRuns'[detIssues'[k].run].status # "completed"
  <2>1. CASE detIssues[k] # None
    <3> DEFINE r == detIssues[k].run
    <3>1. /\ r \in DetRuns /\ detRuns[r].status # "completed"
          /\ detIssues'[k].run = r /\ ~detIssues[k].sources
      BY <1>2, <2>1, ProcessIssues, NoRow DEF RunningHasACause, DetTypeOK, Issue
    <3>2. ~(Completes(j) /\ detJobs[j].run = r)
      BY <2>1, <3>1, NoRow DEF Completes, InsertedBy, Worked
    <3> QED
      BY <3>1, <3>2, ProcessRuns
  <2>2. CASE detIssues[k] = None
    <3>1. /\ detIssues'[k].run = detJobs[j].run /\ detJobs[j].run \in DetRuns
          /\ detJobs[j].at = "issues" /\ UNCHANGED detRuns
      BY <1>2, <2>2, ProcessIssues DEF Inserts
    <3>2. detRuns[detJobs[j].run].status = "running"
      BY <3>1 DEF Worked, Working
    <3> QED
      BY <3>1, <3>2
  <2> QED
    BY <2>1, <2>2
<1> QED
  BY <1>1, <1>2 DEF RunningHasACause

LEMMA ProcessDecisions ==
  ASSUME DetTypeOK, Worked, Asked, HistoryExplains, PromotedHasIssue,
         NEW j \in DetJobs, InsertedBy(j), Detect!Process(j)
  PROVE  Asked' /\ HistoryExplains' /\ PromotedHasIssue'
<1>1. UNCHANGED <<detHistory, detPromoted, detActors>>
  BY ProcessFrame
<1>2. /\ detAI # None => detAI' = detAI
      /\ detAI = None /\ detAI' # None => ~detAI'.promoted
  <2>1. \/ detAI' = detAI
        \/ detAI = None /\ detAI' = [status |-> "pending", promoted |-> FALSE]
    BY ProcessKinds DEF Waits, Starts, Discovers, Inserts, Joins, Completes, Stops, Leaves
  <2> QED
    BY <2>1
<1>3. Asked'
  BY <1>1, <1>2, ProcessIssues DEF Asked
<1>4. HistoryExplains'
  BY <1>1, ProcessIssues DEF HistoryExplains
<1>5. PromotedHasIssue'
  BY <1>1, <1>2 DEF PromotedHasIssue, Asked
<1> QED
  BY <1>3, <1>4, <1>5

(***************************************************************************)
(* Steps of requests preserve the invariant                                *)
(***************************************************************************)
LEMMA GoFrame ==
  ASSUME DetTypeOK, NEW a \in DetActors, NEW new \in DetActor, Detect!Go(a, new)
  PROVE  /\ detActors' \in [DetActors -> DetActor] /\ detActors'[a] = new
         /\ \A b \in DetActors : b # a => detActors'[b] = detActors[b]
BY DEF Detect!Go, DetTypeOK

\* What a request does to its own record, and that others keep theirs.
Moves(a, at, op, key, status) ==
  /\ detActors' \in [DetActors -> DetActor]
  /\ detActors'[a].at = at /\ detActors'[a].op = op
  /\ detActors'[a].key = key /\ detActors'[a].status = status
  /\ \A b \in DetActors : b # a => detActors'[b] = detActors[b]

LEMMA MovesTo ==
  ASSUME DetTypeOK, NEW a \in DetActors,
         NEW at \in {"record", "mark", "failed"}, Detect!Go(a, [detActors[a] EXCEPT !.at = at])
  PROVE  Moves(a, at, detActors[a].op, detActors[a].key, detActors[a].status)
<1>1. detActors[a] \in DetActor
  BY DEF DetTypeOK
<1> DEFINE new == [detActors[a] EXCEPT !.at = at]
<1>2. /\ new \in DetActor /\ new.at = at /\ new.op = detActors[a].op
      /\ new.key = detActors[a].key /\ new.status = detActors[a].status
  BY <1>1 DEF DetActor
<1> QED
  BY <1>2, GoFrame DEF Moves

LEMMA MovesOn ==
  ASSUME DetTypeOK, NEW a \in DetActors, NEW at \in {"insert", "dismiss", "done"},
         NEW op \in {"none", "promote", "dismiss"}, Detect!Go(a, [Detect!Idle EXCEPT !.at = at, !.op = op])
  PROVE  Moves(a, at, op, None, None)
<1> DEFINE new == [Detect!Idle EXCEPT !.at = at, !.op = op]
<1>1. /\ new \in DetActor /\ new.at = at /\ new.op = op
      /\ new.key = None /\ new.status = None
  BY DEF DetActor, Detect!Idle
<1> QED
  BY <1>1, GoFrame DEF Moves

LEMMA MovesDone ==
  ASSUME DetTypeOK, NEW a \in DetActors, Detect!Answered(a)
  PROVE  Moves(a, "done", "none", None, None)
<1> DEFINE new == [Detect!Idle EXCEPT !.at = "done"]
<1>1. /\ new \in DetActor /\ new.at = "done" /\ new.op = "none"
      /\ new.key = None /\ new.status = None
  BY DEF DetActor, Detect!Idle
<1> QED
  BY <1>1, GoFrame DEF Detect!Answered, Moves

LEMMA RequestFrame ==
  ASSUME NEW a \in DetActors, Detect!Request(a)
  PROVE  UNCHANGED <<detFound, detRuns, detJobs, detDeaths>>
<1>1. CASE Detect!AskStatus(a) \/ Detect!SetStatus(a) \/ Detect!RecordStatus(a) \/ Detect!AskPromote(a) \/ Detect!InsertPromoted(a)
  BY <1>1 DEF Detect!AskStatus, Detect!SetStatus, Detect!RecordStatus, Detect!AskPromote, Detect!InsertPromoted, Detect!rows
<1>2. CASE Detect!MarkPromoted(a) \/ Detect!AskDismiss(a) \/ Detect!Dismiss(a) \/ Detect!BulkDismiss(a) \/ Detect!RequestFails(a)
  BY <1>2 DEF Detect!MarkPromoted, Detect!AskDismiss, Detect!Dismiss, Detect!BulkDismiss, Detect!RequestFails, Detect!rows
<1> QED
  BY <1>1, <1>2 DEF Detect!Request

\* Requests neither insert nor delete issues, and set a status they were asked to.
LEMMA RequestIssues ==
  ASSUME DetTypeOK, Asked, NEW a \in DetActors, Detect!Request(a)
  PROVE  /\ detIssues' \in [DetKeys -> Issue \cup {None}]
         /\ \A k \in DetKeys :
              /\ detIssues'[k] = None <=> detIssues[k] = None
              /\ detIssues[k] # None =>
                   /\ detIssues'[k].run = detIssues[k].run
                   /\ detIssues'[k].sources = detIssues[k].sources
                   /\ \/ detIssues'[k].status = detIssues[k].status
                      \/ /\ Detect!SetStatus(a) /\ k = detActors[a].key
                         /\ detIssues'[k].status = detActors[a].status
<1>1. CASE Detect!SetStatus(a)
  <2> DEFINE key == detActors[a].key
             new == [detIssues[key] EXCEPT !.status = detActors[a].status]
  <2>1. /\ key \in DetKeys /\ detActors[a].status \in Decisions /\ detIssues[key] # None
        /\ detIssues' = [detIssues EXCEPT ![key] = new]
    BY <1>1 DEF Detect!SetStatus, Asked
  <2>2. detIssues[key] \in Issue
    BY <2>1 DEF DetTypeOK
  <2>3. /\ new \in Issue /\ new.run = detIssues[key].run
        /\ new.sources = detIssues[key].sources /\ new.status = detActors[a].status
    BY <2>1, <2>2 DEF Issue, Statuses
  <2> HIDE DEF key, new
  <2>4. /\ detIssues' \in [DetKeys -> Issue \cup {None}] /\ detIssues'[key] = new
        /\ \A k \in DetKeys : k # key => detIssues'[k] = detIssues[k]
    BY <2>1, <2>3 DEF DetTypeOK
  <2> QED
    BY <1>1, <2>1, <2>3, <2>4, NoRow DEF key
<1>2. CASE ~Detect!SetStatus(a)
  <2>1. UNCHANGED detIssues
    BY <1>2 DEF Detect!Request, Detect!AskStatus, Detect!RecordStatus, Detect!AskPromote, Detect!InsertPromoted, Detect!MarkPromoted,
                Detect!AskDismiss, Detect!Dismiss, Detect!BulkDismiss, Detect!RequestFails, Detect!rows
  <2> QED
    BY <2>1 DEF DetTypeOK
<1> QED
  BY <1>1, <1>2

\* What jobs rely on is not what requests change.
LEMMA RequestJobs ==
  ASSUME IssuesIInv, NEW a \in DetActors, Detect!Request(a)
  PROVE  /\ Worked' /\ Filed' /\ CompletedIsWhole' /\ RunningHasACause'
         /\ \A j \in DetJobs : InsertedBy(j)'
<1> USE DEF IssuesIInv, IssuesInv
<1>1. UNCHANGED <<detFound, detRuns, detJobs>>
  BY RequestFrame
<1>2. Worked'
  BY <1>1 DEF Worked
<1>3. Filed'
  BY <1>1, RequestIssues DEF Filed
<1>4. ASSUME NEW f \in Configs, NEW k \in detFound[f] PROVE k \in DetKeys
  BY <1>4 DEF DetTypeOK
<1>5. CompletedIsWhole'
  <2>1. \A r \in DetRuns : detRuns[r].status = "completed" => detRuns[r].config \in Configs
    BY DEF Worked
  <2> QED
    BY <1>1, <1>4, <2>1, RequestIssues DEF CompletedIsWhole
<1>6. RunningHasACause'
  BY <1>1, RequestIssues DEF RunningHasACause, Owner
<1>7. ASSUME NEW j \in DetJobs PROVE InsertedBy(j)'
  <2> SUFFICES ASSUME detJobs[j].at \in {"discover", "issues", "sources"}
               PROVE  InsertedBy(j)'
    BY <1>1 DEF InsertedBy
  <2>1. detJobs[j].config \in Configs /\ detJobs[j] \in DetJob
    BY DEF Worked, Working, DetTypeOK
  <2>2. detJobs[j].key # None => detJobs[j].key \in DetKeys
    BY <2>1 DEF DetJob
  <2> QED
    BY <1>1, <1>4, <2>1, <2>2, RequestIssues DEF InsertedBy
<1> QED
  BY <1>2, <1>3, <1>5, <1>6, <1>7

LEMMA RequestDecides ==
  ASSUME IssuesIInv, NEW a \in DetActors, Detect!Request(a)
  PROVE  DetTypeOK' /\ Asked' /\ HistoryExplains' /\ PromotedHasIssue'
<1> USE DEF IssuesIInv, IssuesInv
<1> DEFINE actor == detActors[a]
<1>0. /\ UNCHANGED <<detFound, detRuns, detJobs, detDeaths>>
      /\ actor \in DetActor
      /\ detHistory \in [DetKeys -> SUBSET Decisions]
      /\ detAI # None => detAI \in Discovery
  BY RequestFrame DEF DetTypeOK
<1> HIDE DEF actor
\* It is enough to know what becomes of the request, the discovery and the history.
<1>1. ASSUME detActors' \in [DetActors -> DetActor], detHistory' \in [DetKeys -> SUBSET Decisions],
             detAI' \in {None} \cup Discovery, detPromoted' \in BOOLEAN
      PROVE  DetTypeOK'
  BY <1>0, <1>1, RequestIssues DEF DetTypeOK
<1>2. ASSUME NEW at, NEW op, NEW key, NEW status, Moves(a, at, op, key, status),
             at # "idle",
             at \in {"insert", "mark", "dismiss", "done"} => key = None,
             at \in {"set", "record"} =>
               key \in DetKeys /\ status \in Decisions /\ detIssues[key] # None,
             at \in {"insert", "mark"} => op = "promote",
             at \in {"set", "record", "dismiss", "done"} => op # "promote",
             at \in {"insert", "mark", "dismiss"} => detAI' # None,
             at = "mark" => detPromoted',
             detAI # None => detAI' # None,
             detPromoted => detPromoted',
             detPromoted' => detAI' # None
      PROVE  Asked'
  <2>1. \A k \in DetKeys : detIssues[k] # None => detIssues'[k] # None
    BY RequestIssues
  <2> QED
    BY <1>2, <2>1 DEF Asked, Moves
<1>3. ASSUME NEW at, NEW op, NEW key, NEW status, Moves(a, at, op, key, status),
             UNCHANGED detHistory,
             actor.key = None \/ (key = actor.key /\ status = actor.status)
      PROVE  HistoryExplains'
  <2> SUFFICES ASSUME NEW k \in DetKeys, detIssues'[k] # None, detIssues'[k].status # "open"
               PROVE  \/ detIssues'[k].status \in detHistory'[k]
                      \/ \E b \in DetActors :
                           detActors'[b].key = k /\ detActors'[b].status = detIssues'[k].status
    BY DEF HistoryExplains
  <2>0. \A b \in DetActors : detActors[b].key = k =>
          detActors'[b].key = k /\ detActors'[b].status = detActors[b].status
    BY <1>3, NoRow DEF Moves, actor
  <2>1. CASE detIssues'[k].status = detIssues[k].status
    BY <1>3, <2>0, <2>1, RequestIssues DEF HistoryExplains
  <2>2. CASE k = detActors[a].key /\ detIssues'[k].status = detActors[a].status
    BY <2>0, <2>2
  <2> QED
    BY <2>1, <2>2, RequestIssues
<1>4. ASSUME NEW at, NEW op, NEW key, NEW status, Moves(a, at, op, key, status),
             detAI' # None /\ detAI'.promoted => detPromoted',
             detPromoted' => detPromoted \/ op = "promote",
             detAI.promoted => detAI'.promoted,
             actor.op = "promote" => op = "promote" \/ detAI'.promoted
      PROVE  PromotedHasIssue'
  BY <1>4 DEF PromotedHasIssue, Moves, actor
<1>5. CASE Detect!AskStatus(a)
  <2>1. PICK k \in DetKeys, s \in Decisions :
          /\ detIssues[k] # None
          /\ Detect!Go(a, [at |-> "set", op |-> "status", key |-> k, status |-> s])
    BY <1>5 DEF Detect!AskStatus, Detect!Decisions, Decisions
  <2>2. [at |-> "set", op |-> "status", key |-> k, status |-> s] \in DetActor
    BY DEF DetActor
  <2>3. Moves(a, "set", "status", k, s)
    BY <2>1, <2>2, GoFrame DEF Moves
  <2>4. /\ actor = Detect!Idle
        /\ UNCHANGED <<detHistory, detAI, detPromoted>>
    BY <1>5 DEF Detect!AskStatus, Asked, Detect!rows, actor
  <2>5. actor.key = None /\ actor.op = "none"
    BY <2>4 DEF Detect!Idle
  <2>6. DetTypeOK'
    BY <1>1, <2>3, <2>4 DEF Moves, DetTypeOK
  <2>7. Asked'
    BY <1>2, <2>1, <2>3, <2>4 DEF Asked
  <2>8. HistoryExplains'
    BY <1>3, <2>3, <2>4, <2>5
  <2>9. PromotedHasIssue'
    BY <1>4, <2>3, <2>4, <2>5 DEF PromotedHasIssue
  <2> QED
    BY <2>6, <2>7, <2>8, <2>9
<1>6. CASE Detect!SetStatus(a)
  <2>1. /\ actor.at = "set" /\ UNCHANGED <<detHistory, detAI, detPromoted>>
        /\ Moves(a, "record", actor.op, actor.key, actor.status)
    BY <1>6, MovesTo DEF Detect!SetStatus, actor
  <2>2. /\ actor.key \in DetKeys /\ actor.status \in Decisions
        /\ detIssues[actor.key] # None /\ actor.op # "promote"
    BY <2>1 DEF Asked, actor
  <2>3. DetTypeOK'
    BY <1>1, <2>1 DEF Moves, DetTypeOK
  <2>4. Asked'
    BY <1>2, <2>1, <2>2 DEF Asked
  <2>5. HistoryExplains'
    BY <1>3, <2>1
  <2>6. PromotedHasIssue'
    BY <1>4, <2>1 DEF PromotedHasIssue
  <2> QED
    BY <2>3, <2>4, <2>5, <2>6
<1>7. CASE Detect!RecordStatus(a)
  <2>1. /\ actor.at = "record" /\ UNCHANGED <<detAI, detPromoted, detIssues>>
        /\ detHistory' = [detHistory EXCEPT ![actor.key] = detHistory[actor.key] \cup {actor.status}]
        /\ Moves(a, "done", "none", None, None)
    BY <1>7, MovesDone DEF Detect!RecordStatus, actor
  <2>2. actor.key \in DetKeys /\ actor.status \in Decisions /\ actor.op # "promote"
    BY <2>1 DEF Asked, actor
  <2>3. /\ detHistory' \in [DetKeys -> SUBSET Decisions]
        /\ \A k \in DetKeys : detHistory[k] \subseteq detHistory'[k]
        /\ actor.status \in detHistory'[actor.key]
    BY <1>0, <2>1, <2>2
  <2>4. DetTypeOK'
    BY <1>1, <2>1, <2>3 DEF Moves, DetTypeOK
  <2>5. Asked'
    BY <1>2, <2>1 DEF Asked
  <2>6. HistoryExplains'
    <3> SUFFICES ASSUME NEW k \in DetKeys, detIssues[k] # None, detIssues[k].status # "open"
                 PROVE  \/ detIssues[k].status \in detHistory'[k]
                        \/ \E b \in DetActors :
                             detActors'[b].key = k /\ detActors'[b].status = detIssues[k].status
      BY <2>1 DEF HistoryExplains
    <3>1. CASE detIssues[k].status \in detHistory[k]
      BY <2>3, <3>1
    <3>2. ASSUME NEW b \in DetActors,
                 detActors[b].key = k, detActors[b].status = detIssues[k].status
          PROVE  \/ detIssues[k].status \in detHistory'[k]
                 \/ detActors'[b].key = k /\ detActors'[b].status = detIssues[k].status
      BY <2>1, <2>3, <3>2 DEF Moves, actor
    <3> QED
      BY <3>1, <3>2 DEF HistoryExplains
  <2>7. PromotedHasIssue'
    BY <1>4, <2>1, <2>2 DEF PromotedHasIssue
  <2> QED
    BY <2>4, <2>5, <2>6, <2>7
<1>8. CASE Detect!AskPromote(a)
  <2>1. /\ actor.at = "idle"
        /\ detAI # None
        /\ UNCHANGED <<detHistory, detAI, detPromoted>>
        /\ Moves(a, "insert", "promote", None, None)
    BY <1>8, MovesOn DEF Detect!AskPromote, Detect!rows, actor
  <2>2. actor.key = None /\ actor.op = "none"
    BY <2>1 DEF Asked, Detect!Idle, actor
  <2>10. DetTypeOK'
    BY <1>1, <2>1 DEF Moves, DetTypeOK
  <2>11. Asked'
    BY <1>2, <2>1 DEF Asked
  <2>12. HistoryExplains'
    BY <1>3, <2>1, <2>2
  <2>13. PromotedHasIssue'
    BY <1>4, <2>1, <2>2 DEF PromotedHasIssue
  <2> QED
    BY <2>10, <2>11, <2>12, <2>13
<1>9. CASE Detect!InsertPromoted(a)
  <2>1. /\ actor.at = "insert"
        /\ detPromoted' = TRUE
        /\ UNCHANGED <<detHistory, detAI>>
        /\ Moves(a, "mark", actor.op, actor.key, actor.status)
    BY <1>9, MovesTo DEF Detect!InsertPromoted, Detect!rows, actor
  <2>2. actor.key = None /\ actor.op = "promote" /\ detAI # None
    BY <2>1 DEF Asked, actor
  <2>10. DetTypeOK'
    BY <1>1, <2>1 DEF Moves, DetTypeOK
  <2>11. Asked'
    BY <1>2, <2>1, <2>2 DEF Asked
  <2>12. HistoryExplains'
    BY <1>3, <2>1, <2>2
  <2>13. PromotedHasIssue'
    BY <1>4, <2>1, <2>2 DEF PromotedHasIssue
  <2> QED
    BY <2>10, <2>11, <2>12, <2>13
<1>10. CASE Detect!MarkPromoted(a)
  <2>1. /\ actor.at = "mark"
        /\ detAI' = [status |-> "confirmed", promoted |-> TRUE]
        /\ UNCHANGED <<detHistory, detPromoted>>
        /\ Moves(a, "done", "none", None, None)
    BY <1>10, MovesDone DEF Detect!MarkPromoted, Detect!rows, actor
  <2>2. actor.key = None /\ detPromoted
    BY <2>1 DEF Asked, actor
  <2>3. detAI' \in Discovery /\ detAI'.promoted
    BY <2>1 DEF Discovery
  <2>4. detAI' # None
    BY <2>3, NoRow
  <2>10. DetTypeOK'
    BY <1>1, <2>1, <2>3 DEF Moves, DetTypeOK
  <2>11. Asked'
    BY <1>2, <2>1, <2>2, <2>4
  <2>12. HistoryExplains'
    BY <1>3, <2>1, <2>2
  <2>13. PromotedHasIssue'
    BY <1>4, <2>1, <2>2, <2>3 DEF PromotedHasIssue
  <2> QED
    BY <2>10, <2>11, <2>12, <2>13
<1>11. CASE Detect!AskDismiss(a)
  <2>1. /\ actor.at = "idle"
        /\ detAI # None
        /\ UNCHANGED <<detHistory, detAI, detPromoted>>
        /\ Moves(a, "dismiss", "dismiss", None, None)
    BY <1>11, MovesOn DEF Detect!AskDismiss, Detect!rows, actor
  <2>2. actor.key = None /\ actor.op = "none"
    BY <2>1 DEF Asked, Detect!Idle, actor
  <2>10. DetTypeOK'
    BY <1>1, <2>1 DEF Moves, DetTypeOK
  <2>11. Asked'
    BY <1>2, <2>1 DEF Asked
  <2>12. HistoryExplains'
    BY <1>3, <2>1, <2>2
  <2>13. PromotedHasIssue'
    BY <1>4, <2>1, <2>2 DEF PromotedHasIssue
  <2> QED
    BY <2>10, <2>11, <2>12, <2>13
<1>12. CASE Detect!Dismiss(a)
  <2>1. /\ actor.at = "dismiss"
        /\ detAI' = [detAI EXCEPT !.status = "dismissed"]
        /\ UNCHANGED <<detHistory, detPromoted>>
        /\ Moves(a, "done", "none", None, None)
    BY <1>12, MovesDone DEF Detect!Dismiss, Detect!rows, actor
  <2>2. actor.key = None /\ actor.op # "promote" /\ detAI # None
    BY <2>1 DEF Asked, actor
  <2>3. /\ [detAI EXCEPT !.status = "dismissed"] \in Discovery
        /\ [detAI EXCEPT !.status = "dismissed"].promoted = detAI.promoted
    BY <1>0, <2>2 DEF Discovery
  <2>10. DetTypeOK'
    BY <1>1, <2>1, <2>3 DEF Moves, DetTypeOK
  <2>11. Asked'
    BY <1>2, <2>1, <2>3, NoRow DEF Asked
  <2>12. HistoryExplains'
    BY <1>3, <2>1, <2>2
  <2>13. PromotedHasIssue'
    BY <1>4, <2>1, <2>2, <2>3 DEF PromotedHasIssue
  <2> QED
    BY <2>10, <2>11, <2>12, <2>13
<1>13. CASE Detect!BulkDismiss(a)
  <2>1. /\ actor.at = "idle" /\ detAI # None
        /\ detAI' = [detAI EXCEPT !.status = "dismissed"]
        /\ UNCHANGED <<detHistory, detPromoted>>
        /\ Moves(a, "done", "none", None, None)
    BY <1>13, MovesDone DEF Detect!BulkDismiss, Detect!rows, actor
  <2>2. actor.key = None /\ actor.op = "none"
    BY <2>1 DEF Asked, Detect!Idle, actor
  <2>3. /\ [detAI EXCEPT !.status = "dismissed"] \in Discovery
        /\ [detAI EXCEPT !.status = "dismissed"].promoted = detAI.promoted
    BY <1>0, <2>1 DEF Discovery
  <2>10. DetTypeOK'
    BY <1>1, <2>1, <2>3 DEF Moves, DetTypeOK
  <2>11. Asked'
    BY <1>2, <2>1, <2>3, NoRow DEF Asked
  <2>12. HistoryExplains'
    BY <1>3, <2>1, <2>2
  <2>13. PromotedHasIssue'
    BY <1>4, <2>1, <2>2, <2>3 DEF PromotedHasIssue
  <2> QED
    BY <2>10, <2>11, <2>12, <2>13
<1>14. CASE Detect!RequestFails(a)
  <2>1. /\ UNCHANGED <<detHistory, detAI, detPromoted>>
        /\ Moves(a, "failed", actor.op, actor.key, actor.status)
    BY <1>14, MovesTo DEF Detect!RequestFails, Detect!rows, actor
  <2>10. DetTypeOK'
    BY <1>1, <2>1 DEF Moves, DetTypeOK
  <2>11. Asked'
    BY <1>2, <2>1 DEF Asked
  <2>12. HistoryExplains'
    BY <1>3, <2>1
  <2>13. PromotedHasIssue'
    BY <1>4, <2>1 DEF PromotedHasIssue
  <2> QED
    BY <2>10, <2>11, <2>12, <2>13
<1> QED
  BY <1>5, <1>6, <1>7, <1>8, <1>9, <1>10, <1>11, <1>12, <1>13, <1>14 DEF Detect!Request

(***************************************************************************)
(* The theorem                                                             *)
(***************************************************************************)
\* What the types and the invariants are proved from: inductive, where IssuesInv
\* is not.
THEOREM IInvHolds == Detect!Spec => []IssuesIInv
<1>1. Detect!Init => IssuesIInv
  <2> SUFFICES ASSUME Detect!Init PROVE IssuesIInv
    OBVIOUS
  <2> USE DEF Detect!Init, Detect!DetRuns, DetRuns
  <2>1. DetTypeOK
    <3>1. Detect!NoDetJob \in DetJob /\ Detect!Idle \in DetActor
      BY DEF Detect!NoDetJob, Detect!Idle, DetJob, DetActor
    <3>2. 0 \in 0..MaxDeaths
      BY NoRow
    <3> QED
      BY <3>1, <3>2 DEF DetTypeOK
  <2>2. Worked /\ Asked /\ Filed /\ \A j \in DetJobs : InsertedBy(j)
    <3>1. Worked
      BY DEF Worked, Detect!NoDetJob, Working
    <3>2. Asked
      BY DEF Asked, Detect!Idle
    <3> QED
      BY <3>1, <3>2 DEF Filed, InsertedBy, Detect!NoDetJob
  <2>3. CompletedIsWhole /\ RunningHasACause
    BY DEF CompletedIsWhole, RunningHasACause
  <2>4. HistoryExplains /\ PromotedHasIssue
    BY DEF HistoryExplains, PromotedHasIssue
  <2> QED
    BY <2>1, <2>2, <2>3, <2>4 DEF IssuesIInv, IssuesInv
<1>2. IssuesIInv /\ [Detect!Next]_detVars => IssuesIInv'
  <2> SUFFICES ASSUME IssuesIInv, [Detect!Next]_detVars PROVE IssuesIInv'
    OBVIOUS
  <2>1. ASSUME NEW j \in DetJobs, Detect!Process(j) PROVE IssuesIInv'
    BY <2>1, ProcessType, ProcessWorked, ProcessInserted, ProcessFiled, ProcessWhole,
       ProcessCauses, ProcessDecisions DEF IssuesIInv, IssuesInv
  <2>2. ASSUME NEW a \in DetActors, Detect!Request(a) PROVE IssuesIInv'
    BY <2>2, RequestJobs, RequestDecides DEF IssuesIInv, IssuesInv
  <2>3. CASE UNCHANGED detVars
    BY <2>3 DEF detVars, IssuesIInv, IssuesInv, DetTypeOK, Worked, InsertedBy, Filed, Asked,
                CompletedIsWhole, RunningHasACause, HistoryExplains, PromotedHasIssue, Owner
  <2> QED
    BY <2>1, <2>2, <2>3 DEF Detect!Next
<1> QED
  BY <1>1, <1>2, PTL DEF Detect!Spec, Detect!detVars, detVars

\* However often a snapshot is detected on and replayed, and whatever is decided about
\* its issues meanwhile, a completed run is whole, one left 'running' has a cause, and
\* the history and the promotions tell what happened.
THEOREM IssuesAreExplained == Detect!Spec => []IssuesInv
BY IInvHolds, PTL DEF IssuesIInv
==============================================================================
