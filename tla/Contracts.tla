------------------------------ MODULE Contracts ------------------------------
(***************************************************************************)
(* One contract document and its version: the processors that extract its  *)
(* text, clauses, terms and readiness one job after the other              *)
(* (apps/worker/src/processors/contracts-*.ts), and the routes that        *)
(* reprocess it, correct its terms and mark it as reviewed                 *)
(* (apps/api/src/routes/contracts/index.ts).                               *)
(*                                                                         *)
(* Every database or queue call that decides something is a step.  The     *)
(* processors catch what their statements throw and return success: false, *)
(* so BullMQ runs a job again only when its worker dies.  No code inserts  *)
(* contract_documents rows: the document is there from the start.          *)
(***************************************************************************)
EXTENDS Integers, FiniteSets

CONSTANTS
  Clients,     \* requests; an override has the id of the request that made it
  NoOverride,  \* override_id = null
  Jobs,        \* slots for the jobs in the four queues
  Types,       \* term types
  MaxInserts,  \* how often terms are inserted
  MaxStalls    \* BullMQ's maxStalledCount (1)

ASSUME Absent == NoOverride \notin Clients
ASSUME Bounds == MaxInserts \in Nat /\ MaxStalls \in Nat

VARIABLES
  doc,         \* the contract_documents row
  clauses,     \* how many of the two batches of a segmentation are stored
  terms,       \* contract_terms rows; a term's id is its type and insertion
  overrides,   \* contract_term_overrides rows
  readiness,   \* the contract_readiness row, and the terms it was computed from
  items,       \* how many insertions have put terms of low confidence in review_queue
  inserts,     \* how often terms were inserted
  job,         \* job[j]: a job in a queue, or running with what it has read
  req,         \* req[c]: a request between two calls
  overlapped,  \* history: two jobs of the pipeline ran at the same time
  broken       \* history: a job ended without the next one, or its last write

vars == <<doc, clauses, terms, overrides, readiness, items, inserts, job, req,
          overlapped, broken>>

(***************************************************************************)
(* Data                                                                    *)
(***************************************************************************)
TermId == Types \X (0..MaxInserts)
Term == [id : TermId, flagged : BOOLEAN, override : Clients \cup {NoOverride}]
Override == [id : Clients, term : TermId]
Document == [status : {"pending", "extracting", "extracted", "failed"}, text : BOOLEAN]
Readiness == [status : {"none", "ready", "incomplete"}, of : SUBSET TermId,
              reviewed : BOOLEAN]
Kind == {"none", "extract", "segment", "terms", "compute"}
Pc == {"none", "waiting", "mark", "pdf", "add_segment", "fail", "text", "delete_clauses",
       "batch1", "batch2", "add_terms", "overrides", "clauses", "fallback",
       "delete_terms", "insert_terms", "items", "add_compute", "terms", "exists",
       "insert_readiness", "update_readiness"}
Job == [kind : Kind, pc : Pc, stalls : 0..MaxStalls, found : SUBSET Types,
        kept : SUBSET Override, low : BOOLEAN, of : SUBSET TermId]
Request == [op : {"none", "override", "remove", "resegment", "reextract", "review"},
            pc : {"idle", "insert", "flag", "delete", "unflag", "status", "add", "done"},
            terms : SUBSET TermId, override : Clients \cup {NoOverride},
            ok : BOOLEAN]

TypeOK ==
  /\ doc \in Document /\ clauses \in Nat
  /\ terms \subseteq Term /\ overrides \subseteq Override
  /\ readiness \in Readiness
  /\ items \in Nat /\ inserts \in 0..MaxInserts
  /\ job \in [Jobs -> Job] /\ req \in [Clients -> Request]
  /\ overlapped \in BOOLEAN /\ broken \in BOOLEAN

NoJobHere == [kind |-> "none", pc |-> "none", stalls |-> 0, found |-> {}, kept |-> {},
              low |-> FALSE, of |-> {}]
Fresh == [op |-> "none", pc |-> "idle", terms |-> {}, override |-> NoOverride,
          ok |-> FALSE]

Init ==
  /\ doc = [status |-> "pending", text |-> FALSE]
  /\ clauses = 0
  /\ \E types \in {{}, Types} :
       terms = {[id |-> <<t, 0>>, flagged |-> FALSE, override |-> NoOverride] :
                  t \in types}
  /\ overrides = {} /\ items = 0 /\ inserts = 0
  /\ readiness = [status |-> "none", of |-> {}, reviewed |-> FALSE]
  /\ job = [j \in Jobs |-> NoJobHere]
  /\ req = [c \in Clients |-> Fresh]
  /\ overlapped = FALSE /\ broken = FALSE

Ids == {t.id : t \in terms}

(***************************************************************************)
(* Overrides of terms                                                      *)
(***************************************************************************)
documents == <<doc, clauses, readiness, items, inserts>>
history == <<overlapped, broken>>

GoOn(c, from, to) ==
  /\ req[c].pc = from
  /\ req' = [req EXCEPT ![c].pc = to]

Answered(c, ok) == req' = [req EXCEPT ![c].pc = "done", ![c].ok = ok]

\* POST /contracts/:id/terms/:termId/override reads the term.
OverrideTerm(c) ==
  /\ req[c].pc = "idle"
  /\ \E t \in terms :
       req' = [req EXCEPT ![c] = [Fresh EXCEPT !.op = "override", !.pc = "insert",
                                               !.terms = {t.id}]]
  /\ UNCHANGED <<documents, terms, overrides, job, history>>

\* The override's term_id is a foreign key.
InsertOverride(c) ==
  /\ req[c].pc = "insert"
  /\ IF req[c].terms \subseteq Ids
     THEN /\ GoOn(c, "insert", "flag")
          /\ overrides' = overrides \cup {[id |-> c, term |-> id] : id \in req[c].terms}
     ELSE Answered(c, FALSE) /\ overrides' = overrides
  /\ UNCHANGED <<documents, terms, job, history>>

SetFlag(ids, flag, override) ==
  terms' = {IF t.id \in ids THEN [t EXCEPT !.flagged = flag, !.override = override]
            ELSE t : t \in terms}

FlagTerm(c) ==
  /\ req[c].pc = "flag"
  /\ SetFlag(req[c].terms, TRUE, c)
  /\ Answered(c, TRUE)
  /\ UNCHANGED <<documents, overrides, job, history>>

\* DELETE /contracts/:id/terms/:termId/override reads the term's override_id.
RemoveOverride(c) ==
  /\ req[c].pc = "idle"
  /\ \E t \in terms :
       /\ t.override # NoOverride
       /\ req' = [req EXCEPT ![c] = [Fresh EXCEPT !.op = "remove", !.pc = "delete",
                                                  !.terms = {t.id},
                                                  !.override = t.override]]
  /\ UNCHANGED <<documents, terms, overrides, job, history>>

\* contract_terms.override_id is ON DELETE SET NULL.
DeleteOverride(c) ==
  /\ GoOn(c, "delete", "unflag")
  /\ overrides' = {o \in overrides : o.id # req[c].override}
  /\ terms' = {IF t.override = req[c].override THEN [t EXCEPT !.override = NoOverride]
               ELSE t : t \in terms}
  /\ UNCHANGED <<documents, job, history>>

UnflagTerm(c) ==
  /\ req[c].pc = "unflag"
  /\ SetFlag(req[c].terms, FALSE, NoOverride)
  /\ Answered(c, TRUE)
  /\ UNCHANGED <<documents, overrides, job, history>>

(***************************************************************************)
(* Reprocessing and review                                                 *)
(***************************************************************************)
rows == <<clauses, terms, overrides, readiness, items, inserts>>

\* POST /contracts/:id/reprocess reads the document, and refuses one that is
\* being extracted.
Reprocess(c) ==
  /\ req[c].pc = "idle" /\ doc.status # "extracting"
  /\ \E op \in {"resegment", "reextract"} :
       req' = [req EXCEPT ![c] = [Fresh EXCEPT !.op = op, !.pc = "status"]]
  /\ UNCHANGED <<doc, rows, job, history>>

SetExtracting(c) ==
  /\ GoOn(c, "status", "add")
  /\ doc' = [doc EXCEPT !.status = "extracting"]
  /\ UNCHANGED <<rows, job, history>>

New(kind) == [NoJobHere EXCEPT !.kind = kind, !.pc = "waiting"]

AddFirst(c) ==
  /\ req[c].pc = "add"
  /\ \E j \in Jobs :
       /\ job[j] = NoJobHere
       /\ job' = [job EXCEPT ![j] = New(IF req[c].op = "reextract" THEN "extract"
                                        ELSE "segment")]
  /\ Answered(c, TRUE)
  /\ UNCHANGED <<doc, rows, history>>

\* POST /contracts/:id/readiness/review updates the row if there is one, and
\* says it did.
MarkReviewed(c) ==
  /\ req[c].pc = "idle"
  /\ req' = [req EXCEPT ![c] = [Fresh EXCEPT !.op = "review", !.pc = "done", !.ok = TRUE]]
  /\ readiness' = IF readiness.status = "none" THEN readiness
                  ELSE [readiness EXCEPT !.status = "ready", !.reviewed = TRUE]
  /\ UNCHANGED <<doc, clauses, terms, overrides, items, inserts, job, history>>

\* A call of a request fails, or the API stops: the request is answered 500.
RequestFails(c) ==
  /\ req[c].pc \notin {"idle", "done"}
  /\ Answered(c, FALSE)
  /\ UNCHANGED <<doc, rows, job, history>>

(***************************************************************************)
(* The workers                                                             *)
(***************************************************************************)
Running(j) == job[j].pc \notin {"none", "waiting"}

First == [kind \in Kind |-> CASE kind = "extract" -> "mark" [] kind = "segment" -> "text"
                              [] kind = "terms" -> "overrides" [] kind = "compute" -> "terms"
                              [] OTHER -> "none"]

Fetch(j) ==
  /\ job[j].pc = "waiting"
  /\ job' = [job EXCEPT ![j].pc = First[job[j].kind]]
  /\ overlapped' = (overlapped \/ \E i \in Jobs \ {j} : Running(i))
  /\ UNCHANGED <<doc, rows, req, broken>>

Step(j, from, to) ==
  /\ job[j].pc = from
  /\ job' = [job EXCEPT ![j].pc = to]

\* The processor returns; unless it went wrong, the pipeline goes on.
Return(j, wrong) ==
  /\ job' = [job EXCEPT ![j] = NoJobHere]
  /\ broken' = (broken \/ wrong)

\* The processor adds the next job, then returns.
ReturnAdding(j, from, kind) ==
  /\ job[j].pc = from
  /\ \E i \in Jobs :
       /\ job[i] = NoJobHere
       /\ job' = [job EXCEPT ![j] = NoJobHere, ![i] = New(kind)]
  /\ broken' = broken

\* A worker that dies between adding the next job and returning: the job
\* stalls with its successor in the queue.
DieAfterAdding(j, from, kind) ==
  /\ job[j].pc = from /\ job[j].stalls < MaxStalls
  /\ \E i \in Jobs :
       /\ job[i] = NoJobHere
       /\ job' = [job EXCEPT ![j] = [New(job[j].kind) EXCEPT !.stalls = job[j].stalls + 1],
                             ![i] = New(kind)]
  /\ broken' = broken

Hands(j, from, kind) ==
  (ReturnAdding(j, from, kind) \/ DieAfterAdding(j, from, kind))

\* processContractExtractJob
Mark(j) ==
  /\ Step(j, "mark", "pdf")
  /\ doc' = [doc EXCEPT !.status = "extracting"]
  /\ UNCHANGED <<rows, req, history>>

\* A mutant of StoreText: the status is forgotten.
StoreTextOnly(j) ==
  /\ Step(j, "pdf", "add_segment")
  /\ \E text \in BOOLEAN : doc' = [doc EXCEPT !.text = text]
  /\ UNCHANGED <<rows, req, history>>

StoreText(j) ==
  /\ Step(j, "pdf", "add_segment")
  /\ \E text \in BOOLEAN : doc' = [status |-> "extracted", text |-> text]
  /\ UNCHANGED <<rows, req, history>>

AddSegment(j) ==
  /\ Hands(j, "add_segment", "segment")
  /\ UNCHANGED <<doc, rows, req, overlapped>>

ExtractFails(j) ==
  /\ job[j].pc \in {"pdf", "add_segment"}
  /\ job' = [job EXCEPT ![j].pc = "fail"]
  /\ UNCHANGED <<doc, rows, req, history>>

SetFailed(j) ==
  /\ job[j].pc = "fail"
  /\ doc' = [doc EXCEPT !.status = "failed"]
  /\ Return(j, TRUE)
  /\ UNCHANGED <<rows, req, overlapped>>

\* processClauseSegmentJob
ReadText(j) ==
  /\ job[j].pc = "text"
  /\ IF doc.text
     THEN Step(j, "text", "delete_clauses") /\ broken' = broken
     ELSE Return(j, TRUE)
  /\ UNCHANGED <<doc, rows, req, overlapped>>

\* A mutant of DeleteClauses: nothing is deleted before the insert.
DeleteNoClauses(j) ==
  /\ \E next \in {"batch1", "add_terms"} : Step(j, "delete_clauses", next)
  /\ UNCHANGED <<doc, rows, req, history>>

\* DELETE of the document's clauses; there may be no segment to insert.
DeleteClauses(j) ==
  /\ \E next \in {"batch1", "add_terms"} : Step(j, "delete_clauses", next)
  /\ clauses' = 0
  /\ UNCHANGED <<doc, terms, overrides, readiness, items, inserts, req, history>>

InsertBatch(j) ==
  /\ (Step(j, "batch1", "batch2") \/ Step(j, "batch2", "add_terms"))
  /\ clauses' = clauses + 1
  /\ UNCHANGED <<doc, terms, overrides, readiness, items, inserts, req, history>>

AddTerms(j) ==
  /\ Hands(j, "add_terms", "terms")
  /\ UNCHANGED <<doc, rows, req, overlapped>>

\* processTermExtractJob reads the overrides of the version's terms, and keeps
\* the last of each type.
ReadOverrides(j) ==
  /\ job[j].pc = "overrides"
  /\ \E kept \in SUBSET overrides :
       /\ \A o \in overrides : \E p \in kept : p.term[1] = o.term[1]
       /\ \A o, p \in kept : o.term[1] = p.term[1] => o = p
       /\ job' = [job EXCEPT ![j].pc = "clauses", ![j].kept = kept]
  /\ UNCHANGED <<doc, rows, req, history>>

ReadClauses(j) ==
  /\ job[j].pc = "clauses"
  /\ IF clauses = 0
     THEN Step(j, "clauses", "fallback")
     ELSE \E found \in SUBSET Types, low \in BOOLEAN :
            /\ low => found # {}
            /\ job' = [job EXCEPT ![j].pc = "delete_terms", ![j].found = found,
                                  ![j].low = low]
  /\ UNCHANGED <<doc, rows, req, history>>

\* Without clauses the document's text is used, and nothing is queued for review.
ReadFallback(j) ==
  /\ job[j].pc = "fallback"
  /\ IF doc.text
     THEN /\ \E found \in SUBSET Types :
               job' = [job EXCEPT ![j].pc = "delete_terms", ![j].found = found]
          /\ broken' = broken
     ELSE Return(j, TRUE)
  /\ UNCHANGED <<doc, rows, req, overlapped>>

\* contract_term_overrides.term_id is ON DELETE CASCADE.
DeleteTerms(j) ==
  /\ Step(j, "delete_terms", "insert_terms")
  /\ terms' = {}
  /\ overrides' = {o \in overrides : o.term \notin Ids}
  /\ UNCHANGED <<doc, clauses, readiness, items, inserts, req, history>>

Reapplied(j) == {o \in job[j].kept : o.term[1] \in job[j].found}

\* insertTerms: one INSERT whose override_id is a foreign key, then the kept
\* overrides are moved to the new terms.
InsertTerms(j) ==
  /\ job[j].pc = "insert_terms" /\ inserts < MaxInserts
  /\ IF {o.id : o \in Reapplied(j)} \subseteq {o.id : o \in overrides}
     THEN /\ terms' = terms \cup
               {LET mine == {o \in Reapplied(j) : o.term[1] = t}
                IN  [id |-> <<t, inserts + 1>>, flagged |-> mine # {},
                     override |-> IF mine = {} THEN NoOverride
                                  ELSE (CHOOSE o \in mine : TRUE).id] :
                t \in job[j].found}
          /\ overrides' = {IF \E k \in Reapplied(j) : k.id = o.id
                           THEN [o EXCEPT !.term = <<o.term[1], inserts + 1>>]
                           ELSE o : o \in overrides}
          /\ inserts' = inserts + 1
          /\ Step(j, "insert_terms", IF job[j].low THEN "items" ELSE "add_compute")
          /\ broken' = broken
     ELSE Return(j, TRUE) /\ UNCHANGED <<terms, overrides, inserts>>
  /\ UNCHANGED <<doc, clauses, readiness, items, req, overlapped>>

\* A mutant of InsertItems: terms that need review do not reach the readiness.
InsertItemsOnly(j) ==
  /\ job[j].pc = "items"
  /\ Return(j, FALSE)
  /\ items' = items + 1
  /\ UNCHANGED <<doc, clauses, terms, overrides, readiness, inserts, req, overlapped>>

\* createReviewQueueItems; the items name no term.
InsertItems(j) ==
  /\ Step(j, "items", "add_compute")
  /\ items' = items + 1
  /\ UNCHANGED <<doc, clauses, terms, overrides, readiness, inserts, req, history>>

AddCompute(j) ==
  /\ Hands(j, "add_compute", "compute")
  /\ UNCHANGED <<doc, rows, req, overlapped>>

\* processReadinessComputeJob
ReadTerms(j) ==
  /\ job[j].pc = "terms"
  /\ job' = [job EXCEPT ![j].pc = "exists", ![j].of = Ids]
  /\ UNCHANGED <<doc, rows, req, history>>

ReadReadiness(j) ==
  /\ Step(j, "exists", IF readiness.status = "none" THEN "insert_readiness"
                       ELSE "update_readiness")
  /\ UNCHANGED <<doc, rows, req, history>>

Computed(of) == IF Types \subseteq {id[1] : id \in of} THEN "ready" ELSE "incomplete"

\* contract_readiness is unique by version: a second INSERT fails.
WriteReadiness(j) ==
  /\ job[j].pc \in {"insert_readiness", "update_readiness"}
  /\ IF job[j].pc = "insert_readiness" /\ readiness.status # "none"
     THEN Return(j, TRUE) /\ readiness' = readiness
     ELSE /\ readiness' = [status |-> Computed(job[j].of), of |-> job[j].of,
                           reviewed |-> readiness.reviewed]
          /\ Return(j, FALSE)
  /\ UNCHANGED <<doc, clauses, terms, overrides, items, inserts, req, overlapped>>

\* A statement of the other three processors fails: caught, and the job completes.
Caught(j) ==
  /\ Running(j) /\ job[j].kind # "extract"
  /\ Return(j, TRUE)
  /\ UNCHANGED <<doc, rows, req, overlapped>>

\* A worker dies: BullMQ finds the stalled job and runs it again, once.
Dies(j) ==
  /\ Running(j)
  /\ IF job[j].stalls < MaxStalls
     THEN /\ job' = [job EXCEPT ![j] = [New(job[j].kind) EXCEPT !.stalls = job[j].stalls + 1]]
          /\ broken' = broken
     ELSE Return(j, TRUE)
  /\ UNCHANGED <<doc, rows, req, overlapped>>

(***************************************************************************)
(* Specification                                                           *)
(***************************************************************************)
RequestStep(c) ==
  \/ OverrideTerm(c) \/ InsertOverride(c) \/ FlagTerm(c)
  \/ RemoveOverride(c) \/ DeleteOverride(c) \/ UnflagTerm(c)
  \/ Reprocess(c) \/ SetExtracting(c) \/ AddFirst(c)
  \/ MarkReviewed(c) \/ RequestFails(c)

JobStep(j) ==
  \/ Mark(j) \/ StoreText(j) \/ AddSegment(j) \/ ExtractFails(j) \/ SetFailed(j)
  \/ ReadText(j) \/ DeleteClauses(j) \/ InsertBatch(j) \/ AddTerms(j)
  \/ ReadOverrides(j) \/ ReadClauses(j) \/ ReadFallback(j) \/ DeleteTerms(j)
  \/ InsertTerms(j) \/ InsertItems(j) \/ AddCompute(j)
  \/ ReadTerms(j) \/ ReadReadiness(j) \/ WriteReadiness(j)
  \/ Caught(j) \/ Dies(j)

Next ==
  \/ \E c \in Clients : RequestStep(c)
  \/ \E j \in Jobs : Fetch(j) \/ JobStep(j)

Spec == Init /\ [][Next]_vars

(***************************************************************************)
(* Properties                                                              *)
(***************************************************************************)
Quiet == \A j \in Jobs : job[j] = NoJobHere

\* A term that is shown as overridden has a correction to show, unless a
\* removal is between its two statements, or failed there.
OverriddenHasACorrection ==
  \A t \in terms :
    t.flagged /\ (\A o \in overrides : o.term # t.id) =>
      \E c \in Clients : req[c].op = "remove" /\ t.id \in req[c].terms /\ ~req[c].ok

\* Jobs that do not overlap leave one term of a type and one set of clauses,
\* however often they run: the processors delete before they insert.
RowsOnce ==
  ~overlapped =>
    /\ clauses <= 2
    /\ \A s, t \in terms : s.id[1] = t.id[1] => s = t

\* When the queues are empty and every job reached its end one after the
\* other, the readiness is that of the terms that are stored.
ReadinessIsCurrent ==
  Quiet /\ ~overlapped /\ ~broken /\ inserts > 0 => readiness.of = Ids

\* A document that is left 'extracting', and so is refused for ever, was
\* re-segmented, or a request or job failed on its way.
ExtractingHasACause ==
  Quiet /\ doc.status = "extracting" =>
    \/ broken
    \/ \E c \in Clients :
         req[c].op = "resegment" \/ (req[c].op = "reextract" /\ ~req[c].ok)

\* A correction that its user was told about outlives reprocessing: when the
\* queues are empty, it is there unless a request removed it.
CorrectionsSurvive ==
  Quiet =>
    \A c \in Clients :
      req[c].op = "override" /\ req[c].ok =>
        \/ \E o \in overrides : o.id = c
        \/ \E d \in Clients : req[d].override = c

\* Types and a conjunction of the invariants about rows: each is there once,
\* and what is flagged as overridden has a correction.
ContractsInv == TypeOK /\ RowsOnce /\ OverriddenHasACorrection

\* The same, and the document's status has a cause (the contract processors and
\* routes).
TermsInv == ContractsInv /\ ExtractingHasACause
=============================================================================
