-------------------------- MODULE Contracts_proofs --------------------------
(***************************************************************************)
(* Proofs about Contracts, for any requests, job slots, term types, and    *)
(* bounds on insertions and stalls: rows are there once while jobs do not  *)
(* overlap, what is flagged as overridden has its correction, a document   *)
(* left 'extracting' has a cause, and the readiness at rest is current.    *)
(*                                                                         *)
(* The invariant follows a correction from its request to its row and its  *)
(* flag: an override row never moves to another term (OverridesStay), for  *)
(* whatever a job kept was deleted with the terms before they are inserted *)
(* again (NothingToReapply).                                               *)
(***************************************************************************)
EXTENDS Contracts, TLAPS

(***************************************************************************)
(* The inductive invariant                                                 *)
(***************************************************************************)
PcOf(kind) ==
  CASE kind = "none" -> {"none"}
    [] kind = "extract" -> {"waiting", "mark", "pdf", "add_segment", "fail"}
    [] kind = "segment" -> {"waiting", "text", "delete_clauses", "batch1", "batch2",
                            "add_terms"}
    [] kind = "terms" -> {"waiting", "overrides", "clauses", "fallback", "delete_terms",
                          "insert_terms", "items", "add_compute"}
    [] kind = "compute" -> {"waiting", "terms", "exists", "insert_readiness",
                            "update_readiness"}
    [] OTHER -> {}

\* A job is at a step of its own processor.
KindsAgree == \A j \in Jobs : job[j].pc \in PcOf(job[j].kind)

\* Without an overlap one job runs, and the rows are as its step leaves them.
OneRuns == ~overlapped => \A i, j \in Jobs : Running(i) /\ Running(j) => i = j

ClausesAreCounted ==
  ~overlapped =>
    /\ clauses <= 2
    /\ \A j \in Jobs : /\ job[j].pc = "batch1" => clauses = 0
                       /\ job[j].pc = "batch2" => clauses = 1

TermsAreCounted ==
  ~overlapped =>
    /\ \A s, t \in terms : s.id[1] = t.id[1] => s = t
    /\ \A j \in Jobs : job[j].pc = "insert_terms" => terms = {}

\* The terms of an insertion carry its number, and no later number is known.
NumbersAreTaken ==
  /\ \A t \in terms : t.id[2] <= inserts
  /\ \A c \in Clients : \A id \in req[c].terms : id[2] <= inserts

\* A request works on one term; it is at a step of its own handler, and only its
\* end answers that it went well.
RequestsAgree ==
  \A c \in Clients :
    /\ req[c].pc \in {"insert", "flag"} => req[c].op = "override"
    /\ req[c].pc \in {"delete", "unflag"} => req[c].op = "remove"
    /\ req[c].pc \in {"status", "add"} => req[c].op \in {"resegment", "reextract"}
    /\ req[c].ok => req[c].pc = "done"
    /\ req[c].op = "none" <=> req[c].pc = "idle"
    /\ req[c].op # "remove" => req[c].override = NoOverride
    /\ \A x, y \in req[c].terms : x = y

\* An override row is that of its request, on the term of the request, which exists.
OverridesStay ==
  \A o \in overrides :
    /\ req[o.id].op = "override" /\ req[o.id].pc \in {"flag", "done"}
    /\ o.term \in req[o.id].terms
    /\ o.term \in Ids

\* What a job keeps was made by a request that inserted it.
KeptWasInserted ==
  \A j \in Jobs : \A o \in job[j].kept :
    req[o.id].op = "override" /\ req[o.id].pc \in {"flag", "done"}

\* When a job inserts terms, what it kept is gone: there is nothing to reapply.
NothingToReapply ==
  \A j \in Jobs : job[j].pc = "insert_terms" =>
    \A k \in job[j].kept : \A o \in overrides : o.id # k.id

\* A term names the override of a request that is over, and so does a removal.
NamesAreSettled ==
  /\ \A t \in terms :
       t.override # NoOverride =>
         /\ req[t.override].op = "override" /\ req[t.override].pc = "done"
         /\ t.id \in req[t.override].terms
  /\ \A d \in Clients :
       req[d].op = "remove" =>
         /\ req[d].override # NoOverride
         /\ req[req[d].override].op = "override" /\ req[req[d].override].pc = "done"
         /\ req[d].terms = req[req[d].override].terms

\* Between the two statements of a correction its row is there, if its term is.
FlagHasARow ==
  \A c \in Clients : \A t \in terms :
    req[c].pc = "flag" /\ t.id \in req[c].terms => [id |-> c, term |-> t.id] \in overrides

\* A status 'extracting' is a job's, or a cause is on record.
ExtractingIsExplained ==
  doc.status = "extracting" =>
    \/ broken
    \/ \E c \in Clients :
         req[c].op = "resegment" \/ (req[c].op = "reextract" /\ ~req[c].ok)
    \/ \E j \in Jobs : job[j].kind = "extract" /\ job[j].pc # "add_segment"

\* The readiness is current, or a job is on the way to compute it.
ReadinessIsComing ==
  ~overlapped /\ ~broken =>
    /\ inserts > 0 => \/ readiness.of = Ids
                      \/ \E j \in Jobs : job[j].kind \in {"terms", "compute"}
    /\ \A j \in Jobs :
         job[j].pc \in {"exists", "insert_readiness", "update_readiness"} => job[j].of = Ids

IInv ==
  /\ TypeOK /\ KindsAgree /\ OneRuns /\ ClausesAreCounted /\ TermsAreCounted
  /\ NumbersAreTaken /\ RequestsAgree /\ OverridesStay /\ KeptWasInserted
  /\ NothingToReapply /\ NamesAreSettled /\ FlagHasARow
  /\ OverriddenHasACorrection /\ ExtractingIsExplained /\ ReadinessIsComing

(***************************************************************************)
(* Initial states                                                          *)
(***************************************************************************)
LEMMA InitHolds == Init => IInv
<1> SUFFICES ASSUME Init PROVE IInv
  OBVIOUS
<1> USE Absent, Bounds
<1>1. /\ \A t \in terms : t \in Term /\ t.id[2] = 0 /\ ~t.flagged /\ t.override = NoOverride
      /\ \A s, t \in terms : s.id[1] = t.id[1] => s = t
      /\ terms \subseteq Term
  <2>1. PICK types \in {{}, Types} :
          terms = {[id |-> <<t, 0>>, flagged |-> FALSE, override |-> NoOverride] : t \in types}
    BY DEF Init
  <2> DEFINE row(x) == [id |-> <<x, 0>>, flagged |-> FALSE, override |-> NoOverride]
  <2>2. \A t \in terms : \E x \in Types : t = row(x)
    BY <2>1
  <2>3. \A x \in Types : <<x, 0>> \in TermId
    BY DEF TermId
  <2>4. \A x \in Types : /\ row(x) \in Term /\ row(x).id = <<x, 0>>
                         /\ ~row(x).flagged /\ row(x).override = NoOverride
    BY <2>3 DEF Term
  <2>5. \A x, y \in Types : row(x).id[1] = row(y).id[1] => row(x) = row(y)
    BY <2>4
  <2> HIDE DEF row
  <2> QED
    BY <2>2, <2>4, <2>5
<1>2. \A c \in Clients : req[c] = Fresh
  BY DEF Init
<1>3. \A j \in Jobs : job[j] = NoJobHere
  BY DEF Init
<1>4. TypeOK
  <2>1. NoJobHere \in Job
    BY DEF NoJobHere, Job, Kind, Pc
  <2>2. Fresh \in Request
    BY DEF Fresh, Request
  <2>3. doc \in Document /\ readiness \in Readiness
    BY DEF Init, Document, Readiness
  <2>4. terms \subseteq Term
    BY <1>1
  <2>5. job \in [Jobs -> Job] /\ req \in [Clients -> Request]
    BY <2>1, <2>2 DEF Init
  <2>6. /\ clauses \in Nat /\ items \in Nat /\ inserts \in 0..MaxInserts
    BY DEF Init
  <2>7. overrides \subseteq Override
    BY DEF Init
  <2>8. overlapped \in BOOLEAN /\ broken \in BOOLEAN
    BY DEF Init
  <2> QED
    BY <2>3, <2>4, <2>5, <2>6, <2>7, <2>8 DEF TypeOK
<1>5. KindsAgree /\ OneRuns
  BY <1>3 DEF KindsAgree, OneRuns, NoJobHere, PcOf, Running
<1>6. ClausesAreCounted /\ TermsAreCounted
  BY <1>1, <1>3 DEF ClausesAreCounted, TermsAreCounted, NoJobHere, Init
<1>7. NumbersAreTaken /\ RequestsAgree
  BY <1>1, <1>2 DEF NumbersAreTaken, RequestsAgree, Fresh, Init
<1>8. OverridesStay /\ KeptWasInserted /\ NothingToReapply
  BY <1>3 DEF OverridesStay, KeptWasInserted, NothingToReapply, Init, NoJobHere
<1>9. NamesAreSettled /\ FlagHasARow /\ OverriddenHasACorrection
  BY <1>1, <1>2 DEF NamesAreSettled, FlagHasARow, OverriddenHasACorrection, Fresh
<1>10. ExtractingIsExplained /\ ReadinessIsComing
  BY <1>3 DEF ExtractingIsExplained, ReadinessIsComing, Init, NoJobHere
<1> QED
  BY <1>4, <1>5, <1>6, <1>7, <1>8, <1>9, <1>10 DEF IInv

(***************************************************************************)
(* How the operators of the actions change jobs                            *)
(***************************************************************************)
Others(j) == \A i \in Jobs \ {j} : job'[i] = job[i]

Blank(new) == new.found = {} /\ new.kept = {} /\ new.of = {}

LEMMA NewIsAJob ==
  ASSUME NEW kind \in Kind
  PROVE  /\ New(kind) \in Job /\ Blank(New(kind))
         /\ New(kind).kind = kind /\ New(kind).pc = "waiting" /\ New(kind).stalls = 0
<1> DEFINE some == [NoJobHere EXCEPT !.kind = kind]
<1>1. NoJobHere \in Job /\ Blank(NoJobHere) /\ NoJobHere.stalls = 0
  BY Bounds DEF NoJobHere, Job, Kind, Pc, Blank
<1>2. some \in Job /\ Blank(some) /\ some.stalls = 0 /\ some.kind = kind
  BY <1>1 DEF Job, Blank
<1>3. New(kind) = [some EXCEPT !.pc = "waiting"] /\ "waiting" \in Pc
  BY DEF New, Pc
<1> HIDE DEF some
<1> QED
  BY <1>2, <1>3 DEF Job, Blank

LEMMA StepFrame ==
  ASSUME TypeOK, NEW j \in Jobs, NEW from, NEW to \in Pc, Step(j, from, to)
  PROVE  /\ job' \in [Jobs -> Job] /\ Others(j)
         /\ job[j].pc = from /\ job'[j].pc = to
         /\ job'[j].kind = job[j].kind /\ job'[j].stalls = job[j].stalls
         /\ job'[j].kept = job[j].kept /\ job'[j].of = job[j].of
         /\ job'[j].found = job[j].found
<1> DEFINE new == [job[j] EXCEPT !.pc = to]
<1>1. job[j] \in Job /\ job \in [Jobs -> Job]
  BY DEF TypeOK
<1>2. /\ new \in Job /\ new.pc = to
      /\ new.kind = job[j].kind /\ new.stalls = job[j].stalls
      /\ new.kept = job[j].kept /\ new.of = job[j].of /\ new.found = job[j].found
  BY <1>1 DEF Job
<1>3. job' = [job EXCEPT ![j] = new] /\ job[j].pc = from
  BY DEF Step
<1> HIDE DEF new
<1> QED
  BY <1>1, <1>2, <1>3 DEF Others

LEMMA ReturnFrame ==
  ASSUME TypeOK, NEW j \in Jobs, NEW wrong \in BOOLEAN, Return(j, wrong)
  PROVE  /\ job' \in [Jobs -> Job] /\ Others(j) /\ job'[j] = NoJobHere
         /\ broken' \in BOOLEAN /\ (broken' <=> broken \/ wrong)
<1>1. NoJobHere \in Job
  BY Bounds DEF NoJobHere, Job, Kind, Pc
<1> QED
  BY <1>1 DEF TypeOK, Return, Others

\* A job j that hands over, and the job i it adds.
Passed(j, i, kind) ==
  /\ i # j /\ job[i] = NoJobHere /\ job'[i] = New(kind)
  /\ \A k \in Jobs \ {i, j} : job'[k] = job[k]
  /\ \/ job'[j] = NoJobHere
     \/ /\ job'[j].kind = job[j].kind /\ job'[j].pc = "waiting"
        /\ job'[j].kept = {}

LEMMA Again ==
  ASSUME NEW old \in Job, old.stalls < MaxStalls
  PROVE  LET new == [New(old.kind) EXCEPT !.stalls = old.stalls + 1]
         IN  new \in Job /\ new.kind = old.kind /\ new.pc = "waiting" /\ Blank(new)
<1> DEFINE first == New(old.kind)
<1>1. old.kind \in Kind /\ old.stalls + 1 \in 0..MaxStalls
  BY Bounds DEF Job
<1>2. first \in Job /\ Blank(first) /\ first.kind = old.kind /\ first.pc = "waiting"
  BY <1>1, NewIsAJob
<1> HIDE DEF first
<1>3. [first EXCEPT !.stalls = old.stalls + 1] \in Job
  BY <1>1, <1>2 DEF Job
<1>4. LET new == [first EXCEPT !.stalls = old.stalls + 1]
      IN  new.kind = old.kind /\ new.pc = "waiting" /\ Blank(new)
  BY <1>2 DEF Job, Blank
<1> QED
  BY <1>3, <1>4 DEF first

LEMMA HandsFrame ==
  ASSUME TypeOK, NEW j \in Jobs, NEW from, from # "none", NEW kind \in Kind,
         Hands(j, from, kind)
  PROVE  /\ job' \in [Jobs -> Job] /\ broken' = broken /\ job[j].pc = from
         /\ \E i \in Jobs : Passed(j, i, kind)
<1> DEFINE again == [New(job[j].kind) EXCEPT !.stalls = job[j].stalls + 1]
<1>1. job[j] \in Job /\ job \in [Jobs -> Job] /\ NoJobHere.pc = "none"
  BY DEF TypeOK, NoJobHere
<1>2. New(kind) \in Job
  BY NewIsAJob
<1>3. NoJobHere \in Job
  BY Bounds DEF NoJobHere, Job, Kind, Pc
<1>4. CASE ReturnAdding(j, from, kind)
  <2>1. PICK i \in Jobs : /\ job[i] = NoJobHere
                          /\ job' = [job EXCEPT ![j] = NoJobHere, ![i] = New(kind)]
    BY <1>4 DEF ReturnAdding
  <2>2. i # j /\ job[j].pc = from /\ broken' = broken
    BY <1>1, <1>4, <2>1 DEF ReturnAdding
  <2>3. Passed(j, i, kind) /\ job' \in [Jobs -> Job]
    BY <1>1, <1>2, <1>3, <2>1, <2>2 DEF Passed
  <2> QED
    BY <2>2, <2>3
<1>5. CASE DieAfterAdding(j, from, kind)
  <2>1. PICK i \in Jobs : /\ job[i] = NoJobHere
                          /\ job' = [job EXCEPT ![j] = again, ![i] = New(kind)]
    BY <1>5 DEF DieAfterAdding
  <2>2. i # j /\ job[j].pc = from /\ broken' = broken /\ job[j].stalls < MaxStalls
    BY <1>1, <1>5, <2>1 DEF DieAfterAdding
  <2>3. again \in Job /\ again.kind = job[j].kind /\ again.pc = "waiting" /\ again.kept = {}
    BY <1>1, <2>2, Again DEF Blank
  <2> HIDE DEF again
  <2>4. Passed(j, i, kind) /\ job' \in [Jobs -> Job]
    BY <1>1, <1>2, <2>1, <2>2, <2>3 DEF Passed
  <2> QED
    BY <2>2, <2>4
<1> QED
  BY <1>4, <1>5 DEF Hands

\* Dies either makes the job wait again or ends it and the pipeline.
LEMMA DiesFrame ==
  ASSUME TypeOK, NEW j \in Jobs, Dies(j)
  PROVE  /\ job' \in [Jobs -> Job] /\ Others(j) /\ broken' \in BOOLEAN
         /\ \/ /\ job'[j].kind = job[j].kind /\ job'[j].pc = "waiting"
               /\ job'[j].kept = {} /\ broken' = broken
            \/ job'[j] = NoJobHere /\ broken'
<1> DEFINE again == [New(job[j].kind) EXCEPT !.stalls = job[j].stalls + 1]
<1>1. job[j] \in Job /\ job \in [Jobs -> Job] /\ broken \in BOOLEAN
  BY DEF TypeOK
<1>2. CASE job[j].stalls < MaxStalls
  <2>1. again \in Job /\ again.kind = job[j].kind /\ again.pc = "waiting" /\ again.kept = {}
    BY <1>1, <1>2, Again DEF Blank
  <2>2. job' = [job EXCEPT ![j] = again] /\ broken' = broken
    BY <1>2 DEF Dies
  <2> HIDE DEF again
  <2> QED
    BY <1>1, <2>1, <2>2 DEF Others
<1>3. CASE ~(job[j].stalls < MaxStalls)
  <2>1. Return(j, TRUE)
    BY <1>3 DEF Dies
  <2> QED
    BY <2>1, ReturnFrame
<1> QED
  BY <1>2, <1>3
(***************************************************************************)
(* How the operators of the actions change requests and terms              *)
(***************************************************************************)
OtherRequests(c) == \A d \in Clients \ {c} : req'[d] = req[d]
SameRequest(c) ==
  req'[c].op = req[c].op /\ req'[c].terms = req[c].terms /\ req'[c].override = req[c].override

LEMMA GoOnFrame ==
  ASSUME TypeOK, NEW c \in Clients, NEW from,
         NEW to \in {"insert", "flag", "delete", "unflag", "status", "add", "done"},
         GoOn(c, from, to)
  PROVE  /\ req' \in [Clients -> Request] /\ OtherRequests(c) /\ SameRequest(c)
         /\ req[c].pc = from /\ req'[c].pc = to /\ req'[c].ok = req[c].ok
<1> DEFINE new == [req[c] EXCEPT !.pc = to]
<1>1. req \in [Clients -> Request] /\ req[c] \in Request
  BY DEF TypeOK
<1>2. /\ new \in Request /\ new.pc = to /\ new.op = req[c].op /\ new.terms = req[c].terms
      /\ new.override = req[c].override /\ new.ok = req[c].ok
  BY <1>1 DEF Request
<1>3. req' = [req EXCEPT ![c] = new] /\ req[c].pc = from
  BY DEF GoOn
<1> HIDE DEF new
<1> QED
  BY <1>1, <1>2, <1>3 DEF OtherRequests, SameRequest

LEMMA AnsweredFrame ==
  ASSUME TypeOK, NEW c \in Clients, NEW ok \in BOOLEAN, Answered(c, ok)
  PROVE  /\ req' \in [Clients -> Request] /\ OtherRequests(c) /\ SameRequest(c)
         /\ req'[c].pc = "done" /\ req'[c].ok = ok
<1> DEFINE new == [[req[c] EXCEPT !.pc = "done"] EXCEPT !.ok = ok]
<1>1. req \in [Clients -> Request] /\ req[c] \in Request
  BY DEF TypeOK
<1> DEFINE mid == [req[c] EXCEPT !.pc = "done"]
<1>2. /\ mid \in Request /\ mid.pc = "done" /\ mid.op = req[c].op /\ mid.terms = req[c].terms
      /\ mid.override = req[c].override
  BY <1>1 DEF Request
<1> HIDE DEF mid
<1>3. /\ [mid EXCEPT !.ok = ok] \in Request /\ [mid EXCEPT !.ok = ok].pc = "done"
      /\ [mid EXCEPT !.ok = ok].op = req[c].op /\ [mid EXCEPT !.ok = ok].terms = req[c].terms
      /\ [mid EXCEPT !.ok = ok].override = req[c].override /\ [mid EXCEPT !.ok = ok].ok = ok
  BY <1>2 DEF Request
<1>4. new = [mid EXCEPT !.ok = ok]
  BY DEF mid
<1>5. req' = [req EXCEPT ![c] = new]
  BY <1>1 DEF Answered
<1> HIDE DEF new
<1> QED
  BY <1>1, <1>3, <1>4, <1>5 DEF OtherRequests, SameRequest

\* A new request: what the route was asked and has read.
Begins(c, op, pc, ids, override, ok) ==
  /\ req[c].pc = "idle"
  /\ req'[c].op = op /\ req'[c].pc = pc /\ req'[c].terms = ids
  /\ req'[c].override = override /\ req'[c].ok = ok

LEMMA BeginFrame ==
  ASSUME TypeOK, NEW c \in Clients, NEW new \in Request, req' = [req EXCEPT ![c] = new],
         req[c].pc = "idle"
  PROVE  /\ req' \in [Clients -> Request] /\ OtherRequests(c)
         /\ Begins(c, new.op, new.pc, new.terms, new.override, new.ok)
BY DEF TypeOK, OtherRequests, Begins

LEMMA FreshIsARequest ==
  /\ Fresh \in Request /\ Fresh.op = "none" /\ Fresh.pc = "idle" /\ Fresh.terms = {}
  /\ Fresh.override = NoOverride /\ ~Fresh.ok
BY DEF Fresh, Request

LEMMA OverrideBegins ==
  ASSUME TypeOK, NEW c \in Clients, OverrideTerm(c)
  PROVE  /\ req' \in [Clients -> Request] /\ OtherRequests(c)
         /\ \E t \in terms : Begins(c, "override", "insert", {t.id}, NoOverride, FALSE)
<1>1. PICK t \in terms :
        req' = [req EXCEPT ![c] = [Fresh EXCEPT !.op = "override", !.pc = "insert",
                                                !.terms = {t.id}]]
  BY DEF OverrideTerm
<1> DEFINE r1 == [Fresh EXCEPT !.op = "override"]
<1> DEFINE r2 == [r1 EXCEPT !.pc = "insert"]
<1> DEFINE r3 == [r2 EXCEPT !.terms = {t.id}]
<1>2. t.id \in TermId
  BY DEF TypeOK, Term
<1>3. /\ r1 \in Request /\ r1.op = "override" /\ r1.override = NoOverride /\ ~r1.ok
  BY FreshIsARequest DEF Request
<1> HIDE DEF r1
<1>4. /\ r2 \in Request /\ r2.op = "override" /\ r2.pc = "insert"
      /\ r2.override = NoOverride /\ ~r2.ok
  BY <1>3 DEF Request
<1> HIDE DEF r2
<1>5. /\ r3 \in Request /\ r3.op = "override" /\ r3.pc = "insert" /\ r3.terms = {t.id}
      /\ r3.override = NoOverride /\ r3.ok = FALSE
  BY <1>2, <1>4 DEF Request
<1>6. req' = [req EXCEPT ![c] = r3]
  BY <1>1 DEF r1, r2
<1>7. req[c].pc = "idle"
  BY DEF OverrideTerm
<1> HIDE DEF r3
<1>8. Begins(c, "override", "insert", {t.id}, NoOverride, FALSE)
  BY <1>5, <1>6, <1>7, BeginFrame DEF Begins
<1> QED
  BY <1>5, <1>6, <1>7, <1>8, BeginFrame

LEMMA RemoveBegins ==
  ASSUME TypeOK, NEW c \in Clients, RemoveOverride(c)
  PROVE  /\ req' \in [Clients -> Request] /\ OtherRequests(c)
         /\ \E t \in terms : /\ t.override # NoOverride
                             /\ Begins(c, "remove", "delete", {t.id}, t.override, FALSE)
<1>1. PICK t \in terms :
        /\ t.override # NoOverride
        /\ req' = [req EXCEPT ![c] = [Fresh EXCEPT !.op = "remove", !.pc = "delete",
                                                   !.terms = {t.id},
                                                   !.override = t.override]]
  BY DEF RemoveOverride
<1> DEFINE r1 == [Fresh EXCEPT !.op = "remove"]
<1> DEFINE r2 == [r1 EXCEPT !.pc = "delete"]
<1> DEFINE r3 == [r2 EXCEPT !.terms = {t.id}]
<1> DEFINE r4 == [r3 EXCEPT !.override = t.override]
<1>2. t.id \in TermId /\ t.override \in Clients \cup {NoOverride}
  BY DEF TypeOK, Term
<1>3. r1 \in Request /\ r1.op = "remove" /\ ~r1.ok
  BY FreshIsARequest DEF Request
<1> HIDE DEF r1
<1>4. r2 \in Request /\ r2.op = "remove" /\ r2.pc = "delete" /\ ~r2.ok
  BY <1>3 DEF Request
<1> HIDE DEF r2
<1>5. r3 \in Request /\ r3.op = "remove" /\ r3.pc = "delete" /\ r3.terms = {t.id} /\ ~r3.ok
  BY <1>2, <1>4 DEF Request
<1> HIDE DEF r3
<1>6. /\ r4 \in Request /\ r4.op = "remove" /\ r4.pc = "delete" /\ r4.terms = {t.id}
      /\ r4.override = t.override /\ r4.ok = FALSE
  BY <1>2, <1>5 DEF Request
<1>7. req' = [req EXCEPT ![c] = r4]
  BY <1>1 DEF r1, r2, r3
<1>8. req[c].pc = "idle"
  BY DEF RemoveOverride
<1> HIDE DEF r4
<1>9. Begins(c, "remove", "delete", {t.id}, t.override, FALSE)
  BY <1>6, <1>7, <1>8, BeginFrame DEF Begins
<1> QED
  BY <1>1, <1>6, <1>7, <1>8, <1>9, BeginFrame

LEMMA ReprocessBegins ==
  ASSUME TypeOK, NEW c \in Clients, Reprocess(c)
  PROVE  /\ req' \in [Clients -> Request] /\ OtherRequests(c)
         /\ \E op \in {"resegment", "reextract"} :
              Begins(c, op, "status", {}, NoOverride, FALSE)
<1>1. PICK op \in {"resegment", "reextract"} :
        req' = [req EXCEPT ![c] = [Fresh EXCEPT !.op = op, !.pc = "status"]]
  BY DEF Reprocess
<1> DEFINE r1 == [Fresh EXCEPT !.op = op]
<1> DEFINE r2 == [r1 EXCEPT !.pc = "status"]
<1>2. r1 \in Request /\ r1.op = op /\ r1.terms = {} /\ r1.override = NoOverride /\ ~r1.ok
  BY FreshIsARequest DEF Request
<1> HIDE DEF r1
<1>3. /\ r2 \in Request /\ r2.op = op /\ r2.pc = "status" /\ r2.terms = {}
      /\ r2.override = NoOverride /\ r2.ok = FALSE
  BY <1>2 DEF Request
<1>4. req' = [req EXCEPT ![c] = r2]
  BY <1>1 DEF r1
<1>5. req[c].pc = "idle"
  BY DEF Reprocess
<1> HIDE DEF r2
<1>6. Begins(c, op, "status", {}, NoOverride, FALSE)
  BY <1>3, <1>4, <1>5, BeginFrame DEF Begins
<1> QED
  BY <1>3, <1>4, <1>5, <1>6, BeginFrame

LEMMA ReviewBegins ==
  ASSUME TypeOK, NEW c \in Clients, MarkReviewed(c)
  PROVE  /\ req' \in [Clients -> Request] /\ OtherRequests(c)
         /\ Begins(c, "review", "done", {}, NoOverride, TRUE)
<1> DEFINE r1 == [Fresh EXCEPT !.op = "review"]
<1> DEFINE r2 == [r1 EXCEPT !.pc = "done"]
<1> DEFINE r3 == [r2 EXCEPT !.ok = TRUE]
<1>1. r1 \in Request /\ r1.op = "review" /\ r1.terms = {} /\ r1.override = NoOverride
  BY FreshIsARequest DEF Request
<1> HIDE DEF r1
<1>2. /\ r2 \in Request /\ r2.op = "review" /\ r2.pc = "done" /\ r2.terms = {}
      /\ r2.override = NoOverride
  BY <1>1 DEF Request
<1> HIDE DEF r2
<1>3. /\ r3 \in Request /\ r3.op = "review" /\ r3.pc = "done" /\ r3.terms = {}
      /\ r3.override = NoOverride /\ r3.ok = TRUE
  BY <1>2 DEF Request
<1>4. req' = [req EXCEPT ![c] = r3]
  BY DEF MarkReviewed, r1, r2
<1>5. req[c].pc = "idle"
  BY DEF MarkReviewed
<1> HIDE DEF r3
<1>6. Begins(c, "review", "done", {}, NoOverride, TRUE)
  BY <1>3, <1>4, <1>5, BeginFrame DEF Begins
<1> QED
  BY <1>3, <1>4, <1>5, <1>6, BeginFrame

\* Requests change what the terms show, never which terms there are.
TermsKept ==
  /\ terms' \subseteq Term /\ Ids' = Ids
  /\ (\A s, t \in terms : s.id[1] = t.id[1] => s = t) =>
       (\A s, t \in terms' : s.id[1] = t.id[1] => s = t)

LEMMA SetFlagFrame ==
  ASSUME TypeOK, NEW ids, NEW flag \in BOOLEAN, NEW override \in Clients \cup {NoOverride},
         SetFlag(ids, flag, override)
  PROVE  /\ TermsKept
         /\ \A u \in terms' :
              \/ u \in terms /\ u.id \notin ids
              \/ u.id \in ids /\ u.id \in Ids /\ u.flagged = flag /\ u.override = override
<1> DEFINE m(t) == [t EXCEPT !.flagged = flag, !.override = override]
<1> DEFINE f(t) == IF t.id \in ids THEN m(t) ELSE t
<1>1. \A t \in Term : /\ m(t) \in Term /\ m(t).id = t.id /\ m(t).flagged = flag
                      /\ m(t).override = override
  <2> TAKE t \in Term
  <2> DEFINE r1 == [t EXCEPT !.flagged = flag]
  <2>1. r1 \in Term /\ r1.id = t.id /\ r1.flagged = flag
    BY DEF Term
  <2> HIDE DEF r1
  <2>2. LET r2 == [r1 EXCEPT !.override = override]
        IN  r2 \in Term /\ r2.id = t.id /\ r2.flagged = flag /\ r2.override = override
    BY <2>1 DEF Term
  <2> QED
    BY <2>2 DEF r1
<1>2. terms' = {f(t) : t \in terms} /\ terms \subseteq Term
  BY DEF SetFlag, TypeOK
<1> HIDE DEF m
<1>3. \A t \in terms : /\ f(t) \in Term /\ f(t).id = t.id
                       /\ \/ f(t) = t /\ t.id \notin ids
                          \/ t.id \in ids /\ f(t).flagged = flag /\ f(t).override = override
  BY <1>1, <1>2
<1> HIDE DEF f
<1>4. terms' \subseteq Term /\ \A u \in terms' : \E t \in terms : u = f(t)
  BY <1>2, <1>3
<1>5. Ids' = Ids
  <2>1. \A u \in terms' : u.id \in Ids
    BY <1>3, <1>4 DEF Ids
  <2>2. \A t \in terms : f(t) \in terms' /\ f(t).id = t.id
    BY <1>2, <1>3
  <2>3. Ids' = {u.id : u \in terms'}
    BY DEF Ids
  <2>4. \A t \in terms : t.id \in Ids'
    BY <2>2, <2>3
  <2> QED
    BY <2>1, <2>3, <2>4 DEF Ids
<1>6. \A u \in terms' :
        \/ u \in terms /\ u.id \notin ids
        \/ u.id \in ids /\ u.id \in Ids /\ u.flagged = flag /\ u.override = override
  BY <1>3, <1>4 DEF Ids
<1>7. ASSUME \A s, t \in terms : s.id[1] = t.id[1] => s = t
      PROVE  \A s, t \in terms' : s.id[1] = t.id[1] => s = t
  BY <1>3, <1>4, <1>7
<1> QED
  BY <1>4, <1>5, <1>6, <1>7 DEF TermsKept

LEMMA DeleteOverrideFrame ==
  ASSUME TypeOK, NEW c \in Clients, DeleteOverride(c)
  PROVE  /\ TermsKept
         /\ \A u \in terms' : \E t \in terms :
              /\ u.id = t.id /\ u.flagged = t.flagged
              /\ u.override = NoOverride \/ u = t
<1> DEFINE m(t) == [t EXCEPT !.override = NoOverride]
<1> DEFINE f(t) == IF t.override = req[c].override THEN m(t) ELSE t
<1>1. \A t \in Term : /\ m(t) \in Term /\ m(t).id = t.id /\ m(t).flagged = t.flagged
                      /\ m(t).override = NoOverride
  BY DEF Term
<1>2. terms' = {f(t) : t \in terms} /\ terms \subseteq Term
  BY DEF DeleteOverride, TypeOK
<1> HIDE DEF m
<1>3. \A t \in terms : /\ f(t) \in Term /\ f(t).id = t.id /\ f(t).flagged = t.flagged
                       /\ f(t).override = NoOverride \/ f(t) = t
  <2>1. \A t \in Term : t.flagged = t.flagged
    OBVIOUS
  <2> QED
    BY <1>1, <1>2
<1> HIDE DEF f
<1>4. terms' \subseteq Term /\ \A u \in terms' : \E t \in terms : u = f(t)
  BY <1>2, <1>3
<1>5. Ids' = Ids
  <2>1. \A u \in terms' : u.id \in Ids
    BY <1>3, <1>4 DEF Ids
  <2>2. \A t \in terms : f(t) \in terms' /\ f(t).id = t.id
    BY <1>2, <1>3
  <2>3. Ids' = {u.id : u \in terms'}
    BY DEF Ids
  <2>4. \A t \in terms : t.id \in Ids'
    BY <2>2, <2>3
  <2> QED
    BY <2>1, <2>3, <2>4 DEF Ids
<1>6. \A u \in terms' : \E t \in terms :
        u.id = t.id /\ u.flagged = t.flagged /\ (u.override = NoOverride \/ u = t)
  BY <1>3, <1>4
<1>7. ASSUME \A s, t \in terms : s.id[1] = t.id[1] => s = t
      PROVE  \A s, t \in terms' : s.id[1] = t.id[1] => s = t
  BY <1>3, <1>4, <1>7
<1> QED
  BY <1>4, <1>5, <1>6, <1>7 DEF TermsKept

LEMMA InsertOverrideFrame ==
  ASSUME TypeOK, NEW c \in Clients, InsertOverride(c)
  PROVE  /\ overrides' \subseteq Override
         /\ \/ /\ req[c].terms \subseteq Ids /\ GoOn(c, "insert", "flag")
               /\ \A id \in req[c].terms : [id |-> c, term |-> id] \in overrides'
               /\ \A o \in overrides' : o \in overrides \/ (o.id = c /\ o.term \in req[c].terms)
               /\ overrides \subseteq overrides'
            \/ Answered(c, FALSE) /\ overrides' = overrides
<1> DEFINE row(id) == [id |-> c, term |-> id]
<1> DEFINE made == {row(id) : id \in req[c].terms}
<1>1. req[c].terms \subseteq TermId /\ overrides \subseteq Override
  BY DEF TypeOK, Request
<1>2. \A id \in TermId : row(id) \in Override /\ row(id).id = c /\ row(id).term = id
  BY DEF Override
<1>3. \/ req[c].terms \subseteq Ids /\ GoOn(c, "insert", "flag") /\ overrides' = overrides \cup made
      \/ Answered(c, FALSE) /\ overrides' = overrides
  BY DEF InsertOverride
<1> HIDE DEF row
<1>4. /\ \A o \in made : o \in Override /\ o.id = c /\ o.term \in req[c].terms
      /\ \A id \in req[c].terms : row(id) \in made
  BY <1>1, <1>2
<1> HIDE DEF made
<1>5. CASE overrides' = overrides \cup made /\ req[c].terms \subseteq Ids /\ GoOn(c, "insert", "flag")
  <2>1. \A id \in req[c].terms : row(id) \in overrides'
    BY <1>4, <1>5
  <2> QED
    BY <1>1, <1>4, <1>5, <2>1 DEF row
<1> QED
  BY <1>1, <1>3, <1>5

(***************************************************************************)
(* Types                                                                   *)
(***************************************************************************)
\* A request ends, goes on, or begins, and leaves the jobs alone.
LEMMA RequestFrame ==
  ASSUME TypeOK, NEW c \in Clients, RequestStep(c)
  PROVE  /\ req' \in [Clients -> Request] /\ OtherRequests(c)
         /\ req[c].pc # "done" /\ req'[c].pc # "idle"
         /\ req[c].pc = "idle" \/ SameRequest(c)
         /\ UNCHANGED <<clauses, items, inserts, history>>
<1>1. CASE OverrideTerm(c)
  BY <1>1, OverrideBegins DEF OverrideTerm, Begins, documents
<1>2. CASE InsertOverride(c)
  <2>1. UNCHANGED <<clauses, items, inserts, history>> /\ req[c].pc = "insert"
    BY <1>2 DEF InsertOverride, documents
  <2>2. GoOn(c, "insert", "flag") \/ Answered(c, FALSE)
    BY <1>2 DEF InsertOverride
  <2> QED
    BY <2>1, <2>2, GoOnFrame, AnsweredFrame
<1>3. CASE FlagTerm(c)
  <2>1. UNCHANGED <<clauses, items, inserts, history>> /\ req[c].pc = "flag"
    BY <1>3 DEF FlagTerm, documents
  <2> QED
    BY <1>3, <2>1, AnsweredFrame DEF FlagTerm
<1>4. CASE RemoveOverride(c)
  BY <1>4, RemoveBegins DEF RemoveOverride, Begins, documents
<1>5. CASE DeleteOverride(c)
  <2>1. UNCHANGED <<clauses, items, inserts, history>> /\ GoOn(c, "delete", "unflag")
    BY <1>5 DEF DeleteOverride, documents
  <2> QED
    BY <2>1, GoOnFrame
<1>6. CASE UnflagTerm(c)
  <2>1. UNCHANGED <<clauses, items, inserts, history>> /\ req[c].pc = "unflag"
    BY <1>6 DEF UnflagTerm, documents
  <2> QED
    BY <1>6, <2>1, AnsweredFrame DEF UnflagTerm
<1>7. CASE Reprocess(c)
  BY <1>7, ReprocessBegins DEF Reprocess, Begins, rows
<1>8. CASE SetExtracting(c)
  <2>1. UNCHANGED <<clauses, items, inserts, history>> /\ GoOn(c, "status", "add")
    BY <1>8 DEF SetExtracting, rows
  <2> QED
    BY <2>1, GoOnFrame
<1>9. CASE AddFirst(c)
  <2>1. UNCHANGED <<clauses, items, inserts, history>> /\ req[c].pc = "add"
    BY <1>9 DEF AddFirst, rows
  <2> QED
    BY <1>9, <2>1, AnsweredFrame DEF AddFirst
<1>10. CASE MarkReviewed(c)
  BY <1>10, ReviewBegins DEF MarkReviewed, Begins
<1>11. CASE RequestFails(c)
  <2>1. UNCHANGED <<clauses, items, inserts, history>> /\ req[c].pc \notin {"idle", "done"}
    BY <1>11 DEF RequestFails, rows
  <2> QED
    BY <1>11, <2>1, AnsweredFrame DEF RequestFails
<1> QED
  BY <1>1, <1>2, <1>3, <1>4, <1>5, <1>6, <1>7, <1>8, <1>9, <1>10, <1>11 DEF RequestStep

\* Only POST /:id/reprocess touches the jobs.
LEMMA AddFirstFrame ==
  ASSUME TypeOK, NEW c \in Clients, AddFirst(c)
  PROVE  /\ job' \in [Jobs -> Job] /\ req[c].pc = "add"
         /\ \E i \in Jobs : /\ job[i] = NoJobHere /\ Others(i)
                            /\ job'[i] = New(IF req[c].op = "reextract" THEN "extract"
                                             ELSE "segment")
<1> DEFINE kind == IF req[c].op = "reextract" THEN "extract" ELSE "segment"
<1>1. kind \in Kind
  BY DEF Kind
<1>2. PICK i \in Jobs : job[i] = NoJobHere /\ job' = [job EXCEPT ![i] = New(kind)]
  BY DEF AddFirst
<1> HIDE DEF kind
<1>3. New(kind) \in Job
  BY <1>1, NewIsAJob
<1>4. job' \in [Jobs -> Job] /\ Others(i) /\ job'[i] = New(kind)
  BY <1>2, <1>3 DEF TypeOK, Others
<1> QED
  BY <1>2, <1>4 DEF kind, AddFirst

LEMMA RequestTypes ==
  ASSUME TypeOK, NEW c \in Clients, RequestStep(c)
  PROVE  TypeOK'
<1>1. req' \in [Clients -> Request] /\ UNCHANGED <<clauses, items, inserts, history>>
  BY RequestFrame
<1>2. job' \in [Jobs -> Job]
  <2>1. CASE AddFirst(c)
    BY <2>1, AddFirstFrame
  <2>2. CASE ~AddFirst(c)
    <3>1. job' = job
      BY <2>2 DEF RequestStep, OverrideTerm, InsertOverride, FlagTerm, RemoveOverride,
                  DeleteOverride, UnflagTerm, Reprocess, SetExtracting, MarkReviewed,
                  RequestFails
    <3> QED
      BY <3>1 DEF TypeOK
  <2> QED
    BY <2>1, <2>2
<1>3. terms' \subseteq Term
  <2>1. CASE FlagTerm(c)
    BY <2>1, SetFlagFrame DEF FlagTerm, TermsKept
  <2>2. CASE UnflagTerm(c)
    BY <2>2, SetFlagFrame DEF UnflagTerm, TermsKept
  <2>3. CASE DeleteOverride(c)
    BY <2>3, DeleteOverrideFrame DEF TermsKept
  <2>4. CASE ~FlagTerm(c) /\ ~UnflagTerm(c) /\ ~DeleteOverride(c)
    <3>1. terms' = terms
      BY <2>4 DEF RequestStep, OverrideTerm, InsertOverride, RemoveOverride, Reprocess,
                  SetExtracting, AddFirst, MarkReviewed, RequestFails, rows
    <3> QED
      BY <3>1 DEF TypeOK
  <2> QED
    BY <2>1, <2>2, <2>3, <2>4
<1>4. overrides' \subseteq Override
  <2>1. CASE InsertOverride(c)
    BY <2>1, InsertOverrideFrame DEF TypeOK
  <2>2. CASE DeleteOverride(c)
    BY <2>2 DEF DeleteOverride, TypeOK
  <2>3. CASE ~InsertOverride(c) /\ ~DeleteOverride(c)
    <3>1. overrides' = overrides
      BY <2>3 DEF RequestStep, OverrideTerm, FlagTerm, RemoveOverride, UnflagTerm,
                  Reprocess, SetExtracting, AddFirst, MarkReviewed, RequestFails, rows
    <3> QED
      BY <3>1 DEF TypeOK
  <2> QED
    BY <2>1, <2>2, <2>3
<1>5. doc' \in Document
  <2>1. CASE SetExtracting(c)
    BY <2>1 DEF SetExtracting, TypeOK, Document
  <2>2. CASE ~SetExtracting(c)
    <3>1. doc' = doc
      BY <2>2 DEF RequestStep, OverrideTerm, InsertOverride, FlagTerm, RemoveOverride,
                  DeleteOverride, UnflagTerm, Reprocess, AddFirst, MarkReviewed,
                  RequestFails, documents
    <3> QED
      BY <3>1 DEF TypeOK
  <2> QED
    BY <2>1, <2>2
<1>6. readiness' \in Readiness
  <2>1. CASE MarkReviewed(c)
    <3> DEFINE r1 == [readiness EXCEPT !.status = "ready"]
    <3>1. r1 \in Readiness /\ readiness \in Readiness
      BY DEF TypeOK, Readiness
    <3> HIDE DEF r1
    <3>2. [r1 EXCEPT !.reviewed = TRUE] \in Readiness
      BY <3>1 DEF Readiness
    <3>3. readiness' = readiness \/ readiness' = [r1 EXCEPT !.reviewed = TRUE]
      BY <2>1 DEF MarkReviewed, r1
    <3> QED
      BY <3>1, <3>2, <3>3
  <2>2. CASE ~MarkReviewed(c)
    <3>1. readiness' = readiness
      BY <2>2 DEF RequestStep, OverrideTerm, InsertOverride, FlagTerm, RemoveOverride,
                  DeleteOverride, UnflagTerm, Reprocess, SetExtracting, AddFirst,
                  RequestFails, documents, rows
    <3> QED
      BY <3>1 DEF TypeOK
  <2> QED
    BY <2>1, <2>2
<1> QED
  <2>1. /\ clauses' \in Nat /\ items' \in Nat /\ inserts' \in 0..MaxInserts
    BY <1>1 DEF TypeOK
  <2>2. overlapped' \in BOOLEAN /\ broken' \in BOOLEAN
    BY <1>1 DEF TypeOK, history
  <2> QED
    BY <1>1, <1>2, <1>3, <1>4, <1>5, <1>6, <2>1, <2>2 DEF TypeOK

\* What the jobs at a step do, in two groups: those that go on to another step,
\* and those that end here or are run again.
LEMMA ReadFrame ==
  ASSUME TypeOK, NEW j \in Jobs, ReadOverrides(j)
  PROVE  /\ job' \in [Jobs -> Job] /\ Others(j)
         /\ job[j].pc = "overrides" /\ job'[j].pc = "clauses" /\ job'[j].of = job[j].of
         /\ job'[j].kind = job[j].kind /\ job'[j].kept \subseteq overrides
<1>1. PICK kept \in SUBSET overrides :
        job' = [job EXCEPT ![j].pc = "clauses", ![j].kept = kept]
  BY DEF ReadOverrides
<1> DEFINE r1 == [job[j] EXCEPT !.pc = "clauses"]
<1> DEFINE r2 == [r1 EXCEPT !.kept = kept]
<1>2. job \in [Jobs -> Job] /\ job[j] \in Job /\ overrides \subseteq Override
  BY DEF TypeOK
<1>3. r1 \in Job /\ r1.pc = "clauses" /\ r1.kind = job[j].kind /\ r1.of = job[j].of
  BY <1>2 DEF Job, Pc
<1> HIDE DEF r1
<1>4. /\ r2 \in Job /\ r2.pc = "clauses" /\ r2.kind = job[j].kind /\ r2.kept = kept
      /\ r2.of = job[j].of
  BY <1>2, <1>3 DEF Job
<1>5. job' = [job EXCEPT ![j] = r2]
  BY <1>1, <1>2 DEF r1
<1> HIDE DEF r2
<1> QED
  BY <1>2, <1>4, <1>5 DEF Others, ReadOverrides

LEMMA FoundFrame ==
  ASSUME TypeOK, NEW j \in Jobs, NEW found \in SUBSET Types, NEW low \in BOOLEAN,
         \/ job' = [job EXCEPT ![j].pc = "delete_terms", ![j].found = found, ![j].low = low]
         \/ job' = [job EXCEPT ![j].pc = "delete_terms", ![j].found = found]
  PROVE  /\ job' \in [Jobs -> Job] /\ Others(j) /\ job'[j].pc = "delete_terms"
         /\ job'[j].kind = job[j].kind /\ job'[j].kept = job[j].kept
         /\ job'[j].of = job[j].of
<1> DEFINE r1 == [job[j] EXCEPT !.pc = "delete_terms"]
<1> DEFINE r2 == [r1 EXCEPT !.found = found]
<1> DEFINE r3 == [r2 EXCEPT !.low = low]
<1>1. job \in [Jobs -> Job] /\ job[j] \in Job
  BY DEF TypeOK
<1>2. job' = [job EXCEPT ![j] = r3] \/ job' = [job EXCEPT ![j] = r2]
  BY <1>1
<1>3. /\ r1 \in Job /\ r1.pc = "delete_terms" /\ r1.kind = job[j].kind
      /\ r1.kept = job[j].kept /\ r1.of = job[j].of
  BY <1>1 DEF Job, Pc
<1> HIDE DEF r1
<1>4. /\ r2 \in Job /\ r2.pc = "delete_terms" /\ r2.kind = job[j].kind
      /\ r2.kept = job[j].kept /\ r2.of = job[j].of
  BY <1>3 DEF Job
<1> HIDE DEF r2
<1>5. /\ r3 \in Job /\ r3.pc = "delete_terms" /\ r3.kind = job[j].kind
      /\ r3.kept = job[j].kept /\ r3.of = job[j].of
  BY <1>4 DEF Job
<1> HIDE DEF r3
<1> QED
  BY <1>1, <1>2, <1>4, <1>5 DEF Others

LEMMA ReadTermsFrame ==
  ASSUME TypeOK, NEW j \in Jobs, ReadTerms(j)
  PROVE  /\ job' \in [Jobs -> Job] /\ Others(j)
         /\ job[j].pc = "terms" /\ job'[j].pc = "exists"
         /\ job'[j].kind = job[j].kind /\ job'[j].of = Ids /\ job'[j].kept = job[j].kept
<1> DEFINE r1 == [job[j] EXCEPT !.pc = "exists"]
<1> DEFINE r2 == [r1 EXCEPT !.of = Ids]
<1>1. job \in [Jobs -> Job] /\ job[j] \in Job
  BY DEF TypeOK
<1>2. Ids \in SUBSET TermId
  BY DEF Ids, TypeOK, Term
<1>3. r1 \in Job /\ r1.pc = "exists" /\ r1.kind = job[j].kind /\ r1.kept = job[j].kept
  BY <1>1 DEF Job, Pc
<1> HIDE DEF r1
<1>4. /\ r2 \in Job /\ r2.pc = "exists" /\ r2.kind = job[j].kind /\ r2.kept = job[j].kept
      /\ r2.of = Ids
  BY <1>2, <1>3 DEF Job
<1>5. job' = [job EXCEPT ![j] = r2]
  BY <1>1 DEF ReadTerms, r1
<1> HIDE DEF r2
<1> QED
  BY <1>1, <1>4, <1>5 DEF Others, ReadTerms

LEMMA FetchFrame ==
  ASSUME TypeOK, NEW j \in Jobs, Fetch(j)
  PROVE  /\ job' \in [Jobs -> Job] /\ Others(j)
         /\ job[j].pc = "waiting" /\ job'[j].pc = First[job[j].kind]
         /\ job'[j].kind = job[j].kind /\ job'[j].kept = job[j].kept
         /\ (overlapped' <=> overlapped \/ \E i \in Jobs \ {j} : Running(i))
         /\ overlapped' \in BOOLEAN
<1> DEFINE new == [job[j] EXCEPT !.pc = First[job[j].kind]]
<1>1. job \in [Jobs -> Job] /\ job[j] \in Job /\ overlapped \in BOOLEAN
  BY DEF TypeOK
<1>2. First[job[j].kind] \in Pc
  BY <1>1 DEF First, Job, Kind, Pc
<1>3. /\ new \in Job /\ new.pc = First[job[j].kind] /\ new.kind = job[j].kind
      /\ new.kept = job[j].kept
  BY <1>1, <1>2 DEF Job
<1>4. job' = [job EXCEPT ![j] = new]
  BY DEF Fetch
<1> HIDE DEF new
<1> QED
  BY <1>1, <1>3, <1>4 DEF Others, Fetch

LEMMA InsertTermsFrame ==
  ASSUME TypeOK, NothingToReapply, NEW j \in Jobs, InsertTerms(j)
  PROVE  /\ job[j].pc = "insert_terms" /\ overrides' = overrides
         /\ \/ /\ inserts' = inserts + 1 /\ inserts' \in 0..MaxInserts /\ broken' = broken
               /\ Step(j, "insert_terms", IF job[j].low THEN "items" ELSE "add_compute")
               /\ terms' \subseteq Term
               /\ \A u \in terms' :
                    \/ u \in terms
                    \/ u.id[2] = inserts + 1 /\ ~u.flagged /\ u.override = NoOverride
               /\ terms \subseteq terms'
               /\ terms = {} => \A u, v \in terms' : u.id[1] = v.id[1] => u = v
            \/ Return(j, TRUE) /\ UNCHANGED <<terms, inserts>>
<1> DEFINE ids == {o.id : o \in Reapplied(j)}
<1> DEFINE mine(t) == {o \in Reapplied(j) : o.term[1] = t}
<1> DEFINE row(t) == [id |-> <<t, inserts + 1>>, flagged |-> mine(t) # {},
                      override |-> IF mine(t) = {} THEN NoOverride
                                   ELSE (CHOOSE o \in mine(t) : TRUE).id]
<1> DEFINE moved(o) == IF \E k \in Reapplied(j) : k.id = o.id
                       THEN [o EXCEPT !.term = <<o.term[1], inserts + 1>>]
                       ELSE o
<1>1. /\ job[j].pc = "insert_terms" /\ inserts < MaxInserts
      /\ inserts \in 0..MaxInserts /\ terms \subseteq Term /\ job[j] \in Job
  BY DEF InsertTerms, TypeOK
<1>2. CASE ids \subseteq {o.id : o \in overrides}
  <2>1. Reapplied(j) = {}
    <3>1. \A k \in Reapplied(j) : k \in job[j].kept
      BY DEF Reapplied
    <3>2. \A k \in Reapplied(j) : \E o \in overrides : o.id = k.id
      BY <1>2
    <3> QED
      BY <1>1, <3>1, <3>2 DEF NothingToReapply
  <2>2. /\ terms' = terms \cup {row(t) : t \in job[j].found}
        /\ overrides' = {moved(o) : o \in overrides}
        /\ inserts' = inserts + 1 /\ broken' = broken
        /\ Step(j, "insert_terms", IF job[j].low THEN "items" ELSE "add_compute")
    BY <1>2 DEF InsertTerms
  <2>3. \A o \in overrides : moved(o) = o
    BY <2>1
  <2> HIDE DEF moved
  <2>4. overrides' = overrides
    BY <2>2, <2>3
  <2>5. \A t : mine(t) = {}
    BY <2>1
  <2> HIDE DEF mine
  <2>6. /\ inserts + 1 \in 0..MaxInserts /\ job[j].found \subseteq Types
    BY <1>1, Bounds DEF Job
  <2>7. \A t \in Types : <<t, inserts + 1>> \in TermId
    BY <2>6 DEF TermId
  <2>8. \A t \in Types : /\ row(t) \in Term /\ row(t).id = <<t, inserts + 1>>
                         /\ ~row(t).flagged /\ row(t).override = NoOverride
    BY <2>5, <2>7 DEF Term
  <2>9. \A s, t \in Types : row(s).id[1] = row(t).id[1] => row(s) = row(t)
    BY <2>8
  <2> HIDE DEF row
  <2>10. \A t \in Types : row(t).id[2] = inserts + 1
    BY <2>8
  <2> DEFINE made == {row(t) : t \in job[j].found}
  <2>11. \A u \in made : \E t \in Types : u = row(t)
    BY <2>6
  <2>12. terms' = terms \cup made
    BY <2>2
  <2> HIDE DEF made
  <2>13. \A u \in made : /\ u \in Term /\ u.id[2] = inserts + 1
                         /\ ~u.flagged /\ u.override = NoOverride
    BY <2>8, <2>10, <2>11
  <2>14. \A u, v \in made : u.id[1] = v.id[1] => u = v
    BY <2>9, <2>11
  <2>15. inserts' \in 0..MaxInserts
    BY <2>2, <2>6
  <2> QED
    BY <1>1, <2>2, <2>4, <2>12, <2>13, <2>14, <2>15
<1>3. CASE ~(ids \subseteq {o.id : o \in overrides})
  BY <1>1, <1>3 DEF InsertTerms
<1> QED
  BY <1>2, <1>3

\* Which step follows which within a processor.
Follows(from, to) ==
  \/ from = "mark" /\ to = "pdf"
  \/ from = "pdf" /\ to = "add_segment"
  \/ from \in {"pdf", "add_segment"} /\ to = "fail"
  \/ from = "text" /\ to = "delete_clauses"
  \/ from = "delete_clauses" /\ to \in {"batch1", "add_terms"}
  \/ from = "batch1" /\ to = "batch2"
  \/ from = "batch2" /\ to = "add_terms"
  \/ from = "overrides" /\ to = "clauses"
  \/ from = "clauses" /\ to \in {"fallback", "delete_terms"}
  \/ from = "fallback" /\ to = "delete_terms"
  \/ from = "delete_terms" /\ to = "insert_terms"
  \/ from = "insert_terms" /\ to \in {"items", "add_compute"}
  \/ from = "items" /\ to = "add_compute"
  \/ from = "terms" /\ to = "exists"
  \/ from = "exists" /\ to \in {"insert_readiness", "update_readiness"}

Ends(j) ==
  /\ Others(j) /\ job'[j] = NoJobHere
  /\ broken' \/ WriteReadiness(j)
Repeats(j) ==
  /\ Others(j) /\ job'[j].kind = job[j].kind /\ job'[j].pc = "waiting" /\ job'[j].kept = {}
Passes(j) ==
  \/ job[j].pc = "add_segment" /\ \E i \in Jobs : Passed(j, i, "segment")
  \/ job[j].pc = "add_terms" /\ \E i \in Jobs : Passed(j, i, "terms")
  \/ job[j].pc = "add_compute" /\ \E i \in Jobs : Passed(j, i, "compute")
GoesOn(j) ==
  /\ Others(j) /\ job'[j].kind = job[j].kind /\ Follows(job[j].pc, job'[j].pc)
  /\ job'[j].kept = job[j].kept
       \/ (job[j].pc = "overrides" /\ job'[j].kept \subseteq overrides)
  /\ job'[j].of = IF job[j].pc = "terms" THEN Ids ELSE job[j].of
  /\ job'[j].pc = "add_segment" => StoreText(j)
  /\ job'[j].pc = "batch1" => DeleteClauses(j)
  /\ job'[j].pc = "batch2" => InsertBatch(j)
  /\ job'[j].pc = "insert_terms" => DeleteTerms(j)

JobMoves(j) ==
  /\ job' \in [Jobs -> Job] /\ Running(j) /\ broken' \in BOOLEAN /\ (broken => broken')
  /\ Ends(j) \/ Repeats(j) \/ Passes(j) \/ GoesOn(j)

LEMMA StepMoves ==
  ASSUME TypeOK, NEW j \in Jobs, NEW from, NEW to \in Pc, Step(j, from, to),
         Follows(from, to), from # "terms", broken' = broken,
         to = "add_segment" => StoreText(j),
         to = "batch1" => DeleteClauses(j), to = "batch2" => InsertBatch(j),
         to = "insert_terms" => DeleteTerms(j)
  PROVE  JobMoves(j)
<1>1. from \notin {"none", "waiting"}
  BY DEF Follows
<1> QED
  BY <1>1, StepFrame DEF JobMoves, GoesOn, Running, TypeOK

LEMMA HandsMoves ==
  ASSUME TypeOK, NEW j \in Jobs,
         \/ Hands(j, "add_segment", "segment")
         \/ Hands(j, "add_terms", "terms")
         \/ Hands(j, "add_compute", "compute")
  PROVE  JobMoves(j) /\ broken' = broken
<1>1. \A kind \in {"segment", "terms", "compute"} : kind \in Kind
  BY DEF Kind
<1>2. CASE Hands(j, "add_segment", "segment")
  BY <1>1, <1>2, HandsFrame DEF JobMoves, Passes, Running, TypeOK
<1>3. CASE Hands(j, "add_terms", "terms")
  BY <1>1, <1>3, HandsFrame DEF JobMoves, Passes, Running, TypeOK
<1>4. CASE Hands(j, "add_compute", "compute")
  BY <1>1, <1>4, HandsFrame DEF JobMoves, Passes, Running, TypeOK
<1> QED
  BY <1>2, <1>3, <1>4

LEMMA ReturnMoves ==
  ASSUME TypeOK, NEW j \in Jobs, NEW wrong \in BOOLEAN, Return(j, wrong), Running(j),
         wrong \/ WriteReadiness(j)
  PROVE  JobMoves(j)
BY ReturnFrame DEF JobMoves, Ends, TypeOK

LEMMA JobsMove ==
  ASSUME TypeOK, NothingToReapply, NEW j \in Jobs, JobStep(j)
  PROVE  JobMoves(j) /\ req' = req /\ overlapped' = overlapped
<1> USE DEF history, rows
<1>0. {"pdf", "add_segment", "fail", "delete_clauses", "batch1", "batch2", "add_terms",
       "clauses", "fallback", "delete_terms", "insert_terms", "items", "add_compute",
       "exists", "insert_readiness", "update_readiness"} \subseteq Pc
  BY DEF Pc
<1>1. CASE Mark(j)
  BY <1>0, <1>1, StepMoves DEF Mark, Follows
<1>2. CASE StoreText(j)
  BY <1>0, <1>2, StepMoves DEF StoreText, Follows
<1>3. CASE AddSegment(j)
  BY <1>3, HandsMoves DEF AddSegment
<1>4. CASE ExtractFails(j)
  <2>1. Step(j, job[j].pc, "fail") /\ job[j].pc \in {"pdf", "add_segment"}
    BY <1>4 DEF ExtractFails, Step
  <2> QED
    BY <1>0, <1>4, <2>1, StepMoves DEF ExtractFails, Follows
<1>5. CASE SetFailed(j)
  BY <1>5, ReturnMoves DEF SetFailed, Running
<1>6. CASE ReadText(j)
  <2>1. CASE doc.text
    BY <1>0, <1>6, <2>1, StepMoves DEF ReadText, Follows
  <2>2. CASE ~doc.text
    BY <1>6, <2>2, ReturnMoves DEF ReadText, Running
  <2> QED
    BY <2>1, <2>2
<1>7. CASE DeleteClauses(j)
  BY <1>0, <1>7, StepMoves DEF DeleteClauses, Follows
<1>8. CASE InsertBatch(j)
  BY <1>0, <1>8, StepMoves DEF InsertBatch, Follows
<1>9. CASE AddTerms(j)
  BY <1>9, HandsMoves DEF AddTerms
<1>10. CASE ReadOverrides(j)
  <2>1. broken' = broken /\ req' = req /\ overlapped' = overlapped
    BY <1>10 DEF ReadOverrides
  <2> QED
    BY <1>10, <2>1, ReadFrame DEF JobMoves, GoesOn, Follows, Running, TypeOK
<1>11. CASE ReadClauses(j)
  <2>1. /\ broken' = broken /\ req' = req /\ overlapped' = overlapped
        /\ job[j].pc = "clauses"
    BY <1>11 DEF ReadClauses
  <2>2. CASE clauses = 0
    BY <1>0, <1>11, <2>1, <2>2, StepMoves DEF ReadClauses, Follows
  <2>3. CASE clauses # 0
    <3>1. PICK found \in SUBSET Types, low \in BOOLEAN :
            job' = [job EXCEPT ![j].pc = "delete_terms", ![j].found = found, ![j].low = low]
      BY <1>11, <2>3 DEF ReadClauses
    <3>2. /\ job' \in [Jobs -> Job] /\ Others(j) /\ job'[j].pc = "delete_terms"
          /\ job'[j].kind = job[j].kind /\ job'[j].kept = job[j].kept
          /\ job'[j].of = job[j].of
      BY <3>1, FoundFrame
    <3> QED
      BY <2>1, <3>2 DEF JobMoves, GoesOn, Follows, Running, TypeOK
  <2> QED
    BY <2>2, <2>3
<1>12. CASE ReadFallback(j)
  <2>1. req' = req /\ overlapped' = overlapped /\ job[j].pc = "fallback"
    BY <1>12 DEF ReadFallback
  <2>2. CASE doc.text
    <3>1. broken' = broken
      BY <1>12, <2>2 DEF ReadFallback
    <3> QED
      BY <1>12, <2>1, <2>2, <3>1, FoundFrame DEF ReadFallback, JobMoves, GoesOn, Follows,
                                                 Running, TypeOK
  <2>3. CASE ~doc.text
    BY <1>12, <2>1, <2>3, ReturnMoves DEF ReadFallback, Running
  <2> QED
    BY <2>2, <2>3, <2>1
<1>13. CASE DeleteTerms(j)
  BY <1>0, <1>13, StepMoves DEF DeleteTerms, Follows
<1>14. CASE InsertTerms(j)
  <2>1. req' = req /\ overlapped' = overlapped /\ job[j].pc = "insert_terms"
    BY <1>14 DEF InsertTerms
  <2>2. \/ /\ broken' = broken
           /\ Step(j, "insert_terms", IF job[j].low THEN "items" ELSE "add_compute")
        \/ Return(j, TRUE)
    BY <1>14, InsertTermsFrame
  <2> QED
    BY <1>0, <2>1, <2>2, StepMoves, ReturnMoves DEF Follows, Running
<1>15. CASE InsertItems(j)
  BY <1>0, <1>15, StepMoves DEF InsertItems, Follows
<1>16. CASE AddCompute(j)
  BY <1>16, HandsMoves DEF AddCompute
<1>17. CASE ReadTerms(j)
  <2>1. broken' = broken /\ req' = req /\ overlapped' = overlapped
    BY <1>17 DEF ReadTerms
  <2> QED
    BY <1>17, <2>1, ReadTermsFrame DEF JobMoves, GoesOn, Follows, Running, TypeOK
<1>18. CASE ReadReadiness(j)
  BY <1>0, <1>18, StepMoves DEF ReadReadiness, Follows
<1>19. CASE WriteReadiness(j)
  <2>1. /\ req' = req /\ overlapped' = overlapped
        /\ job[j].pc \in {"insert_readiness", "update_readiness"}
        /\ Return(j, TRUE) \/ Return(j, FALSE)
    BY <1>19 DEF WriteReadiness
  <2> QED
    BY <1>19, <2>1, ReturnMoves DEF Running
<1>20. CASE Caught(j)
  BY <1>20, ReturnMoves DEF Caught
<1>21. CASE Dies(j)
  <2>1. req' = req /\ overlapped' = overlapped /\ Running(j)
    BY <1>21 DEF Dies
  <2> QED
    BY <1>21, <2>1, DiesFrame DEF JobMoves, Ends, Repeats, TypeOK
<1> QED
  BY <1>1, <1>2, <1>3, <1>4, <1>5, <1>6, <1>7, <1>8, <1>9, <1>10, <1>11, <1>12, <1>13,
     <1>14, <1>15, <1>16, <1>17, <1>18, <1>19, <1>20, <1>21 DEF JobStep

\* Which steps write which rows.
LEMMA JobWrites ==
  ASSUME NEW j \in Jobs, JobStep(j)
  PROVE  /\ Mark(j) \/ StoreText(j) \/ SetFailed(j) \/ doc' = doc
         /\ DeleteClauses(j) \/ InsertBatch(j) \/ clauses' = clauses
         /\ DeleteTerms(j) \/ InsertTerms(j)
              \/ UNCHANGED <<terms, overrides, inserts>>
         /\ DeleteTerms(j) => inserts' = inserts
         /\ WriteReadiness(j) \/ readiness' = readiness
         /\ InsertItems(j) \/ items' = items
BY DEF JobStep, Mark, StoreText, AddSegment, ExtractFails, SetFailed, ReadText, DeleteClauses,
       InsertBatch, AddTerms, ReadOverrides, ReadClauses, ReadFallback, DeleteTerms,
       InsertTerms, InsertItems, AddCompute, ReadTerms, ReadReadiness, WriteReadiness,
       Caught, Dies, rows, history

LEMMA JobTypes ==
  ASSUME TypeOK, NothingToReapply, NEW j \in Jobs, JobStep(j)
  PROVE  TypeOK'
<1>1. /\ job' \in [Jobs -> Job] /\ req' \in [Clients -> Request]
      /\ overlapped' \in BOOLEAN /\ broken' \in BOOLEAN
  BY JobsMove DEF JobMoves, TypeOK
<1>2. doc' \in Document
  <2>1. doc \in Document
    BY DEF TypeOK
  <2>2. CASE Mark(j)
    BY <2>1, <2>2 DEF Mark, Document
  <2>3. CASE StoreText(j)
    BY <2>1, <2>3 DEF StoreText, Document
  <2>4. CASE SetFailed(j)
    BY <2>1, <2>4 DEF SetFailed, Document
  <2> QED
    BY <2>1, <2>2, <2>3, <2>4, JobWrites
<1>3. clauses' \in Nat /\ items' \in Nat
  <2>1. clauses' = clauses \/ clauses' = 0 \/ clauses' = clauses + 1
    BY JobWrites DEF DeleteClauses, InsertBatch
  <2>2. items' = items \/ items' = items + 1
    BY JobWrites DEF InsertItems
  <2> QED
    BY <2>1, <2>2 DEF TypeOK
<1>4. terms' \subseteq Term /\ overrides' \subseteq Override /\ inserts' \in 0..MaxInserts
  <2>1. CASE DeleteTerms(j)
    BY <2>1 DEF DeleteTerms, TypeOK
  <2>2. CASE InsertTerms(j)
    BY <2>2, InsertTermsFrame DEF TypeOK
  <2>3. CASE UNCHANGED <<terms, overrides, inserts>>
    BY <2>3 DEF TypeOK
  <2> QED
    BY <2>1, <2>2, <2>3, JobWrites
<1>5. readiness' \in Readiness
  <2>1. readiness \in Readiness /\ job[j].of \subseteq TermId
    BY DEF TypeOK, Job
  <2>2. Computed(job[j].of) \in {"ready", "incomplete"}
    BY DEF Computed
  <2>3. [status |-> Computed(job[j].of), of |-> job[j].of, reviewed |-> readiness.reviewed]
          \in Readiness
    BY <2>1, <2>2 DEF Readiness
  <2> QED
    BY <2>1, <2>3, JobWrites DEF WriteReadiness
<1> QED
  BY <1>1, <1>2, <1>3, <1>4, <1>5 DEF TypeOK

LEMMA FetchTypes ==
  ASSUME TypeOK, NEW j \in Jobs, Fetch(j)
  PROVE  TypeOK'
<1>1. UNCHANGED <<doc, rows, req, broken>>
  BY DEF Fetch
<1> QED
  BY <1>1, FetchFrame DEF TypeOK, rows

(***************************************************************************)
(* What the jobs do to the invariant                                       *)
(***************************************************************************)
\* No other job runs beside j, none begins to, and none changes.
LEMMA Alone ==
  ASSUME TypeOK, NothingToReapply, OneRuns, ~overlapped, NEW j \in Jobs, JobStep(j)
  PROVE  /\ Running(j)
         /\ \A k \in Jobs \ {j} : ~Running(k) /\ job'[k].pc \in {"none", "waiting"}
<1>1. JobMoves(j)
  BY JobsMove
<1>2. \A k \in Jobs \ {j} : ~Running(k)
  BY <1>1 DEF OneRuns, JobMoves
<1>3. \A k \in Jobs \ {j} : job'[k] = job[k] \/ job'[k].pc = "waiting"
  <2>1. \A kind \in {"segment", "terms", "compute"} : New(kind).pc = "waiting"
    BY NewIsAJob DEF Kind
  <2>2. CASE Passes(j)
    BY <2>1, <2>2 DEF Passes, Passed
  <2> QED
    BY <1>1, <2>2 DEF JobMoves, Ends, Repeats, GoesOn, Others
<1> QED
  BY <1>1, <1>2, <1>3 DEF Running, JobMoves

\* Whatever a job does, another is what it was or was just added.
LEMMA OthersMove ==
  ASSUME TypeOK, NEW j \in Jobs, JobMoves(j), NEW k \in Jobs \ {j}
  PROVE  \/ job'[k] = job[k]
         \/ /\ job[k] = NoJobHere /\ job'[k].pc = "waiting" /\ job'[k].kept = {}
            /\ job'[k].kind \in {"segment", "terms", "compute"}
<1>1. \A kind \in {"segment", "terms", "compute"} :
        New(kind).pc = "waiting" /\ New(kind).kind = kind /\ New(kind).kept = {}
  BY NewIsAJob DEF Kind, Blank
<1>2. CASE Passes(j)
  BY <1>1, <1>2 DEF Passes, Passed
<1> QED
  BY <1>2 DEF JobMoves, Ends, Repeats, GoesOn, Others

\* And the job itself ends, waits again, hands over or goes on.
LEMMA ItselfMoves ==
  ASSUME TypeOK, NEW j \in Jobs, JobMoves(j)
  PROVE  \/ job'[j] = NoJobHere
         \/ job'[j].kind = job[j].kind /\ job'[j].pc = "waiting" /\ job'[j].kept = {}
         \/ GoesOn(j)
BY DEF JobMoves, Ends, Repeats, Passes, Passed

LEMMA JobKinds ==
  ASSUME TypeOK, KindsAgree, NEW j \in Jobs, JobMoves(j)
  PROVE  KindsAgree'
<1>1. \A kind \in {"segment", "terms", "compute", "extract"} : "waiting" \in PcOf(kind)
  BY DEF PcOf
<1>2. \A k \in Jobs \ {j} : job'[k].pc \in PcOf(job'[k].kind)
  BY <1>1, OthersMove DEF KindsAgree
<1>3. job[j].kind \in Kind /\ job[j].kind # "none"
  BY DEF TypeOK, Job, KindsAgree, PcOf, JobMoves, Running
<1>4. job'[j].pc \in PcOf(job'[j].kind)
  <2>1. CASE job'[j] = NoJobHere
    BY <2>1 DEF NoJobHere, PcOf
  <2>2. CASE job'[j].kind = job[j].kind /\ job'[j].pc = "waiting"
    BY <1>1, <1>3, <2>2 DEF Kind
  <2>3. CASE GoesOn(j)
    BY <1>3, <2>3 DEF GoesOn, Follows, KindsAgree, PcOf, Kind
  <2> QED
    BY <2>1, <2>2, <2>3, ItselfMoves
<1> QED
  BY <1>2, <1>4 DEF KindsAgree

LEMMA JobRuns ==
  ASSUME TypeOK, NothingToReapply, OneRuns, NEW j \in Jobs, JobStep(j)
  PROVE  OneRuns'
<1>1. overlapped' = overlapped
  BY JobsMove
<1> QED
  BY <1>1, Alone DEF OneRuns, Running

LEMMA JobClauses ==
  ASSUME TypeOK, KindsAgree, NothingToReapply, OneRuns, ClausesAreCounted,
         NEW j \in Jobs, JobStep(j)
  PROVE  ClausesAreCounted'
<1> SUFFICES ASSUME ~overlapped' PROVE
      /\ clauses' <= 2
      /\ \A k \in Jobs : /\ job'[k].pc = "batch1" => clauses' = 0
                         /\ job'[k].pc = "batch2" => clauses' = 1
  BY DEF ClausesAreCounted
<1>1. ~overlapped /\ JobMoves(j)
  BY JobsMove
<1>2. \A k \in Jobs \ {j} : job'[k].pc \notin {"batch1", "batch2"}
  BY <1>1, Alone
<1>3. /\ clauses \in Nat /\ clauses <= 2
      /\ job[j].pc = "batch1" => clauses = 0
      /\ job[j].pc = "batch2" => clauses = 1
  BY <1>1 DEF TypeOK, ClausesAreCounted
<1>4. /\ clauses' <= 2
      /\ job'[j].pc = "batch1" => clauses' = 0
      /\ job'[j].pc = "batch2" => clauses' = 1
  <2>1. CASE DeleteClauses(j)
    <3>1. job'[j].pc \in {"batch1", "add_terms"} /\ clauses' = 0
      BY <2>1, StepFrame DEF DeleteClauses, Pc
    <3> QED
      BY <3>1
  <2>2. CASE InsertBatch(j)
    <3>1. /\ clauses' = clauses + 1
          /\ \/ job[j].pc = "batch1" /\ job'[j].pc = "batch2"
             \/ job[j].pc = "batch2" /\ job'[j].pc = "add_terms"
      BY <2>2, StepFrame DEF InsertBatch, Pc
    <3>2. /\ job[j].pc = "batch1" => clauses = 0
          /\ job[j].pc = "batch2" => clauses = 1
      BY <1>1 DEF ClausesAreCounted
    <3> QED
      BY <1>3, <3>1, <3>2
  <2>3. CASE ~DeleteClauses(j) /\ ~InsertBatch(j)
    <3>1. clauses' = clauses
      BY <2>3, JobWrites
    <3>2. job'[j].pc \notin {"batch1", "batch2"}
      BY <1>1, <2>3, ItselfMoves DEF GoesOn, NoJobHere
    <3> QED
      BY <1>3, <3>1, <3>2
  <2> QED
    BY <2>1, <2>2, <2>3
<1> QED
  BY <1>2, <1>4

LEMMA JobTerms ==
  ASSUME TypeOK, KindsAgree, NothingToReapply, OneRuns, TermsAreCounted,
         NEW j \in Jobs, JobStep(j)
  PROVE  TermsAreCounted'
<1> SUFFICES ASSUME ~overlapped' PROVE
      /\ \A s, t \in terms' : s.id[1] = t.id[1] => s = t
      /\ \A k \in Jobs : job'[k].pc = "insert_terms" => terms' = {}
  BY DEF TermsAreCounted
<1>1. ~overlapped /\ JobMoves(j)
  BY JobsMove
<1>2. \A k \in Jobs \ {j} : job'[k].pc # "insert_terms"
  BY <1>1, Alone
<1>3. /\ \A s, t \in terms : s.id[1] = t.id[1] => s = t
      /\ job[j].pc = "insert_terms" => terms = {}
  BY <1>1 DEF TermsAreCounted
<1>4. CASE DeleteTerms(j)
  BY <1>4 DEF DeleteTerms
<1>5. CASE ~DeleteTerms(j)
  <2>1. job'[j].pc # "insert_terms"
    BY <1>1, <1>5, ItselfMoves DEF GoesOn, NoJobHere
  <2>2. \A s, t \in terms' : s.id[1] = t.id[1] => s = t
    <3>1. CASE InsertTerms(j)
      BY <1>3, <3>1, InsertTermsFrame
    <3>2. CASE ~InsertTerms(j)
      BY <1>3, <1>5, <3>2, JobWrites
    <3> QED
      BY <3>1, <3>2
  <2> QED
    BY <1>2, <2>1, <2>2
<1> QED
  BY <1>4, <1>5

\* What the jobs do to rows of requests: terms are deleted with all overrides,
\* or inserted under a number of their own.
LEMMA JobRows ==
  ASSUME TypeOK, NothingToReapply, OverridesStay, NEW j \in Jobs, JobStep(j)
  PROVE  /\ req' = req /\ inserts' \in {inserts, inserts + 1}
         /\ \/ terms' = {} /\ overrides' = {}
            \/ terms \subseteq terms' /\ overrides' = overrides
         /\ \A u \in terms' :
              \/ u \in terms
              \/ /\ u.id[2] = inserts + 1 /\ inserts' = inserts + 1
                 /\ ~u.flagged /\ u.override = NoOverride
<1>1. req' = req
  BY JobsMove
<1>2. CASE DeleteTerms(j)
  <2>1. terms' = {} /\ overrides' = {} /\ inserts' = inserts
    BY <1>2 DEF DeleteTerms, OverridesStay
  <2> QED
    BY <1>1, <2>1
<1>3. CASE InsertTerms(j)
  BY <1>1, <1>3, InsertTermsFrame
<1>4. CASE UNCHANGED <<terms, overrides, inserts>>
  BY <1>1, <1>4
<1> QED
  BY <1>2, <1>3, <1>4, JobWrites

LEMMA JobNumbers ==
  ASSUME TypeOK, NothingToReapply, OverridesStay, NumbersAreTaken, NEW j \in Jobs, JobStep(j)
  PROVE  NumbersAreTaken'
<1>1. inserts \in Nat
  BY DEF TypeOK
<1>2. \A id \in TermId : id[2] \in Nat
  BY DEF TermId
<1>3. /\ \A t \in terms : t.id \in TermId /\ t.id[2] <= inserts
      /\ \A c \in Clients : \A id \in req[c].terms : id \in TermId /\ id[2] <= inserts
  BY DEF TypeOK, Term, Request, NumbersAreTaken
<1>4. \A t \in terms' : t.id[2] <= inserts'
  BY <1>1, <1>2, <1>3, JobRows
<1>5. \A c \in Clients : \A id \in req[c].terms : id[2] <= inserts'
  BY <1>1, <1>2, <1>3, JobRows
<1>6. req' = req
  BY JobsMove
<1> QED
  BY <1>4, <1>5, <1>6 DEF NumbersAreTaken

LEMMA JobOverrides ==
  ASSUME TypeOK, NothingToReapply, OverridesStay, NumbersAreTaken, NamesAreSettled,
         FlagHasARow, OverriddenHasACorrection, RequestsAgree, NEW j \in Jobs, JobStep(j)
  PROVE  /\ RequestsAgree' /\ OverridesStay' /\ NamesAreSettled' /\ FlagHasARow'
         /\ OverriddenHasACorrection'
<1>1. /\ req' = req
      /\ \/ terms' = {} /\ overrides' = {}
         \/ terms \subseteq terms' /\ overrides' = overrides
      /\ \A u \in terms' : \/ u \in terms
                           \/ u.id[2] = inserts + 1 /\ ~u.flagged /\ u.override = NoOverride
  BY JobRows
<1>2. RequestsAgree'
  BY <1>1 DEF RequestsAgree
<1>3. OverridesStay'
  <2>1. CASE overrides' = {}
    BY <2>1 DEF OverridesStay
  <2>2. CASE terms \subseteq terms' /\ overrides' = overrides
    <3>1. Ids \subseteq Ids'
      BY <2>2 DEF Ids
    <3> QED
      BY <1>1, <2>2, <3>1 DEF OverridesStay
  <2> QED
    BY <1>1, <2>1, <2>2
<1>4. NamesAreSettled'
  BY <1>1 DEF NamesAreSettled
<1>5. FlagHasARow'
  <2> SUFFICES ASSUME NEW c \in Clients, NEW u \in terms', req[c].pc = "flag",
                      u.id \in req[c].terms
               PROVE  [id |-> c, term |-> u.id] \in overrides'
    BY <1>1 DEF FlagHasARow
  <2>1. u \in terms
    <3>1. u.id[2] <= inserts /\ inserts \in Nat
      BY DEF NumbersAreTaken, TypeOK
    <3> QED
      BY <1>1, <3>1
  <2> QED
    BY <1>1, <2>1 DEF FlagHasARow
<1>6. OverriddenHasACorrection'
  BY <1>1 DEF OverriddenHasACorrection
<1> QED
  BY <1>2, <1>3, <1>4, <1>5, <1>6

LEMMA JobKeeps ==
  ASSUME TypeOK, NothingToReapply, OverridesStay, KeptWasInserted, NEW j \in Jobs, JobStep(j)
  PROVE  KeptWasInserted' /\ NothingToReapply'
<1>1. req' = req /\ JobMoves(j)
  BY JobsMove
<1>2. \A k \in Jobs : job'[k].kept \subseteq job[k].kept \cup overrides
  <2>1. \A k \in Jobs \ {j} : job'[k].kept \subseteq job[k].kept
    BY <1>1, OthersMove
  <2>2. job'[j].kept \subseteq job[j].kept \cup overrides
    BY <1>1, ItselfMoves DEF GoesOn, NoJobHere
  <2> QED
    BY <2>1, <2>2
<1>3. KeptWasInserted'
  BY <1>1, <1>2 DEF KeptWasInserted, OverridesStay
<1>4. NothingToReapply'
  <2>1. CASE overrides' = {}
    BY <2>1 DEF NothingToReapply
  <2>2. CASE overrides' # {}
    <3>1. overrides' = overrides /\ ~DeleteTerms(j)
      <4>1. DeleteTerms(j) => overrides' = {}
        BY DEF DeleteTerms, OverridesStay
      <4> QED
        BY <2>2, <4>1, JobRows
    <3>2. job'[j].pc # "insert_terms"
      BY <1>1, <3>1, ItselfMoves DEF GoesOn, NoJobHere
    <3>3. \A k \in Jobs \ {j} : job'[k].pc = "insert_terms" => job'[k] = job[k]
      BY <1>1, OthersMove
    <3> QED
      BY <3>1, <3>2, <3>3 DEF NothingToReapply
  <2> QED
    BY <2>1, <2>2
<1> QED
  BY <1>3, <1>4

LEMMA JobExtracting ==
  ASSUME TypeOK, KindsAgree, NothingToReapply, ExtractingIsExplained, NEW j \in Jobs, JobStep(j)
  PROVE  ExtractingIsExplained'
<1> SUFFICES ASSUME doc'.status = "extracting", ~broken',
                    ~ \E c \in Clients : \/ req'[c].op = "resegment"
                                         \/ (req'[c].op = "reextract" /\ ~req'[c].ok)
             PROVE  \E k \in Jobs : job'[k].kind = "extract" /\ job'[k].pc # "add_segment"
  BY DEF ExtractingIsExplained
<1>1. req' = req /\ ~broken /\ JobMoves(j)
  BY JobsMove DEF JobMoves
<1>2. job[j].kind \in Kind /\ job[j].pc \in PcOf(job[j].kind)
  BY DEF TypeOK, Job, KindsAgree
<1>3. CASE Mark(j)
  <2>1. job'[j].pc = "pdf" /\ job'[j].kind = job[j].kind /\ job[j].pc = "mark"
    BY <1>3, StepFrame DEF Mark, Pc
  <2> QED
    BY <1>2, <2>1 DEF PcOf, Kind
<1>4. CASE ~Mark(j)
  <2>1. ~StoreText(j) /\ ~SetFailed(j)
    <3>1. StoreText(j) => doc'.status = "extracted"
      BY DEF StoreText
    <3>2. SetFailed(j) => doc'.status = "failed"
      BY DEF SetFailed, TypeOK, Document
    <3> QED
      BY <3>1, <3>2
  <2>2. doc' = doc
    BY <1>4, <2>1, JobWrites
  <2>3. PICK k \in Jobs : job[k].kind = "extract" /\ job[k].pc # "add_segment"
    BY <1>1, <2>2 DEF ExtractingIsExplained
  <2>4. CASE k # j
    BY <1>1, <2>3, <2>4, OthersMove DEF NoJobHere
  <2>5. CASE k = j
    <3>1. ~Passes(j) /\ ~WriteReadiness(j)
      BY <1>2, <2>3, <2>5 DEF Passes, WriteReadiness, PcOf, Kind
    <3>2. Repeats(j) \/ GoesOn(j)
      BY <1>1, <3>1 DEF JobMoves, Ends
    <3> QED
      BY <2>1, <2>3, <2>5, <3>2 DEF Repeats, GoesOn
  <2> QED
    BY <2>4, <2>5
<1> QED
  BY <1>3, <1>4

LEMMA JobReadiness ==
  ASSUME TypeOK, KindsAgree, NothingToReapply, OneRuns, ReadinessIsComing,
         NEW j \in Jobs, JobStep(j)
  PROVE  ReadinessIsComing'
<1> SUFFICES ASSUME ~overlapped', ~broken'
             PROVE  /\ inserts' > 0 =>
                         \/ readiness'.of = Ids'
                         \/ \E k \in Jobs : job'[k].kind \in {"terms", "compute"}
                    /\ \A k \in Jobs :
                         job'[k].pc \in {"exists", "insert_readiness", "update_readiness"} =>
                           job'[k].of = Ids'
  BY DEF ReadinessIsComing
<1>1. ~overlapped /\ ~broken /\ JobMoves(j)
  BY JobsMove DEF JobMoves
<1>2. job[j].kind \in Kind /\ job[j].pc \in PcOf(job[j].kind)
  BY DEF TypeOK, Job, KindsAgree
<1>3. \A k \in Jobs \ {j} :
        job'[k].pc \notin {"exists", "insert_readiness", "update_readiness"}
  BY <1>1, Alone
<1>4. /\ inserts > 0 => \/ readiness.of = Ids
                        \/ \E k \in Jobs : job[k].kind \in {"terms", "compute"}
      /\ job[j].pc \in {"exists", "insert_readiness", "update_readiness"} => job[j].of = Ids
  BY <1>1 DEF ReadinessIsComing
<1>5. CASE DeleteTerms(j) \/ InsertTerms(j)
  <2>1. job[j].pc \in {"delete_terms", "insert_terms"}
    BY <1>5 DEF DeleteTerms, InsertTerms, Step
  <2>2. job[j].kind = "terms"
    BY <1>2, <2>1 DEF PcOf, Kind
  <2>3. GoesOn(j) \/ Repeats(j)
    BY <1>1, <2>1 DEF JobMoves, Passes, Ends, WriteReadiness
  <2> QED
    BY <1>3, <2>1, <2>2, <2>3 DEF GoesOn, Repeats, Follows
<1>6. CASE WriteReadiness(j)
  <2>1. /\ readiness'.of = job[j].of /\ terms' = terms
        /\ job[j].pc \in {"insert_readiness", "update_readiness"}
        /\ job'[j] = NoJobHere
    <3>1. ~Return(j, TRUE)
      BY ReturnFrame
    <3>2. Return(j, FALSE) /\ readiness'.of = job[j].of
      <4>1. /\ Return(j, FALSE)
            /\ readiness' = [status |-> Computed(job[j].of), of |-> job[j].of,
                              reviewed |-> readiness.reviewed]
        BY <1>6, <3>1 DEF WriteReadiness
      <4> QED
        BY <4>1
    <3> QED
      BY <1>6, <3>2, ReturnFrame DEF WriteReadiness
  <2>2. Ids' = Ids
    BY <2>1 DEF Ids
  <2> QED
    BY <1>3, <1>4, <2>1, <2>2 DEF NoJobHere
<1>7. CASE ~DeleteTerms(j) /\ ~InsertTerms(j) /\ ~WriteReadiness(j)
  <2>1. terms' = terms /\ inserts' = inserts /\ readiness' = readiness
    BY <1>7, JobWrites
  <2>2. Ids' = Ids
    BY <2>1 DEF Ids
  <2>3. job'[j].pc \in {"exists", "insert_readiness", "update_readiness"} => job'[j].of = Ids
    BY <1>1, <1>4, ItselfMoves DEF GoesOn, Follows, NoJobHere
  <2>4. ASSUME NEW k \in Jobs, job[k].kind \in {"terms", "compute"}
        PROVE  \E i \in Jobs : job'[i].kind \in {"terms", "compute"}
    <3>1. CASE k # j
      BY <1>1, <2>4, <3>1, OthersMove DEF NoJobHere
    <3>2. CASE k = j
      <4>1. CASE Passes(j)
        <5>1. job[j].pc # "add_segment"
          BY <1>2, <2>4, <3>2 DEF PcOf
        <5>2. PICK i \in Jobs : job'[i] = New("terms") \/ job'[i] = New("compute")
          BY <4>1, <5>1 DEF Passes, Passed
        <5> QED
          BY <5>2, NewIsAJob DEF Kind
      <4>2. CASE ~Passes(j)
        BY <1>1, <1>7, <2>4, <3>2, <4>2 DEF JobMoves, Ends, Repeats, GoesOn
      <4> QED
        BY <4>1, <4>2
    <3> QED
      BY <3>1, <3>2
  <2> QED
    BY <1>3, <1>4, <2>1, <2>2, <2>3, <2>4
<1> QED
  BY <1>5, <1>6, <1>7

(***************************************************************************)
(* What the start of a job does to the invariant                           *)
(***************************************************************************)
LEMMA FetchKeeps ==
  ASSUME IInv, NEW j \in Jobs, Fetch(j)
  PROVE  IInv'
<1> USE DEF IInv
<1>1. UNCHANGED <<doc, clauses, terms, overrides, readiness, items, inserts, req, broken>>
  BY DEF Fetch, rows
<1>2. job[j].kind \in Kind /\ job[j].kind # "none" /\ job[j].pc = "waiting"
  BY FetchFrame DEF TypeOK, Job, KindsAgree, PcOf
<1>3. /\ Others(j) /\ job'[j].kind = job[j].kind /\ job'[j].kept = job[j].kept
      /\ job'[j].pc \in {"mark", "text", "overrides", "terms"}
      /\ job'[j].pc \in PcOf(job[j].kind)
      /\ (overlapped' <=> overlapped \/ \E i \in Jobs \ {j} : Running(i))
  <2>1. /\ First[job[j].kind] \in {"mark", "text", "overrides", "terms"}
        /\ First[job[j].kind] \in PcOf(job[j].kind)
    BY <1>2 DEF First, Kind, PcOf
  <2> QED
    BY <2>1, FetchFrame
<1>4. Ids' = Ids
  BY <1>1 DEF Ids
<1>5. TypeOK'
  BY FetchTypes
<1>6. KindsAgree'
  BY <1>3 DEF KindsAgree, Others
<1>7. OneRuns'
  BY <1>3 DEF OneRuns, Others, Running
<1>8. ClausesAreCounted' /\ TermsAreCounted'
  BY <1>1, <1>3 DEF ClausesAreCounted, TermsAreCounted, Others
<1>9. NumbersAreTaken' /\ RequestsAgree' /\ NamesAreSettled' /\ FlagHasARow'
      /\ OverriddenHasACorrection'
  BY <1>1 DEF NumbersAreTaken, RequestsAgree, NamesAreSettled, FlagHasARow,
              OverriddenHasACorrection
<1>10. OverridesStay' /\ KeptWasInserted' /\ NothingToReapply'
  BY <1>1, <1>3, <1>4 DEF OverridesStay, KeptWasInserted, NothingToReapply, Others
<1>11. ExtractingIsExplained'
  <2>1. \A k \in Jobs : job[k].kind = "extract" /\ job[k].pc # "add_segment" =>
                          job'[k].kind = "extract" /\ job'[k].pc # "add_segment"
    BY <1>3 DEF Others
  <2> QED
    BY <1>1, <2>1 DEF ExtractingIsExplained
<1>12. ReadinessIsComing'
  <2>1. \A k \in Jobs : /\ job'[k].kind = job[k].kind
                        /\ job'[k].pc \in {"exists", "insert_readiness", "update_readiness"}
                             => job'[k] = job[k]
    BY <1>3 DEF Others
  <2>2. ~overlapped' => ~overlapped
    BY <1>3
  <2> QED
    BY <1>1, <1>4, <2>1, <2>2 DEF ReadinessIsComing
<1> QED
  BY <1>5, <1>6, <1>7, <1>8, <1>9, <1>10, <1>11, <1>12

LEMMA JobKeepsAll ==
  ASSUME IInv, NEW j \in Jobs, JobStep(j)
  PROVE  IInv'
BY JobsMove, JobTypes, JobKinds, JobRuns, JobClauses, JobTerms, JobNumbers, JobOverrides,
   JobKeeps, JobExtracting, JobReadiness DEF IInv

(***************************************************************************)
(* What the requests do to the invariant                                   *)
(***************************************************************************)
LEMMA RequestJobs ==
  ASSUME TypeOK, NEW c \in Clients, RequestStep(c)
  PROVE  /\ \A k \in Jobs :
              \/ job'[k] = job[k]
              \/ /\ job[k] = NoJobHere /\ job'[k].pc = "waiting" /\ job'[k].kept = {}
                 /\ job'[k].kind \in {"extract", "segment"}
         /\ ~AddFirst(c) => job' = job
<1>1. CASE AddFirst(c)
  <2>1. PICK i \in Jobs : /\ job[i] = NoJobHere /\ Others(i)
                          /\ \/ job'[i] = New("extract")
                             \/ job'[i] = New("segment")
    BY <1>1, AddFirstFrame
  <2>2. \A kind \in {"extract", "segment"} :
          New(kind).pc = "waiting" /\ New(kind).kind = kind /\ New(kind).kept = {}
    BY NewIsAJob DEF Kind, Blank
  <2> QED
    BY <1>1, <2>1, <2>2 DEF Others
<1>2. CASE ~AddFirst(c)
  <2>1. job' = job
    BY <1>2 DEF RequestStep, OverrideTerm, InsertOverride, FlagTerm, RemoveOverride,
                DeleteOverride, UnflagTerm, Reprocess, SetExtracting, MarkReviewed,
                RequestFails
  <2> QED
    BY <2>1
<1> QED
  BY <1>1, <1>2

LEMMA RequestTerms ==
  ASSUME TypeOK, NEW c \in Clients, RequestStep(c)
  PROVE  /\ TermsKept
         /\ terms' = terms \/ FlagTerm(c) \/ UnflagTerm(c) \/ DeleteOverride(c)
         /\ overrides' = overrides \/ InsertOverride(c) \/ DeleteOverride(c)
         /\ doc' = doc \/ SetExtracting(c)
         /\ readiness'.of = readiness.of
<1>1. /\ terms' = terms \/ FlagTerm(c) \/ UnflagTerm(c) \/ DeleteOverride(c)
      /\ overrides' = overrides \/ InsertOverride(c) \/ DeleteOverride(c)
      /\ doc' = doc \/ SetExtracting(c)
      /\ readiness' = readiness \/ MarkReviewed(c)
  BY DEF RequestStep, OverrideTerm, InsertOverride, FlagTerm, RemoveOverride, DeleteOverride,
         UnflagTerm, Reprocess, SetExtracting, AddFirst, MarkReviewed, RequestFails, documents,
         rows
<1>2. TermsKept
  <2>1. CASE terms' = terms
    BY <2>1 DEF TermsKept, Ids, TypeOK
  <2>2. CASE FlagTerm(c)
    BY <2>2, SetFlagFrame DEF FlagTerm
  <2>3. CASE UnflagTerm(c)
    BY <2>3, SetFlagFrame DEF UnflagTerm
  <2>4. CASE DeleteOverride(c)
    BY <2>4, DeleteOverrideFrame
  <2> QED
    BY <1>1, <2>1, <2>2, <2>3, <2>4
<1>3. readiness'.of = readiness.of
  <2>1. CASE MarkReviewed(c)
    <3> DEFINE r1 == [readiness EXCEPT !.status = "ready"]
    <3>1. r1.of = readiness.of /\ r1 \in Readiness
      BY DEF TypeOK, Readiness
    <3> HIDE DEF r1
    <3>2. [r1 EXCEPT !.reviewed = TRUE].of = r1.of
      BY <3>1 DEF Readiness
    <3>3. readiness' = readiness \/ readiness' = [r1 EXCEPT !.reviewed = TRUE]
      BY <2>1 DEF MarkReviewed, r1
    <3> QED
      BY <3>1, <3>2, <3>3
  <2> QED
    BY <1>1, <2>1
<1> QED
  BY <1>1, <1>2, <1>3

\* What a request is after a step, by the step.
LEMMA RequestMoves ==
  ASSUME TypeOK, NEW c \in Clients, RequestStep(c)
  PROVE  /\ OverrideTerm(c) =>
              \E t \in terms : Begins(c, "override", "insert", {t.id}, NoOverride, FALSE)
         /\ InsertOverride(c) =>
              /\ req[c].pc = "insert" /\ SameRequest(c)
              /\ \/ req'[c].pc = "flag" /\ req'[c].ok = req[c].ok
                 \/ req'[c].pc = "done" /\ ~req'[c].ok
         /\ FlagTerm(c) => req[c].pc = "flag" /\ SameRequest(c) /\ req'[c].pc = "done"
         /\ RemoveOverride(c) =>
              \E t \in terms : /\ t.override # NoOverride
                               /\ Begins(c, "remove", "delete", {t.id}, t.override, FALSE)
         /\ DeleteOverride(c) =>
              /\ req[c].pc = "delete" /\ SameRequest(c)
              /\ req'[c].pc = "unflag" /\ req'[c].ok = req[c].ok
         /\ UnflagTerm(c) => req[c].pc = "unflag" /\ SameRequest(c) /\ req'[c].pc = "done"
         /\ Reprocess(c) =>
              \E op \in {"resegment", "reextract"} :
                Begins(c, op, "status", {}, NoOverride, FALSE)
         /\ SetExtracting(c) =>
              /\ req[c].pc = "status" /\ SameRequest(c)
              /\ req'[c].pc = "add" /\ req'[c].ok = req[c].ok
         /\ AddFirst(c) => req[c].pc = "add" /\ SameRequest(c) /\ req'[c].pc = "done"
         /\ MarkReviewed(c) => Begins(c, "review", "done", {}, NoOverride, TRUE)
         /\ RequestFails(c) =>
              /\ req[c].pc # "idle" /\ SameRequest(c)
              /\ req'[c].pc = "done" /\ ~req'[c].ok
<1>1. InsertOverride(c) =>
        /\ req[c].pc = "insert" /\ SameRequest(c)
        /\ \/ req'[c].pc = "flag" /\ req'[c].ok = req[c].ok
           \/ req'[c].pc = "done" /\ ~req'[c].ok
  <2> SUFFICES ASSUME InsertOverride(c)
               PROVE  /\ req[c].pc = "insert" /\ SameRequest(c)
                      /\ \/ req'[c].pc = "flag" /\ req'[c].ok = req[c].ok
                         \/ req'[c].pc = "done" /\ ~req'[c].ok
    OBVIOUS
  <2>1. req[c].pc = "insert" /\ (GoOn(c, "insert", "flag") \/ Answered(c, FALSE))
    BY DEF InsertOverride
  <2> QED
    BY <2>1, GoOnFrame, AnsweredFrame
<1>2. FlagTerm(c) => req[c].pc = "flag" /\ SameRequest(c) /\ req'[c].pc = "done"
  BY AnsweredFrame DEF FlagTerm
<1>3. DeleteOverride(c) =>
        /\ req[c].pc = "delete" /\ SameRequest(c)
        /\ req'[c].pc = "unflag" /\ req'[c].ok = req[c].ok
  BY GoOnFrame DEF DeleteOverride
<1>4. UnflagTerm(c) => req[c].pc = "unflag" /\ SameRequest(c) /\ req'[c].pc = "done"
  BY AnsweredFrame DEF UnflagTerm
<1>5. SetExtracting(c) =>
        /\ req[c].pc = "status" /\ SameRequest(c)
        /\ req'[c].pc = "add" /\ req'[c].ok = req[c].ok
  BY GoOnFrame DEF SetExtracting
<1>6. AddFirst(c) => req[c].pc = "add" /\ SameRequest(c) /\ req'[c].pc = "done"
  BY AnsweredFrame DEF AddFirst
<1>7. RequestFails(c) =>
        req[c].pc # "idle" /\ SameRequest(c) /\ req'[c].pc = "done" /\ ~req'[c].ok
  BY AnsweredFrame DEF RequestFails
<1> QED
  BY <1>1, <1>2, <1>3, <1>4, <1>5, <1>6, <1>7, OverrideBegins, RemoveBegins, ReprocessBegins,
     ReviewBegins

LEMMA RequestAgreement ==
  ASSUME TypeOK, RequestsAgree, NEW c \in Clients, RequestStep(c)
  PROVE  RequestsAgree'
<1> DEFINE A(o, p, k, v, ids) ==
      /\ p \in {"insert", "flag"} => o = "override"
      /\ p \in {"delete", "unflag"} => o = "remove"
      /\ p \in {"status", "add"} => o \in {"resegment", "reextract"}
      /\ k => p = "done"
      /\ o = "none" <=> p = "idle"
      /\ o # "remove" => v = NoOverride
      /\ \A x, y \in ids : x = y
<1>1. A(req[c].op, req[c].pc, req[c].ok, req[c].override, req[c].terms)
  BY DEF RequestsAgree
<1>2. CASE OverrideTerm(c) \/ RemoveOverride(c) \/ Reprocess(c) \/ MarkReviewed(c)
  <2>1. A(req'[c].op, req'[c].pc, req'[c].ok, req'[c].override, req'[c].terms)
    BY <1>2, RequestMoves DEF Begins
  <2> QED
    BY <2>1, RequestFrame DEF RequestsAgree, OtherRequests
<1>3. CASE ~(OverrideTerm(c) \/ RemoveOverride(c) \/ Reprocess(c) \/ MarkReviewed(c))
  <2>1. /\ SameRequest(c)
        /\ \/ req[c].pc = "insert" /\ req'[c].pc = "flag" /\ req'[c].ok = req[c].ok
           \/ req[c].pc = "delete" /\ req'[c].pc = "unflag" /\ req'[c].ok = req[c].ok
           \/ req[c].pc = "status" /\ req'[c].pc = "add" /\ req'[c].ok = req[c].ok
           \/ req[c].pc # "idle" /\ req'[c].pc = "done"
    BY <1>3, RequestMoves DEF RequestStep
  <2>2. A(req'[c].op, req'[c].pc, req'[c].ok, req'[c].override, req'[c].terms)
    BY <1>1, <2>1 DEF SameRequest
  <2> QED
    BY <2>2, RequestFrame DEF RequestsAgree, OtherRequests
<1> QED
  BY <1>2, <1>3

LEMMA RequestJobSide ==
  ASSUME IInv, NEW c \in Clients, RequestStep(c)
  PROVE  /\ KindsAgree' /\ OneRuns' /\ ClausesAreCounted' /\ TermsAreCounted'
         /\ ReadinessIsComing'
<1> USE DEF IInv
<1>1. /\ UNCHANGED <<clauses, inserts, overlapped, broken>>
      /\ TermsKept /\ readiness'.of = readiness.of
  BY RequestFrame, RequestTerms DEF history
<1>2. \A k \in Jobs :
        \/ job'[k] = job[k]
        \/ /\ job[k] = NoJobHere /\ job'[k].pc = "waiting"
           /\ job'[k].kind \in {"extract", "segment"}
  BY RequestJobs
<1>3. KindsAgree'
  <2>1. "waiting" \in PcOf("extract") /\ "waiting" \in PcOf("segment")
    BY DEF PcOf
  <2> QED
    BY <1>2, <2>1 DEF KindsAgree
<1>4. OneRuns' /\ ClausesAreCounted'
  BY <1>1, <1>2 DEF OneRuns, ClausesAreCounted, Running
<1>5. TermsAreCounted'
  <2>1. terms = {} => terms' = {}
    <3>1. \A u \in terms' : u.id \in Ids
      BY <1>1 DEF TermsKept, Ids
    <3> QED
      BY <3>1 DEF Ids
  <2> QED
    BY <1>1, <1>2, <2>1 DEF TermsAreCounted, TermsKept
<1>6. ReadinessIsComing'
  <2>1. \A k \in Jobs : job[k].kind \in {"terms", "compute"} => job'[k] = job[k]
    BY <1>2 DEF NoJobHere
  <2>2. \A k \in Jobs : job'[k].pc \in {"exists", "insert_readiness", "update_readiness"} =>
                          job'[k] = job[k]
    BY <1>2
  <2> QED
    BY <1>1, <2>1, <2>2 DEF ReadinessIsComing, TermsKept
<1> QED
  BY <1>3, <1>4, <1>5, <1>6

LEMMA RequestNumbers ==
  ASSUME IInv, NEW c \in Clients, RequestStep(c)
  PROVE  NumbersAreTaken'
<1> USE DEF IInv
<1>1. inserts' = inserts /\ Ids' = Ids /\ OtherRequests(c)
  BY RequestFrame, RequestTerms DEF TermsKept
<1>2. \A u \in terms' : u.id[2] <= inserts
  <2>1. \A u \in terms' : u.id \in Ids
    BY <1>1 DEF Ids
  <2>2. \A id \in Ids : id[2] <= inserts
    BY DEF Ids, NumbersAreTaken
  <2> QED
    BY <2>1, <2>2
<1>3. \A id \in req'[c].terms : id[2] <= inserts
  <2>1. \/ req'[c].terms = req[c].terms \/ req'[c].terms = {}
        \/ \E t \in terms : req'[c].terms = {t.id}
    BY RequestMoves DEF RequestStep, Begins, SameRequest
  <2> QED
    BY <2>1 DEF NumbersAreTaken
<1> QED
  BY <1>1, <1>2, <1>3 DEF NumbersAreTaken, OtherRequests

\* A request that inserted its override goes on as one that did.
LEMMA InsertedStays ==
  ASSUME TypeOK, NEW c \in Clients, RequestStep(c), NEW d \in Clients,
         req[d].op = "override", req[d].pc \in {"flag", "done"}
  PROVE  /\ req'[d].op = "override" /\ req'[d].pc \in {"flag", "done"}
         /\ req'[d].terms = req[d].terms
         /\ req[d].pc = "done" => d # c /\ req'[d] = req[d]
<1>1. CASE d # c
  BY <1>1, RequestFrame DEF OtherRequests
<1>2. CASE d = c
  BY <1>2, RequestFrame, RequestMoves DEF RequestStep, SameRequest, Begins
<1> QED
  BY <1>1, <1>2

LEMMA RequestOverrides ==
  ASSUME IInv, NEW c \in Clients, RequestStep(c)
  PROVE  OverridesStay' /\ KeptWasInserted' /\ NothingToReapply'
<1> USE DEF IInv
<1>1. Ids' = Ids
  BY RequestTerms DEF TermsKept
<1>2. \A o \in overrides' :
        o \in overrides
          \/ /\ o.id = c /\ req[c].pc = "insert" /\ req'[c].op = "override"
             /\ req'[c].pc = "flag" /\ o.term \in req'[c].terms /\ o.term \in Ids
  <2>1. CASE InsertOverride(c)
    <3>1. CASE overrides' = overrides
      BY <3>1
    <3>2. CASE /\ req[c].terms \subseteq Ids /\ GoOn(c, "insert", "flag")
               /\ \A o \in overrides' : o \in overrides \/ (o.id = c /\ o.term \in req[c].terms)
      <4>1. /\ SameRequest(c) /\ req[c].pc = "insert" /\ req'[c].pc = "flag"
        BY <3>2, GoOnFrame
      <4> QED
        BY <3>2, <4>1 DEF SameRequest, RequestsAgree
    <3> QED
      BY <2>1, <3>1, <3>2, InsertOverrideFrame
  <2>2. CASE ~InsertOverride(c)
    BY <2>2, RequestTerms DEF DeleteOverride
  <2> QED
    BY <2>1, <2>2
<1>3. \A o \in overrides : o.id \in Clients
  BY DEF TypeOK, Override
<1>4. OverridesStay'
  <2> SUFFICES ASSUME NEW o \in overrides'
               PROVE  /\ req'[o.id].op = "override" /\ req'[o.id].pc \in {"flag", "done"}
                      /\ o.term \in req'[o.id].terms /\ o.term \in Ids
    BY <1>1 DEF OverridesStay
  <2>1. CASE o \in overrides
    <3>1. /\ o.id \in Clients /\ req[o.id].op = "override"
          /\ req[o.id].pc \in {"flag", "done"} /\ o.term \in req[o.id].terms /\ o.term \in Ids
      BY <1>3, <2>1 DEF OverridesStay
    <3> QED
      BY <3>1, InsertedStays
  <2> QED
    BY <1>2, <2>1
<1>5. \A k \in Jobs : /\ job'[k].kept \subseteq job[k].kept
                      /\ job'[k].pc = "insert_terms" => job'[k] = job[k]
  BY RequestJobs
<1>6. \A k \in Jobs : \A o \in job[k].kept : o.id \in Clients
  BY DEF TypeOK, Job, Override
<1>7. KeptWasInserted'
  BY <1>5, <1>6, InsertedStays DEF KeptWasInserted
<1>8. NothingToReapply'
  BY <1>2, <1>5, <1>6 DEF NothingToReapply, KeptWasInserted
<1> QED
  BY <1>4, <1>7, <1>8

LEMMA RequestNames ==
  ASSUME IInv, NEW c \in Clients, RequestStep(c)
  PROVE  NamesAreSettled'
<1> USE DEF IInv
<1>1. OtherRequests(c) /\ req[c].pc # "done"
  BY RequestFrame
<1>2. \A t \in terms : t.override # NoOverride =>
        /\ t.override \in Clients /\ t.override # c
        /\ req'[t.override].op = "override" /\ req'[t.override].pc = "done"
        /\ t.id \in req'[t.override].terms
        /\ req'[t.override] = req[t.override]
  BY <1>1 DEF NamesAreSettled, OtherRequests, TypeOK, Term
<1>3. \A u \in terms' : u.override # NoOverride =>
        /\ req'[u.override].op = "override" /\ req'[u.override].pc = "done"
        /\ u.id \in req'[u.override].terms
  <2>1. CASE terms' = terms
    BY <1>2, <2>1
  <2>2. CASE FlagTerm(c)
    <3>1. /\ req'[c].op = "override" /\ req'[c].pc = "done" /\ req'[c].terms = req[c].terms
      BY <2>2, RequestMoves DEF SameRequest, RequestsAgree
    <3>2. SetFlag(req[c].terms, TRUE, c)
      BY <2>2 DEF FlagTerm
    <3>3. \A u \in terms' : u \in terms \/ (u.id \in req[c].terms /\ u.override = c)
      BY <3>2, SetFlagFrame
    <3> QED
      BY <1>2, <3>1, <3>3
  <2>3. CASE UnflagTerm(c)
    <3>1. \A u \in terms' : u \in terms \/ u.override = NoOverride
      BY <2>3, SetFlagFrame DEF UnflagTerm
    <3> QED
      BY <1>2, <3>1
  <2>4. CASE DeleteOverride(c)
    BY <1>2, <2>4, DeleteOverrideFrame
  <2> QED
    BY <2>1, <2>2, <2>3, <2>4, RequestTerms
<1>4. \A d \in Clients : req[d].op = "remove" =>
        /\ req[d].override \in Clients /\ req[d].override # c
        /\ req'[req[d].override] = req[req[d].override]
  <2> TAKE d \in Clients
  <2>1. req[d].op = "remove" =>
          req[d].override # NoOverride /\ req[req[d].override].pc = "done"
    BY DEF NamesAreSettled
  <2>2. req[d].override \in Clients \cup {NoOverride}
    BY DEF TypeOK, Request
  <2> QED
    BY <1>1, <2>1, <2>2 DEF OtherRequests
<1>5. \A d \in Clients : req'[d].op = "remove" =>
        /\ req'[d].override # NoOverride
        /\ req'[req'[d].override].op = "override" /\ req'[req'[d].override].pc = "done"
        /\ req'[d].terms = req'[req'[d].override].terms
  <2> SUFFICES ASSUME NEW d \in Clients, req'[d].op = "remove"
               PROVE  /\ req'[d].override # NoOverride
                      /\ req'[req'[d].override].op = "override"
                      /\ req'[req'[d].override].pc = "done"
                      /\ req'[d].terms = req'[req'[d].override].terms
    OBVIOUS
  <2>1. CASE d # c
    BY <1>1, <1>4, <2>1 DEF OtherRequests, NamesAreSettled
  <2>2. CASE d = c /\ req[c].pc # "idle"
    <3>1. SameRequest(c)
      BY <2>2, RequestFrame
    <3> QED
      BY <1>4, <2>2, <3>1 DEF SameRequest, NamesAreSettled
  <2>3. CASE d = c /\ req[c].pc = "idle"
    <3>1. RemoveOverride(c)
      BY <2>3, RequestMoves DEF RequestStep, Begins
    <3>2. PICK t \in terms : /\ t.override # NoOverride
                             /\ Begins(c, "remove", "delete", {t.id}, t.override, FALSE)
      BY <3>1, RequestMoves
    <3>3. req'[c].override = t.override /\ req'[c].terms = {t.id}
      BY <3>2 DEF Begins
    <3>4. /\ req'[t.override].op = "override" /\ req'[t.override].pc = "done"
          /\ t.id \in req'[t.override].terms
          /\ \A x, y \in req'[t.override].terms : x = y
      BY <1>2, <3>2 DEF RequestsAgree
    <3> QED
      BY <2>3, <3>2, <3>3, <3>4
  <2> QED
    BY <2>1, <2>2, <2>3
<1> QED
  BY <1>3, <1>5 DEF NamesAreSettled

LEMMA RequestFlags ==
  ASSUME IInv, NEW c \in Clients, RequestStep(c)
  PROVE  FlagHasARow'
<1> USE DEF IInv
<1> SUFFICES ASSUME NEW d \in Clients, NEW u \in terms', req'[d].pc = "flag",
                    u.id \in req'[d].terms
             PROVE  [id |-> d, term |-> u.id] \in overrides'
  BY DEF FlagHasARow
<1>1. PICK t \in terms : t.id = u.id
  BY RequestTerms DEF TermsKept, Ids
<1>2. CASE d = c
  <2>1. InsertOverride(c) /\ req'[c].terms = req[c].terms
    BY <1>2, RequestMoves DEF RequestStep, SameRequest, Begins
  <2>2. ~Answered(c, FALSE)
    BY <1>2, AnsweredFrame
  <2> QED
    BY <1>2, <2>1, <2>2, InsertOverrideFrame
<1>3. CASE d # c
  <2>1. req'[d] = req[d]
    BY <1>3, RequestFrame DEF OtherRequests
  <2>2. [id |-> d, term |-> u.id] \in overrides
    BY <1>1, <2>1 DEF FlagHasARow
  <2>3. CASE DeleteOverride(c)
    <3>1. req[c].override # d
      <4>1. req[c].op = "remove"
        BY <2>3, RequestMoves DEF RequestsAgree
      <4> QED
        BY <2>1, <4>1 DEF NamesAreSettled
    <3> QED
      BY <2>2, <2>3, <3>1 DEF DeleteOverride
  <2>4. CASE ~DeleteOverride(c)
    BY <2>2, <2>4, RequestTerms, InsertOverrideFrame
  <2> QED
    BY <2>3, <2>4
<1> QED
  BY <1>2, <1>3

LEMMA RequestCorrections ==
  ASSUME IInv, NEW c \in Clients, RequestStep(c)
  PROVE  OverriddenHasACorrection'
<1> USE DEF IInv
<1> SUFFICES ASSUME NEW u \in terms', u.flagged, \A o \in overrides' : o.term # u.id
             PROVE  \E d \in Clients :
                      req'[d].op = "remove" /\ u.id \in req'[d].terms /\ ~req'[d].ok
  BY DEF OverriddenHasACorrection
<1>1. ASSUME NEW d \in Clients, req[d].op = "remove", u.id \in req[d].terms, ~req[d].ok,
             ~UnflagTerm(c) \/ d # c
      PROVE  req'[d].op = "remove" /\ u.id \in req'[d].terms /\ ~req'[d].ok
  <2>1. CASE d # c
    BY <1>1, <2>1, RequestFrame DEF OtherRequests
  <2>2. CASE d = c
    <3>1. req[c].pc \notin {"idle", "insert", "flag", "status", "add"}
      BY <1>1, <2>2 DEF RequestsAgree
    <3>2. DeleteOverride(c) \/ RequestFails(c)
      BY <1>1, <2>2, <3>1, RequestMoves DEF RequestStep, Begins
    <3> QED
      BY <1>1, <2>2, <3>2, RequestMoves DEF SameRequest
  <2> QED
    BY <2>1, <2>2
<1>2. ASSUME NEW t \in terms, t.id = u.id, t.flagged, \A o \in overrides : o.term # t.id,
             ~UnflagTerm(c) \/ t.id \notin req[c].terms
      PROVE  \E d \in Clients :
               req'[d].op = "remove" /\ u.id \in req'[d].terms /\ ~req'[d].ok
  <2>1. PICK d \in Clients : req[d].op = "remove" /\ t.id \in req[d].terms /\ ~req[d].ok
    BY <1>2 DEF OverriddenHasACorrection
  <2> QED
    BY <1>1, <1>2, <2>1
<1>3. CASE FlagTerm(c)
  <2>1. overrides' = overrides /\ ~UnflagTerm(c)
    BY <1>3, RequestMoves DEF FlagTerm
  <2>2. u \in terms \/ (u.id \in req[c].terms /\ u.id \in Ids)
    BY <1>3, SetFlagFrame DEF FlagTerm
  <2>3. CASE u.id \in req[c].terms /\ u.id \in Ids
    <3>1. PICK t \in terms : t.id = u.id
      BY <2>3 DEF Ids
    <3>2. [id |-> c, term |-> u.id] \in overrides
      BY <1>3, <2>3, <3>1 DEF FlagTerm, FlagHasARow
    <3> QED
      BY <2>1, <3>2
  <2> QED
    BY <1>2, <2>1, <2>2, <2>3
<1>4. CASE UnflagTerm(c)
  <2>1. u \in terms /\ u.id \notin req[c].terms /\ overrides' = overrides
    BY <1>4, SetFlagFrame DEF UnflagTerm
  <2> QED
    BY <1>2, <2>1
<1>5. CASE DeleteOverride(c)
  <2>1. PICK t \in terms : u.id = t.id /\ u.flagged = t.flagged
    BY <1>5, DeleteOverrideFrame
  <2>2. ~UnflagTerm(c) /\ req[c].pc = "delete" /\ SameRequest(c) /\ req'[c].ok = req[c].ok
    BY <1>5, RequestMoves
  <2>3. CASE \A o \in overrides : o.term # t.id
    BY <1>2, <2>1, <2>2, <2>3
  <2>4. CASE \E o \in overrides : o.term = t.id
    <3>1. PICK o \in overrides : o.term = t.id
      BY <2>4
    <3>2. o.id = req[c].override
      BY <1>5, <2>1, <3>1 DEF DeleteOverride
    <3>3. req[c].op = "remove" /\ ~req[c].ok
      BY <2>2 DEF RequestsAgree
    <3>4. t.id \in req[c].terms
      BY <3>1, <3>2, <3>3 DEF OverridesStay, NamesAreSettled
    <3> QED
      BY <2>1, <2>2, <3>3, <3>4 DEF SameRequest
  <2> QED
    BY <2>3, <2>4
<1>6. CASE ~FlagTerm(c) /\ ~UnflagTerm(c) /\ ~DeleteOverride(c)
  <2>1. terms' = terms /\ overrides \subseteq overrides'
    BY <1>6, RequestTerms, InsertOverrideFrame
  <2> QED
    BY <1>2, <1>6, <2>1
<1> QED
  BY <1>3, <1>4, <1>5, <1>6

LEMMA RequestExtracting ==
  ASSUME IInv, NEW c \in Clients, RequestStep(c)
  PROVE  ExtractingIsExplained'
<1> USE DEF IInv
<1> DEFINE Cause(d) == req[d].op = "resegment" \/ (req[d].op = "reextract" /\ ~req[d].ok)
<1> SUFFICES ASSUME doc'.status = "extracting", ~broken'
             PROVE  \/ \E d \in Clients : req'[d].op = "resegment"
                                            \/ (req'[d].op = "reextract" /\ ~req'[d].ok)
                    \/ \E k \in Jobs : job'[k].kind = "extract" /\ job'[k].pc # "add_segment"
  BY DEF ExtractingIsExplained
<1>1. CASE SetExtracting(c)
  <2>1. /\ req[c].pc = "status" /\ SameRequest(c) /\ req'[c].ok = req[c].ok
    BY <1>1, RequestMoves
  <2>2. req[c].op \in {"resegment", "reextract"} /\ ~req[c].ok
    BY <2>1 DEF RequestsAgree
  <2> QED
    BY <2>1, <2>2 DEF SameRequest
<1>2. CASE ~SetExtracting(c)
  <2>1. doc' = doc /\ ~broken
    BY <1>2, RequestTerms, RequestFrame DEF history
  <2>2. CASE \E k \in Jobs : job[k].kind = "extract" /\ job[k].pc # "add_segment"
    <3>1. PICK k \in Jobs : job[k].kind = "extract" /\ job[k].pc # "add_segment"
      BY <2>2
    <3>2. job'[k] = job[k]
      BY <3>1, RequestJobs DEF NoJobHere
    <3> QED
      BY <3>1, <3>2
  <2>3. CASE \E d \in Clients : Cause(d)
    <3>1. PICK d \in Clients : Cause(d)
      BY <2>3
    <3>2. CASE d # c
      BY <3>1, <3>2, RequestFrame DEF OtherRequests
    <3>3. CASE d = c /\ AddFirst(c)
      <4>1. PICK i \in Jobs : job'[i] = New(IF req[c].op = "reextract" THEN "extract"
                                            ELSE "segment")
        BY <3>3, AddFirstFrame
      <4>2. req'[c].op = req[c].op
        BY <3>3, RequestMoves DEF SameRequest
      <4>3. CASE req[c].op = "reextract"
        <5>1. job'[i].kind = "extract" /\ job'[i].pc = "waiting"
          BY <4>1, <4>3, NewIsAJob DEF Kind
        <5> QED
          BY <5>1
      <4> QED
        BY <3>1, <3>3, <4>2, <4>3
    <3>4. CASE d = c /\ ~AddFirst(c)
      <4>1. req[c].pc \notin {"idle", "insert", "flag", "delete", "unflag"}
        BY <3>1, <3>4 DEF RequestsAgree
      <4>2. RequestFails(c)
        BY <1>2, <3>4, <4>1, RequestMoves DEF RequestStep, Begins
      <4> QED
        BY <3>1, <3>4, <4>2, RequestMoves DEF SameRequest
    <3> QED
      BY <3>2, <3>3, <3>4
  <2> QED
    BY <2>1, <2>2, <2>3 DEF ExtractingIsExplained
<1> QED
  BY <1>1, <1>2

LEMMA RequestKeepsAll ==
  ASSUME IInv, NEW c \in Clients, RequestStep(c)
  PROVE  IInv'
BY RequestTypes, RequestAgreement, RequestJobSide, RequestNumbers, RequestOverrides,
   RequestNames, RequestFlags, RequestCorrections, RequestExtracting DEF IInv

(***************************************************************************)
(* The theorems                                                            *)
(***************************************************************************)
LEMMA StepHolds == IInv /\ [Next]_vars => IInv'
<1> SUFFICES ASSUME IInv, [Next]_vars PROVE IInv'
  OBVIOUS
<1>1. CASE \E c \in Clients : RequestStep(c)
  BY <1>1, RequestKeepsAll
<1>2. CASE \E j \in Jobs : Fetch(j)
  BY <1>2, FetchKeeps
<1>3. CASE \E j \in Jobs : JobStep(j)
  BY <1>3, JobKeepsAll
<1>4. CASE UNCHANGED vars
  <2>1. Ids' = Ids
    BY <1>4 DEF vars, Ids
  <2> QED
    BY <1>4, <2>1 DEF vars, IInv, TypeOK, KindsAgree, OneRuns, ClausesAreCounted,
       TermsAreCounted, NumbersAreTaken, RequestsAgree, OverridesStay, KeptWasInserted,
       NothingToReapply, NamesAreSettled, FlagHasARow, OverriddenHasACorrection,
       ExtractingIsExplained, ReadinessIsComing, Running
<1> QED
  BY <1>1, <1>2, <1>3, <1>4 DEF Next

\* The inductive invariant holds.
LEMMA Invariance == Spec => []IInv
<1>1. Init => IInv
  BY InitHolds
<1>2. IInv /\ [Next]_vars => IInv'
  BY StepHolds
<1> QED
  BY <1>1, <1>2, PTL DEF Spec

LEMMA QuietHasNoJob ==
  ASSUME Quiet, NEW j \in Jobs
  PROVE  job[j].kind = "none"
BY DEF Quiet, NoJobHere

\* Processors that run one after the other leave each row once, what is flagged
\* as overridden has its correction, and a document left 'extracting' a cause.
THEOREM TermsAreRight == Spec => []TermsInv
<1>1. IInv => TermsInv
  <2> SUFFICES ASSUME IInv PROVE TermsInv
    OBVIOUS
  <2>1. RowsOnce
    BY DEF IInv, RowsOnce, ClausesAreCounted, TermsAreCounted
  <2>2. ExtractingHasACause
    BY QuietHasNoJob DEF IInv, ExtractingHasACause, ExtractingIsExplained
  <2> QED
    BY <2>1, <2>2 DEF IInv, TermsInv, ContractsInv
<1> QED
  BY <1>1, Invariance, PTL

\* The readiness of a document at rest is that of the terms it has
\* (processReadinessComputeJob).
THEOREM ReadinessAtRest == Spec => []ReadinessIsCurrent
<1>1. IInv => ReadinessIsCurrent
  BY QuietHasNoJob DEF IInv, ReadinessIsCurrent, ReadinessIsComing
<1> QED
  BY <1>1, Invariance, PTL

\* Why corrections do not survive: when a job inserts terms, none of the overrides
\* it kept is left to be moved to them (processTermExtractJob deletes the terms, and
\* the overrides with them, before insertTerms).
THEOREM NothingIsReapplied == Spec => []NothingToReapply
<1>1. IInv => NothingToReapply
  BY DEF IInv
<1> QED
  BY <1>1, Invariance, PTL

=============================================================================
