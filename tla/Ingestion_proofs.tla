-------------------------- MODULE Ingestion_proofs --------------------------
(***************************************************************************)
(* Proofs about Ingestion: what an ingest.full job leaves in the tables of *)
(* a snapshot, over all runs of the job.                                   *)
(*                                                                         *)
(* That no line is inserted twice holds however the attempts overlap       *)
(* (LinesInv is inductive by itself).  The rest is about attempts one      *)
(* after the other: then only one attempt acts (Alone), and each part of   *)
(* IInv is kept by its steps, stage by stage.                              *)
(***************************************************************************)
EXTENDS Ingestion, TLAPS, FiniteSetTheorems, SequenceTheorems

(***************************************************************************)
(* The inductive invariant                                                 *)
(***************************************************************************)
Upserting  == {"read_normalized", "resolve", "insert", "lines"}
Finalizing == {"finalize", "count", "check", "finish"}

\* The record in hand of an attempt that inserts it or its lines.
RecordInHand ==
  \A a \in Attempts :
    /\ job[a].pc \in {"insert", "lines"} => job[a].record \in Records
    /\ job[a].pc = "lines" => /\ job[a].ids[job[a].record] \in {"row", "ghost"}
                              /\ job[a].line <= Len(LinesOf[job[a].record])

\* An attempt that writes lines under the id of a row made that row, and the row
\* has the lines before the attempt's.
OpenLines ==
  \A a \in Attempts :
    job[a].pc = "lines" /\ job[a].ids[job[a].record] = "row" =>
      /\ canon[job[a].record].by = a
      /\ Len(canon[job[a].record].lines) = job[a].line

CachedRows ==
  \A a \in Attempts, x \in Records : job[a].ids[x] = "row" => HasRow(x)

LinesInv == TypeOK /\ RecordInHand /\ OpenLines /\ LinesOnce

\* One attempt after the other.
OneAtATime ==
  \A a \in Attempts : job[a].pc # "new" => \A b \in 1..(a - 1) : job[b].pc \in Ended

RowsHaveAuthors ==
  \A r \in Records :
    HasRow(r) => job[canon[r].by].pc \in Upserting \cup Finalizing \cup Ended

\* The status of the snapshot follows the attempt, and what the attempt is about
\* to write is what the tables hold.
StatusFollows ==
  \A a \in Attempts :
    /\ job[a].pc \in {"load", "read_pending", "normalize", "finalize"} \cup Upserting =>
         snapshot.status = "building"
    /\ job[a].pc \in {"count", "check", "finish"} => snapshot.status = "validating"

VerdictIsTrue ==
  \A a \in Attempts :
    /\ job[a].pc \in {"check", "finish"} => job[a].todo = {r \in Records : HasRow(r)}
    /\ job[a].pc = "finish" /\ job[a].verdict = "complete" =>
         Cardinality(InStatus("failed")) <= MaxFailed \/ job[a].clean = "no"

\* A page of pending records is pending until the attempt has been through it.
PageIsPending ==
  \A a \in Attempts : job[a].pc = "normalize" => job[a].todo \subseteq InStatus("pending")

\* The upsert has a page of one type in hand.
PageOfType ==
  \A a \in Attempts :
    /\ job[a].pc = "read_normalized" => job[a].todo = {}
    /\ job[a].pc \in {"resolve", "insert", "lines"} =>
         \A r \in job[a].todo : Rank(Type[r]) = job[a].phase
    /\ job[a].pc \in {"insert", "lines"} => Rank(Type[job[a].record]) = job[a].phase
    /\ job[a].pc = "insert" => job[a].record \notin job[a].todo

RowsInOrder ==
  \A a \in Attempts : job[a].pc \in Upserting =>
    \A r \in Records : canon[r].by = a => Rank(Type[r]) <= job[a].phase

RowsLinked ==
  \A a \in Attempts : job[a].pc \in Upserting \cup Finalizing =>
    \A r \in Records : canon[r].by = a => canon[r].links = {x \in Refs[r] : HasRow(x)}

\* What the attempt did not find for the record in hand is still not there.
MissesAreTrue ==
  \A a \in Attempts : job[a].pc = "insert" =>
    \A x \in Refs[job[a].record] : job[a].ids[x] = "none" => ~HasRow(x)

\* While the upsert has all records in one page: a page at an offset is empty,
PagesAreOne ==
  \A a \in Attempts : job[a].pc \in Upserting =>
    /\ job[a].offset = 0 \/ job[a].offset >= UpsertLimit
    /\ OnePage /\ job[a].offset # 0 =>
         job[a].pc \in {"read_normalized", "resolve"} /\ job[a].todo = {}

\* no record is taken up twice,
TakenOnce ==
  \A a \in Attempts : job[a].pc \in Upserting /\ OnePage =>
    \A r \in Records : canon[r].by = a =>
      /\ r \notin job[a].todo
      /\ job[a].pc = "insert" => r # job[a].record
      /\ job[a].pc = "read_normalized" /\ job[a].offset = 0 => Rank(Type[r]) < job[a].phase

\* so that an id of no row is that of an object an earlier attempt inserted;
GhostsAreOld ==
  \A a \in Attempts : job[a].pc \in Upserting /\ OnePage =>
    \A x \in Records : job[a].ids[x] = "ghost" => FromBefore(a, x)

Settled(a, r) ==
  HasRow(r) \/ Type[r] = "pricePlan" \/ \E x \in Refs[r] : FromBefore(a, x)

\* the records a clean attempt is through with have their row or a cause to have none,
SettledSoFar ==
  \A a \in Attempts : job[a].clean = "yes" /\ OnePage =>
    \A r \in InStatus("normalized") :
      /\ job[a].pc \in Upserting /\ Rank(Type[r]) < job[a].phase => Settled(a, r)
      /\ job[a].pc = "read_normalized" /\ job[a].offset # 0 /\ Rank(Type[r]) = job[a].phase =>
           Settled(a, r)
      /\ job[a].pc \in {"resolve", "insert", "lines"} /\ Rank(Type[r]) = job[a].phase =>
           \/ r \in job[a].todo
           \/ job[a].pc = "insert" /\ r = job[a].record
           \/ Settled(a, r)
      /\ job[a].pc \in Finalizing => Settled(a, r)

HasItsLines(a, r) ==
  \/ Len(canon[r].lines) = Len(LinesOf[r])
  \/ \E i \in 1..Len(LinesOf[r]) : FromBefore(a, LinesOf[r][i])

\* and their lines, but for the record in hand.
LinesSoFar ==
  \A a \in Attempts :
    job[a].clean = "yes" /\ OnePage /\ job[a].pc \in Upserting \cup Finalizing =>
      \A r \in Records : canon[r].by = a =>
        HasItsLines(a, r) \/ (job[a].pc = "lines" /\ job[a].record = r)

OrderInv == OneAtATime /\ RowsHaveAuthors
StatusInv == StatusFollows /\ VerdictIsTrue /\ CompleteIsAccurate
LinksInv == PageOfType /\ RowsInOrder /\ CachedRows /\ MissesAreTrue /\ RowsLinked
UpsertInv == PagesAreOne /\ TakenOnce /\ GhostsAreOld /\ SettledSoFar /\ LinesSoFar

IInv == LinesInv /\ OrderInv /\ StatusInv /\ PageIsPending /\ LinksInv /\ UpsertInv

(***************************************************************************)
(* Pages of a query                                                        *)
(***************************************************************************)
LEMMA TypesAreSome == Len(Types) \in Nat \ {0} /\ 1 \in 1..Len(Types)
BY TypeOrder, EmptySeq, LenProperties

LEMMA RecordsFinite == \A S \in SUBSET Records : IsFiniteSet(S) /\ Cardinality(S) \in Nat
BY RecordShape, FS_Subset, FS_CardinalityType

\* A page at offset 0 that may hold all rows holds all of them, one at an offset
\* past the rows is empty.
LEMMA WholeWindow ==
  ASSUME NEW S \in SUBSET Records, NEW limit \in Nat, Cardinality(S) <= limit,
         NEW P \in Window(S, limit, 0)
  PROVE  P = S
<1>1. /\ IsFiniteSet(S) /\ IsFiniteSet(P) /\ P \subseteq S
      /\ Cardinality(S) \in Nat /\ Cardinality(P) \in Nat
  BY RecordsFinite DEF Window
<1>2. PICK skipped \in SUBSET (S \ P) :
        /\ Cardinality(skipped) = 0
        /\ Cardinality(P) = limit \/ P \cup skipped = S
  BY <1>1 DEF Window
<1>3. skipped = {}
  BY <1>1, <1>2, FS_Subset, FS_EmptySet
<1>4. CASE Cardinality(P) = limit
  <2>1. Cardinality(P) = Cardinality(S)
    BY <1>1, <1>4, FS_Subset
  <2> QED
    BY <1>1, <2>1, FS_Subset
<1> QED
  BY <1>2, <1>3, <1>4

LEMMA PastWindow ==
  ASSUME NEW S \in SUBSET Records, NEW limit \in Nat, NEW offset \in Nat,
         Cardinality(S) <= offset, NEW P \in Window(S, limit, offset)
  PROVE  P = {}
<1>1. /\ IsFiniteSet(S) /\ P \subseteq S /\ Cardinality(S) \in Nat
  BY RecordsFinite DEF Window
<1>2. PICK skipped \in SUBSET (S \ P) : Cardinality(skipped) = Cardinality(S)
  BY <1>1 DEF Window
<1>3. skipped = S
  BY <1>1, <1>2, FS_Subset
<1> QED
  BY <1>1, <1>3

(***************************************************************************)
(* What a step leaves of the attempt's memory                              *)
(***************************************************************************)
Others(a) == \A b \in Attempts \ {a} : job'[b] = job[b]

\* What an attempt keeps in memory from one step to the next.
SamePage(a) ==
  /\ job'[a].phase = job[a].phase /\ job'[a].offset = job[a].offset
  /\ job'[a].got = job[a].got
SameRecord(a) == job'[a].record = job[a].record /\ job'[a].line = job[a].line
SameRest(a) == job'[a].batches = job[a].batches /\ job'[a].verdict = job[a].verdict
SameTodo(a) == job'[a].todo = job[a].todo
SameIds(a) == job'[a].ids = job[a].ids
SameClean(a) == job'[a].clean = job[a].clean
Goes(a, to) == job' \in [Attempts -> Job] /\ Others(a) /\ job'[a].pc = to

LEMMA Update ==
  ASSUME TypeOK, NEW a \in Attempts, NEW new \in Job, job' = [job EXCEPT ![a] = new]
  PROVE  job' \in [Attempts -> Job] /\ Others(a) /\ job'[a] = new
BY DEF TypeOK, Others

LEMMA StartFrame ==
  ASSUME TypeOK, NEW a \in Attempts, Start(a)
  PROVE  /\ Goes(a, "returned") \/ Goes(a, "begin")
         /\ SamePage(a) /\ SameRecord(a) /\ SameTodo(a) /\ SameIds(a) /\ SameClean(a)
         /\ job'[a].verdict = job[a].verdict
<1> DEFINE to == IF Batches = {} THEN "returned" ELSE "begin"
<1> DEFINE new == [job[a] EXCEPT !.pc = to, !.batches = Batches]
<1>1. job[a] \in Job /\ to \in JobPc /\ to \in {"returned", "begin"}
  BY DEF TypeOK, JobPc
<1>2. job' = [job EXCEPT ![a] = new]
  BY DEF Start
<1> HIDE DEF to
<1>3. /\ new \in Job /\ new.pc = to /\ new.verdict = job[a].verdict
      /\ new.phase = job[a].phase /\ new.offset = job[a].offset /\ new.got = job[a].got
      /\ new.todo = job[a].todo /\ new.ids = job[a].ids /\ new.clean = job[a].clean
      /\ new.record = job[a].record /\ new.line = job[a].line
  BY <1>1 DEF Job
<1> HIDE DEF new
<1> QED
  BY <1>1, <1>2, <1>3, Update DEF Goes, SamePage, SameRecord, SameTodo, SameIds, SameClean

LEMMA BeginLoadFrame ==
  ASSUME TypeOK, NEW a \in Attempts, BeginLoad(a)
  PROVE  /\ Goes(a, "load") /\ SamePage(a) /\ SameRecord(a) /\ SameRest(a) /\ SameTodo(a)
         /\ SameIds(a) /\ SameClean(a)
<1> DEFINE new == [job[a] EXCEPT !.pc = "load"]
<1>1. job[a] \in Job /\ "load" \in JobPc
  BY DEF TypeOK, JobPc
<1>2. job' = [job EXCEPT ![a] = new]
  BY DEF BeginLoad
<1>3. /\ new \in Job /\ new.pc = "load" /\ new.clean = job[a].clean
      /\ new.batches = job[a].batches /\ new.phase = job[a].phase
      /\ new.offset = job[a].offset /\ new.got = job[a].got /\ new.todo = job[a].todo
      /\ new.record = job[a].record /\ new.line = job[a].line /\ new.ids = job[a].ids
      /\ new.verdict = job[a].verdict
  BY <1>1 DEF Job
<1> HIDE DEF new
<1> QED
  BY <1>1, <1>2, <1>3, Update
     DEF Goes, SamePage, SameRecord, SameRest, SameTodo, SameIds, SameClean

LEMMA EndLoadFrame ==
  ASSUME TypeOK, NEW a \in Attempts, EndLoad(a)
  PROVE  /\ Goes(a, "read_pending") /\ job'[a].offset = 0 /\ SameRecord(a) /\ SameRest(a)
         /\ SameTodo(a) /\ SameIds(a) /\ SameClean(a) /\ job'[a].phase = job[a].phase
         /\ job'[a].got = job[a].got
<1> DEFINE new == [job[a] EXCEPT !.pc = "read_pending", !.offset = 0]
<1>1. job[a] \in Job /\ "read_pending" \in JobPc
  BY DEF TypeOK, JobPc
<1>2. job' = [job EXCEPT ![a] = new]
  BY DEF EndLoad
<1>3. /\ new \in Job /\ new.pc = "read_pending" /\ new.offset = 0
      /\ new.clean = job[a].clean /\ new.batches = job[a].batches
      /\ new.phase = job[a].phase /\ new.got = job[a].got /\ new.todo = job[a].todo
      /\ new.record = job[a].record /\ new.line = job[a].line /\ new.ids = job[a].ids
      /\ new.verdict = job[a].verdict
  BY <1>1 DEF Job
<1> HIDE DEF new
<1> QED
  BY <1>1, <1>2, <1>3, Update DEF Goes, SameRecord, SameRest, SameTodo, SameIds, SameClean

LEMMA BeginFinalizeFrame ==
  ASSUME TypeOK, NEW a \in Attempts, BeginFinalize(a)
  PROVE  /\ Goes(a, "count") /\ SamePage(a) /\ SameRecord(a) /\ SameRest(a)
         /\ SameTodo(a) /\ SameIds(a) /\ SameClean(a)
<1> DEFINE new == [job[a] EXCEPT !.pc = "count"]
<1>1. job[a] \in Job /\ "count" \in JobPc
  BY DEF TypeOK, JobPc
<1>2. job' = [job EXCEPT ![a] = new]
  BY DEF BeginFinalize
<1>3. /\ new \in Job /\ new.pc = "count" /\ new.clean = job[a].clean
      /\ new.batches = job[a].batches /\ new.phase = job[a].phase
      /\ new.offset = job[a].offset /\ new.got = job[a].got /\ new.todo = job[a].todo
      /\ new.record = job[a].record /\ new.line = job[a].line /\ new.ids = job[a].ids
      /\ new.verdict = job[a].verdict
  BY <1>1 DEF Job
<1> HIDE DEF new
<1> QED
  BY <1>1, <1>2, <1>3, Update
     DEF Goes, SamePage, SameRecord, SameRest, SameTodo, SameIds, SameClean

LEMMA EndRecordFrame ==
  ASSUME TypeOK, NEW a \in Attempts, EndRecord(a)
  PROVE  /\ Goes(a, "resolve") /\ job'[a].record = NoRecord /\ SamePage(a) /\ SameRest(a)
         /\ SameTodo(a) /\ SameIds(a) /\ SameClean(a) /\ job'[a].line = job[a].line
<1> DEFINE new == [job[a] EXCEPT !.pc = "resolve", !.record = NoRecord]
<1>1. job[a] \in Job /\ "resolve" \in JobPc
  BY DEF TypeOK, JobPc
<1>2. job' = [job EXCEPT ![a] = new]
  BY DEF EndRecord
<1>3. /\ new \in Job /\ new.pc = "resolve" /\ new.record = NoRecord
      /\ new.clean = job[a].clean /\ new.batches = job[a].batches
      /\ new.phase = job[a].phase /\ new.offset = job[a].offset /\ new.got = job[a].got
      /\ new.todo = job[a].todo /\ new.line = job[a].line /\ new.ids = job[a].ids
      /\ new.verdict = job[a].verdict
  BY <1>1 DEF Job
<1> HIDE DEF new
<1> QED
  BY <1>1, <1>2, <1>3, Update DEF Goes, SamePage, SameRest, SameTodo, SameIds, SameClean

LEMMA LoadBatchFrame ==
  ASSUME TypeOK, NEW a \in Attempts, LoadBatch(a)
  PROVE  /\ Goes(a, "load") /\ job'[a].clean \in {job[a].clean, "no"} /\ SamePage(a)
         /\ SameRecord(a) /\ SameTodo(a) /\ SameIds(a)
         /\ job'[a].verdict = job[a].verdict
<1>0. PICK b \in job[a].batches : \E lost \in SUBSET Contents[b] :
        /\ job[a].pc = "load"
        /\ job' = [job EXCEPT ![a].batches = @ \ {b},
                              ![a].clean = IF lost = {} THEN @ ELSE "no"]
  BY DEF LoadBatch
<1>4. PICK lost \in SUBSET Contents[b] :
        /\ job[a].pc = "load"
        /\ job' = [job EXCEPT ![a].batches = @ \ {b},
                              ![a].clean = IF lost = {} THEN @ ELSE "no"]
  BY <1>0
<1> DEFINE c == IF lost = {} THEN job[a].clean ELSE "no"
<1> DEFINE new == [job[a] EXCEPT !.clean = c, !.batches = job[a].batches \ {b}]
<1>1. job[a] \in Job /\ c \in {"yes", "no"} /\ c \in {job[a].clean, "no"}
  BY DEF TypeOK, Job
<1>2. job' = [job EXCEPT ![a] = new]
  BY <1>4
<1> HIDE DEF c
<1>3. /\ new \in Job /\ new.clean = c /\ new.batches = job[a].batches \ {b}
      /\ new.pc = job[a].pc /\ new.phase = job[a].phase /\ new.offset = job[a].offset
      /\ new.got = job[a].got /\ new.todo = job[a].todo /\ new.record = job[a].record
      /\ new.line = job[a].line /\ new.ids = job[a].ids /\ new.verdict = job[a].verdict
  BY <1>1 DEF Job
<1> HIDE DEF new
<1> QED
  BY <1>0, <1>1, <1>2, <1>3, Update, <1>4 DEF Goes, SamePage, SameRecord, SameTodo, SameIds

LEMMA ReadPendingFrame ==
  ASSUME TypeOK, NEW a \in Attempts, ReadPending(a)
  PROVE  /\ Goes(a, "normalize") /\ job'[a].todo \subseteq InStatus("pending")
         /\ SameRecord(a) /\ SameRest(a) /\ SameIds(a) /\ SameClean(a)
         /\ job'[a].phase = job[a].phase /\ job'[a].offset = job[a].offset
<1>0. PICK page \in Window(InStatus("pending"), NormalizeLimit, job[a].offset) :
        job' = [job EXCEPT ![a].pc = "normalize", ![a].todo = page,
                           ![a].got = Cardinality(page)]
  BY DEF ReadPending
<1> DEFINE new == [job[a] EXCEPT !.pc = "normalize",
                                 !.got = Cardinality(page),
                                 !.todo = page]
<1>1. job[a] \in Job /\ "normalize" \in JobPc
  BY DEF TypeOK, JobPc
<1>4. page \subseteq InStatus("pending") /\ page \in SUBSET Records /\ Cardinality(page) \in Nat
  BY RecordShape, FS_Subset, FS_CardinalityType DEF Window, InStatus
<1>2. job' = [job EXCEPT ![a] = new]
  BY <1>0
<1>3. /\ new \in Job /\ new.pc = "normalize" /\ new.got = Cardinality(page)
      /\ new.todo = page /\ new.clean = job[a].clean /\ new.batches = job[a].batches
      /\ new.phase = job[a].phase /\ new.offset = job[a].offset
      /\ new.record = job[a].record /\ new.line = job[a].line /\ new.ids = job[a].ids
      /\ new.verdict = job[a].verdict
  BY <1>1, <1>4 DEF Job
<1> HIDE DEF new
<1> QED
  BY <1>0, <1>1, <1>2, <1>3, Update, <1>4 DEF Goes, SameRecord, SameRest, SameIds, SameClean

LEMMA NormalizeRecordFrame ==
  ASSUME TypeOK, NEW a \in Attempts, NormalizeRecord(a)
  PROVE  /\ Goes(a, "normalize") /\ job'[a].clean \in {job[a].clean, "no"}
         /\ job'[a].todo \subseteq job[a].todo /\ SamePage(a) /\ SameRecord(a)
         /\ SameRest(a) /\ SameIds(a)
         /\ \E r \in job[a].todo, status \in {"normalized", "failed"} :
                 /\ job'[a].todo = job[a].todo \ {r}
                 /\ staging' = [staging EXCEPT ![r].status = status]
<1>0. PICK r \in Foremost(job[a].todo), status \in {"normalized", "failed"} :
        /\ job[a].pc = "normalize"
        /\ staging' = [staging EXCEPT ![r].status = status]
        /\ job' = [job EXCEPT ![a].todo = @ \ {r},
                              ![a].clean = IF status = "failed" /\ r \in Mappable
                                           THEN "no" ELSE @]
  BY DEF NormalizeRecord
<1> DEFINE c == IF status = "failed" /\ r \in Mappable THEN "no" ELSE job[a].clean
<1> DEFINE new == [job[a] EXCEPT !.clean = c, !.todo = job[a].todo \ {r}]
<1>1. job[a] \in Job /\ c \in {"yes", "no"} /\ c \in {job[a].clean, "no"} /\ r \in job[a].todo
  BY DEF TypeOK, Job, Foremost
<1>2. job' = [job EXCEPT ![a] = new]
  BY <1>0
<1> HIDE DEF c
<1>3. /\ new \in Job /\ new.clean = c /\ new.todo = job[a].todo \ {r}
      /\ new.pc = job[a].pc /\ new.batches = job[a].batches /\ new.phase = job[a].phase
      /\ new.offset = job[a].offset /\ new.got = job[a].got /\ new.record = job[a].record
      /\ new.line = job[a].line /\ new.ids = job[a].ids /\ new.verdict = job[a].verdict
  BY <1>1 DEF Job
<1> HIDE DEF new
<1> QED
  BY <1>0, <1>1, <1>2, <1>3, Update DEF Goes, SamePage, SameRecord, SameRest, SameIds

LEMMA EndPendingPageFrame ==
  ASSUME TypeOK, NEW a \in Attempts, EndPendingPage(a)
  PROVE  /\ Goes(a, "read_pending") \/ (Goes(a, "read_normalized") /\ job'[a].offset = 0)
         /\ SameRecord(a) /\ SameRest(a) /\ SameTodo(a) /\ SameClean(a)
         /\ job'[a].got = job[a].got
         /\ job[a].todo = {}
         /\ job'[a].phase = 1
         /\ job'[a].ids = NoIds
<1> DEFINE full == job[a].got = NormalizeLimit
<1> DEFINE to == IF full THEN "read_pending" ELSE "read_normalized"
<1> DEFINE o == IF full THEN job[a].offset + job[a].got ELSE 0
<1> DEFINE new == [job[a] EXCEPT !.pc = to, !.phase = 1, !.offset = o, !.ids = NoIds]
<1>1. /\ job[a] \in Job /\ to \in JobPc /\ o \in Nat /\ 1 \in 1..Len(Types)
      /\ NoIds \in [Records -> CachedId]
      /\ to = "read_pending" \/ (to = "read_normalized" /\ o = 0)
  BY TypesAreSome DEF TypeOK, Job, JobPc, NoIds, CachedId
<1>4. job[a].todo = {}
  BY DEF EndPendingPage
<1>2. job' = [job EXCEPT ![a] = new]
  BY DEF EndPendingPage
<1> HIDE DEF full, to, o
<1>3. /\ new \in Job /\ new.pc = to /\ new.phase = 1 /\ new.offset = o /\ new.ids = NoIds
      /\ new.clean = job[a].clean /\ new.batches = job[a].batches /\ new.got = job[a].got
      /\ new.todo = job[a].todo /\ new.record = job[a].record /\ new.line = job[a].line
      /\ new.verdict = job[a].verdict
  BY <1>1 DEF Job
<1> HIDE DEF new
<1> QED
  BY <1>1, <1>2, <1>3, Update, <1>4 DEF Goes, SameRecord, SameRest, SameTodo, SameClean

\* The normalized records of the type the attempt is at.
OfPhase(a) == {r \in InStatus("normalized") : Type[r] = Types[job[a].phase]}

LEMMA ReadNormalizedFrame ==
  ASSUME TypeOK, NEW a \in Attempts, ReadNormalized(a)
  PROVE  /\ Goes(a, "resolve") /\ SameRecord(a) /\ SameRest(a) /\ SameIds(a) /\ SameClean(a)
         /\ job'[a].phase = job[a].phase /\ job'[a].offset = job[a].offset
         /\ job'[a].todo \subseteq OfPhase(a)
         /\ OnePage /\ job[a].offset = 0 => job'[a].todo = OfPhase(a)
         /\ OnePage /\ job[a].offset >= UpsertLimit => job'[a].todo = {}
<1>0. PICK page \in Window(InStatus("normalized"), UpsertLimit, job[a].offset) :
        job' = [job EXCEPT
          ![a].pc = "resolve", ![a].got = Cardinality(page),
          ![a].todo = {r \in page : Type[r] = Types[job[a].phase]}]
  BY DEF ReadNormalized
<1> DEFINE work == {r \in page : Type[r] = Types[job[a].phase]}
<1> DEFINE new == [job[a] EXCEPT !.pc = "resolve", !.got = Cardinality(page), !.todo = work]
<1>1. /\ job[a] \in Job /\ "resolve" \in JobPc /\ job[a].offset \in Nat
      /\ UpsertLimit \in Nat /\ InStatus("normalized") \in SUBSET Records
  BY Limits DEF TypeOK, Job, JobPc, InStatus
<1>2. job' = [job EXCEPT ![a] = new]
  BY <1>0
<1>3. page \in SUBSET InStatus("normalized") /\ page \in SUBSET Records
  BY <1>1 DEF Window
<1>4. work \in SUBSET Records /\ work \subseteq OfPhase(a) /\ Cardinality(page) \in Nat
  BY <1>3, RecordsFinite DEF OfPhase
<1>5. OnePage /\ job[a].offset = 0 => work = OfPhase(a)
  BY <1>1, WholeWindow DEF OfPhase, OnePage
<1>6. OnePage /\ job[a].offset >= UpsertLimit => work = {}
  <2>1. SUFFICES ASSUME OnePage, job[a].offset >= UpsertLimit
                 PROVE  page = {}
    OBVIOUS
  <2>2. Cardinality(InStatus("normalized")) <= job[a].offset
    BY <1>1, <2>1, RecordsFinite DEF OnePage
  <2> QED
    BY <1>1, <2>2, PastWindow
<1> HIDE DEF work
<1>7. /\ new \in Job /\ new.pc = "resolve" /\ new.todo = work
      /\ new.clean = job[a].clean /\ new.batches = job[a].batches
      /\ new.phase = job[a].phase /\ new.offset = job[a].offset
      /\ new.record = job[a].record /\ new.line = job[a].line /\ new.ids = job[a].ids
      /\ new.verdict = job[a].verdict
  BY <1>1, <1>4 DEF Job
<1> HIDE DEF new
<1>8. Goes(a, "resolve") /\ job'[a] = new
  BY <1>1, <1>2, <1>7, Update DEF Goes
<1> QED
  BY <1>4, <1>5, <1>6, <1>7, <1>8 DEF SameRecord, SameRest, SameIds, SameClean

LEMMA ResolveReferencesFrame ==
  ASSUME TypeOK, NEW a \in Attempts, ResolveReferences(a)
  PROVE  /\ Goes(a, "insert") /\ SamePage(a) /\ SameRest(a) /\ SameClean(a)
         /\ \E r \in job[a].todo :
              /\ job'[a].todo = job[a].todo \ {r} /\ job'[a].record = r
              /\ \A x \in Records :
                   job'[a].ids[x] = IF x \in Refs[r] THEN Resolve(job[a].ids, x)
                                                     ELSE job[a].ids[x]
<1>0. PICK r \in Foremost(job[a].todo) :
        job' = [job EXCEPT
          ![a].pc = "insert", ![a].todo = @ \ {r}, ![a].record = r,
          ![a].ids = [x \in Records |-> IF x \in Refs[r] THEN Resolve(@, x) ELSE @[x]]]
  BY DEF ResolveReferences
<1> DEFINE found == [x \in Records |-> IF x \in Refs[r] THEN Resolve(job[a].ids, x)
                                                        ELSE job[a].ids[x]]
<1> DEFINE new == [job[a] EXCEPT !.pc = "insert", !.todo = job[a].todo \ {r}, !.record = r,
                                 !.ids = found]
<1>1. job[a] \in Job /\ "insert" \in JobPc /\ r \in job[a].todo /\ r \in Records
  BY DEF TypeOK, Job, JobPc, Foremost
<1>2. job' = [job EXCEPT ![a] = new]
  BY <1>0
<1>3. \A x \in Records :
        /\ found[x] = IF x \in Refs[r] THEN Resolve(job[a].ids, x) ELSE job[a].ids[x]
        /\ job[a].ids[x] \in CachedId
  BY <1>1 DEF Job
<1>4. found \in [Records -> CachedId]
  BY <1>3 DEF Resolve, CachedId
<1> HIDE DEF found
<1>5. /\ new \in Job /\ new.pc = "insert" /\ new.todo = job[a].todo \ {r}
      /\ new.record = r /\ new.ids = found
      /\ new.clean = job[a].clean /\ new.batches = job[a].batches
      /\ new.phase = job[a].phase /\ new.offset = job[a].offset /\ new.got = job[a].got
      /\ new.verdict = job[a].verdict
  BY <1>1, <1>4 DEF Job
<1> HIDE DEF new
<1>6. Goes(a, "insert") /\ job'[a] = new
  BY <1>1, <1>2, <1>5, Update DEF Goes
<1> QED
  BY <1>1, <1>3, <1>5, <1>6 DEF SamePage, SameRest, SameClean

LEMMA InsertRowFrame ==
  ASSUME TypeOK, NEW a \in Attempts, InsertRow(a)
  PROVE  /\ Goes(a, "lines") /\ job'[a].line = 0 /\ job'[a].record = job[a].record
         /\ SamePage(a) /\ SameRest(a) /\ SameTodo(a) /\ SameClean(a)
         /\ job'[a].ids = [job[a].ids EXCEPT ![job[a].record] =
                             IF HasRow(job[a].record) THEN "ghost" ELSE "row"]
<1> DEFINE id == IF HasRow(job[a].record) THEN "ghost" ELSE "row"
<1> DEFINE made == [job[a].ids EXCEPT ![job[a].record] = id]
<1> DEFINE new == [job[a] EXCEPT !.pc = "lines", !.line = 0, !.ids = made]
<1>1. job[a] \in Job /\ "lines" \in JobPc /\ job[a].ids \in [Records -> CachedId]
  BY DEF TypeOK, Job, JobPc
<1>2. job' = [job EXCEPT ![a] = new]
  BY DEF InsertRow
<1>3. id \in CachedId
  BY DEF CachedId
<1> HIDE DEF id
<1>4. made \in [Records -> CachedId]
  BY <1>1, <1>3
<1> HIDE DEF made
<1>5. /\ new \in Job /\ new.pc = "lines" /\ new.line = 0 /\ new.ids = made
      /\ new.clean = job[a].clean /\ new.batches = job[a].batches
      /\ new.phase = job[a].phase /\ new.offset = job[a].offset /\ new.got = job[a].got
      /\ new.todo = job[a].todo /\ new.record = job[a].record
      /\ new.verdict = job[a].verdict
  BY <1>1, <1>4 DEF Job
<1> HIDE DEF new
<1>6. Goes(a, "lines") /\ job'[a] = new
  BY <1>1, <1>2, <1>5, Update DEF Goes
<1> QED
  BY <1>5, <1>6 DEF SamePage, SameRest, SameTodo, SameClean, made, id

\* The insert of the record, or of its next line, throws without a failing statement.
InsertMustThrow(a) ==
  ~HasConflictIndex(Type[job[a].record]) \/ (~HasRow(job[a].record) /\ ~LinksExist(a))

LEMMA InsertThrowsFrame ==
  ASSUME TypeOK, NEW a \in Attempts, InsertThrows(a)
  PROVE  /\ Goes(a, "resolve") /\ job'[a].record = NoRecord
         /\ SamePage(a) /\ SameRest(a) /\ SameTodo(a) /\ SameIds(a)
         /\ job'[a].clean \in {job[a].clean, "no"}
         /\ job'[a].clean = "yes" => InsertMustThrow(a)
<1> DEFINE c == IF InsertMustThrow(a) THEN job[a].clean ELSE "no"
<1> DEFINE new == [job[a] EXCEPT !.pc = "resolve", !.record = NoRecord, !.clean = c]
<1>1. job[a] \in Job /\ "resolve" \in JobPc /\ job[a].clean \in {"yes", "no"}
  BY DEF TypeOK, Job, JobPc
<1>2. job' = [job EXCEPT ![a] = new]
  BY DEF InsertThrows, InsertMustThrow
<1>3. c \in {"yes", "no"} /\ c \in {job[a].clean, "no"} /\ (c = "yes" => InsertMustThrow(a))
  BY <1>1
<1> HIDE DEF c
<1>4. /\ new \in Job /\ new.pc = "resolve" /\ new.record = NoRecord /\ new.clean = c
      /\ new.batches = job[a].batches /\ new.phase = job[a].phase
      /\ new.offset = job[a].offset /\ new.got = job[a].got /\ new.todo = job[a].todo
      /\ new.ids = job[a].ids /\ new.verdict = job[a].verdict
  BY <1>1, <1>3 DEF Job
<1> HIDE DEF new
<1>5. Goes(a, "resolve") /\ job'[a] = new
  BY <1>1, <1>2, <1>4, Update DEF Goes
<1> QED
  BY <1>3, <1>4, <1>5 DEF SamePage, SameRest, SameTodo, SameIds

NextProduct(a) == LinesOf[job[a].record][job[a].line + 1]

LineMustThrow(a) ==
  \/ job[a].ids[job[a].record] = "ghost"
  \/ NextProduct(a) # NoRecord /\ job[a].ids[NextProduct(a)] = "ghost"

LEMMA LineThrowsFrame ==
  ASSUME TypeOK, NEW a \in Attempts, LineThrows(a)
  PROVE  /\ Goes(a, "resolve") /\ job'[a].record = NoRecord
         /\ SamePage(a) /\ SameRest(a) /\ SameTodo(a) /\ SameIds(a)
         /\ job'[a].clean \in {job[a].clean, "no"}
         /\ job'[a].clean = "yes" => LineMustThrow(a)
<1> DEFINE c == IF LineMustThrow(a) THEN job[a].clean ELSE "no"
<1> DEFINE new == [job[a] EXCEPT !.pc = "resolve", !.record = NoRecord, !.clean = c]
<1>1. job[a] \in Job /\ "resolve" \in JobPc /\ job[a].clean \in {"yes", "no"}
  BY DEF TypeOK, Job, JobPc
<1>2. job' = [job EXCEPT ![a] = new]
  BY DEF LineThrows, LineMustThrow, NextProduct
<1>3. c \in {"yes", "no"} /\ c \in {job[a].clean, "no"} /\ (c = "yes" => LineMustThrow(a))
  BY <1>1
<1> HIDE DEF c
<1>4. /\ new \in Job /\ new.pc = "resolve" /\ new.record = NoRecord /\ new.clean = c
      /\ new.batches = job[a].batches /\ new.phase = job[a].phase
      /\ new.offset = job[a].offset /\ new.got = job[a].got /\ new.todo = job[a].todo
      /\ new.ids = job[a].ids /\ new.verdict = job[a].verdict
  BY <1>1, <1>3 DEF Job
<1> HIDE DEF new
<1>5. Goes(a, "resolve") /\ job'[a] = new
  BY <1>1, <1>2, <1>4, Update DEF Goes
<1> QED
  BY <1>3, <1>4, <1>5 DEF SamePage, SameRest, SameTodo, SameIds

LEMMA InsertLineFrame ==
  ASSUME TypeOK, RecordInHand, NEW a \in Attempts, InsertLine(a)
  PROVE  /\ Goes(a, "lines") /\ job'[a].line = job[a].line + 1
         /\ job'[a].record = job[a].record
         /\ SamePage(a) /\ SameRest(a) /\ SameTodo(a) /\ SameClean(a)
         /\ \A x \in Records :
              \/ job'[a].ids[x] = job[a].ids[x]
              \/ job[a].ids[x] = "none" /\ job'[a].ids[x] = "row" /\ HasRow(x)
         /\ job[a].ids[job[a].record] = "row"
<1> DEFINE p == NextProduct(a)
<1> DEFINE found == IF p = NoRecord THEN job[a].ids
                    ELSE [job[a].ids EXCEPT ![p] = Resolve(job[a].ids, p)]
<1> DEFINE next == job[a].line + 1
<1> DEFINE new == [job[a] EXCEPT !.line = next, !.ids = found]
<1>1. /\ job[a] \in Job /\ job[a].ids \in [Records -> CachedId] /\ job[a].line \in Nat
      /\ job[a].pc = "lines" /\ job[a].line < Len(LinesOf[job[a].record])
      /\ job[a].record \in Records
  BY DEF TypeOK, Job, InsertLine, RecordInHand
<1>2. job' = [job EXCEPT ![a] = new]
  BY DEF InsertLine, NextProduct
<1>3. p \in Records \cup {NoRecord}
  <2>1. LinesOf[job[a].record] \in Seq(Records \cup {NoRecord})
    BY <1>1, RecordShape
  <2> QED
    BY <1>1, <2>1 DEF NextProduct
<1> HIDE DEF p
<1>4. /\ found \in [Records -> CachedId]
      /\ \A x \in Records :
           \/ found[x] = job[a].ids[x]
           \/ job[a].ids[x] = "none" /\ found[x] = "row" /\ HasRow(x)
  <2>1. CASE p = NoRecord
    BY <1>1, <2>1
  <2>2. CASE p # NoRecord
    <3> DEFINE id == Resolve(job[a].ids, p)
    <3>1. /\ p \in Records /\ id \in CachedId
          /\ id = job[a].ids[p] \/ (job[a].ids[p] = "none" /\ id = "row" /\ HasRow(p))
      BY <1>1, <1>3, <2>2 DEF Resolve, CachedId
    <3> HIDE DEF id
    <3>2. found = [job[a].ids EXCEPT ![p] = id]
      BY <2>2 DEF id
    <3> QED
      BY <1>1, <3>1, <3>2
  <2> QED
    BY <2>1, <2>2
<1>5. job[a].ids[job[a].record] = "row"
  <2>1. found[job[a].record] = "row"
    BY DEF InsertLine, NextProduct, p
  <2> QED
    BY <1>1, <1>4, <2>1 DEF RecordInHand
<1>6. job[a] \in Job /\ next \in Nat /\ job[a].pc = "lines"
  BY <1>1
<1> HIDE DEF found, next
<1>7. /\ new \in Job /\ new.pc = "lines" /\ new.line = next /\ new.ids = found
      /\ new.clean = job[a].clean /\ new.batches = job[a].batches
      /\ new.phase = job[a].phase /\ new.offset = job[a].offset /\ new.got = job[a].got
      /\ new.todo = job[a].todo /\ new.record = job[a].record
      /\ new.verdict = job[a].verdict
  BY <1>4, <1>6 DEF Job
<1> HIDE DEF new
<1>8. Goes(a, "lines") /\ job'[a] = new
  BY <1>1, <1>2, <1>7, Update DEF Goes
<1> QED
  BY <1>4, <1>7, <1>8, <1>5 DEF SamePage, SameRest, SameTodo, SameClean, next

\* The next page of the type, the first page of the next type, or finalize.
LEMMA EndNormalizedPageFrame ==
  ASSUME TypeOK, NEW a \in Attempts, EndNormalizedPage(a)
  PROVE  /\ SameRecord(a) /\ SameRest(a) /\ SameTodo(a) /\ SameIds(a) /\ SameClean(a)
         /\ job[a].todo = {}
         /\ \/ /\ Goes(a, "read_normalized") /\ job'[a].phase = job[a].phase
               /\ job'[a].offset = job[a].offset + UpsertLimit
            \/ /\ Goes(a, "read_normalized") /\ job'[a].phase = job[a].phase + 1
               /\ job'[a].offset = 0
            \/ Goes(a, "finalize") /\ job[a].phase = Len(Types)
<1> DEFINE full == job[a].got = UpsertLimit
<1> DEFINE last == job[a].phase = Len(Types)
<1> DEFINE to == IF ~full /\ last THEN "finalize" ELSE "read_normalized"
<1> DEFINE at == IF full THEN job[a].offset + job[a].got ELSE 0
<1> DEFINE next == IF full \/ last THEN job[a].phase ELSE job[a].phase + 1
<1> DEFINE new == [job[a] EXCEPT !.pc = to, !.offset = at, !.phase = next]
<1>1. /\ job[a] \in Job /\ job[a].offset \in Nat /\ job[a].got \in Nat
      /\ job[a].phase \in 1..Len(Types) /\ Len(Types) \in Nat /\ job[a].todo = {}
  BY TypesAreSome DEF TypeOK, Job, EndNormalizedPage
<1>2. job' = [job EXCEPT ![a] = new]
  BY DEF EndNormalizedPage
<1>3. /\ at \in Nat /\ next \in 1..Len(Types)
      /\ \/ to = "read_normalized" /\ next = job[a].phase /\ at = job[a].offset + UpsertLimit
         \/ to = "read_normalized" /\ next = job[a].phase + 1 /\ at = 0
         \/ to = "finalize" /\ last
  BY <1>1
<1>4. to \in JobPc
  BY DEF JobPc
<1> HIDE DEF to, at, next
<1>5. /\ new \in Job /\ new.pc = to /\ new.offset = at /\ new.phase = next
      /\ new.clean = job[a].clean /\ new.batches = job[a].batches
      /\ new.todo = job[a].todo /\ new.record = job[a].record /\ new.line = job[a].line
      /\ new.ids = job[a].ids /\ new.verdict = job[a].verdict
  BY <1>1, <1>3, <1>4 DEF Job
<1> HIDE DEF new
<1>6. Goes(a, to) /\ job'[a] = new
  BY <1>1, <1>2, <1>5, Update DEF Goes
<1> QED
  BY <1>1, <1>3, <1>5, <1>6 DEF SameRecord, SameRest, SameTodo, SameIds, SameClean

LEMMA CountRecordsFrame ==
  ASSUME TypeOK, NEW a \in Attempts, CountRecords(a)
  PROVE  /\ Goes(a, "check") /\ job'[a].todo = {r \in Records : HasRow(r)}
         /\ SamePage(a) /\ SameRecord(a) /\ SameRest(a) /\ SameIds(a) /\ SameClean(a)
<1> DEFINE counted == {r \in Records : HasRow(r)}
<1> DEFINE new == [job[a] EXCEPT !.pc = "check", !.todo = counted]
<1>1. job[a] \in Job /\ "check" \in JobPc /\ counted \in SUBSET Records
  BY DEF TypeOK, JobPc
<1>2. job' = [job EXCEPT ![a] = new]
  BY DEF CountRecords
<1> HIDE DEF counted
<1>3. /\ new \in Job /\ new.pc = "check" /\ new.todo = counted
      /\ new.clean = job[a].clean /\ new.batches = job[a].batches
      /\ new.phase = job[a].phase /\ new.offset = job[a].offset /\ new.got = job[a].got
      /\ new.record = job[a].record /\ new.line = job[a].line /\ new.ids = job[a].ids
      /\ new.verdict = job[a].verdict
  BY <1>1 DEF Job
<1> HIDE DEF new
<1>4. Goes(a, "check") /\ job'[a] = new
  BY <1>1, <1>2, <1>3, Update DEF Goes
<1> QED
  BY <1>3, <1>4 DEF SamePage, SameRecord, SameRest, SameIds, SameClean, counted

LEMMA CheckQualityFrame ==
  ASSUME TypeOK, NEW a \in Attempts, CheckQuality(a)
  PROVE  /\ Goes(a, "finish") /\ job'[a].clean \in {job[a].clean, "no"}
         /\ SamePage(a) /\ SameRecord(a) /\ SameTodo(a) /\ SameIds(a)
         /\ job'[a].verdict = "complete" =>
              Cardinality(InStatus("failed")) <= MaxFailed \/ job'[a].clean = "no"
<1> DEFINE tooMany == Cardinality(InStatus("failed")) > MaxFailed
<1>1. PICK v \in {"failed", "complete"}, c \in {job[a].clean, "no"} :
        /\ v = "complete" => ~tooMany \/ c = "no"
        /\ job' = [job EXCEPT ![a] = [job[a] EXCEPT !.pc = "finish", !.verdict = v,
                                                    !.clean = c]]
  <2>1. CASE job' = [job EXCEPT ![a].pc = "finish", ![a].verdict = "complete",
                                ![a].clean = "no"]
    BY <2>1
  <2>2. CASE job' = [job EXCEPT
               ![a].pc = "finish",
               ![a].verdict = IF tooMany THEN "failed" ELSE "complete"]
    <3> DEFINE v == IF tooMany THEN "failed" ELSE "complete"
    <3>1. v \in {"failed", "complete"} /\ (v = "complete" => ~tooMany)
      OBVIOUS
    <3>2. job' = [job EXCEPT ![a].pc = "finish", ![a].verdict = v]
      BY <2>2
    <3> HIDE DEF v
    <3>3. job[a] = [job[a] EXCEPT !.clean = job[a].clean]
      BY DEF TypeOK, Job
    <3>4. job' = [job EXCEPT ![a] = [job[a] EXCEPT !.pc = "finish", !.verdict = v,
                                                   !.clean = job[a].clean]]
      BY <3>2 DEF TypeOK, Job
    <3> QED
      BY <3>1, <3>4
  <2> QED
    BY <2>1, <2>2 DEF CheckQuality
<1> DEFINE new == [job[a] EXCEPT !.pc = "finish", !.verdict = v, !.clean = c]
<1>2. /\ job[a] \in Job /\ "finish" \in JobPc /\ v \in SnapshotStatus /\ c \in {"yes", "no"}
  BY DEF TypeOK, Job, JobPc, SnapshotStatus
<1>3. /\ new \in Job /\ new.pc = "finish" /\ new.verdict = v /\ new.clean = c
      /\ new.batches = job[a].batches /\ new.phase = job[a].phase
      /\ new.offset = job[a].offset /\ new.got = job[a].got /\ new.todo = job[a].todo
      /\ new.record = job[a].record /\ new.line = job[a].line /\ new.ids = job[a].ids
  BY <1>2 DEF Job
<1> HIDE DEF new
<1>4. Goes(a, "finish") /\ job'[a] = new
  BY <1>1, <1>2, <1>3, Update DEF Goes, new
<1>5. v = "complete" => Cardinality(InStatus("failed")) <= MaxFailed \/ c = "no"
  BY <1>1, RecordsFinite, Limits DEF InStatus
<1> QED
  BY <1>1, <1>3, <1>4, <1>5 DEF SamePage, SameRecord, SameTodo, SameIds

\* The attempt ends in one of these ways.
Over(a) == Finish(a) \/ FinalizeThrows(a) \/ Dies(a)

LEMMA OverFrame ==
  ASSUME TypeOK, NEW a \in Attempts, Over(a)
  PROVE  /\ Goes(a, "returned") \/ Goes(a, "dead")
         /\ SameClean(a) /\ job'[a].ids = NoIds
<1>1. PICK pc \in Ended : End(a, pc)
  BY DEF Over, Finish, FinalizeThrows, Dies, Ended
<1> DEFINE new == Memory(pc, job[a].clean)
<1>2. /\ job[a].clean \in {"yes", "no"} /\ pc \in JobPc /\ 1 \in 1..Len(Types)
      /\ NoIds \in [Records -> CachedId] /\ "pending" \in SnapshotStatus
  BY TypesAreSome DEF TypeOK, Job, JobPc, Ended, NoIds, CachedId, SnapshotStatus
<1>3. new \in Job /\ new.pc = pc /\ new.clean = job[a].clean /\ new.ids = NoIds
  BY <1>2 DEF Memory, Job
<1>4. job' = [job EXCEPT ![a] = new]
  BY <1>1 DEF End
<1> HIDE DEF new
<1>5. Goes(a, pc) /\ job'[a] = new
  BY <1>2, <1>3, <1>4, Update DEF Goes
<1> QED
  BY <1>1, <1>3, <1>5 DEF SameClean, Ended

(***************************************************************************)
(* Types, and the lines of an invoice                                      *)
(***************************************************************************)

\* The steps that neither insert nor leave a record in hand.
Elsewhere(a) ==
  \/ Start(a) \/ BeginLoad(a) \/ LoadBatch(a) \/ EndLoad(a) \/ ReadPending(a)
  \/ NormalizeRecord(a) \/ EndPendingPage(a) \/ ReadNormalized(a) \/ InsertThrows(a)
  \/ LineThrows(a) \/ EndRecord(a) \/ EndNormalizedPage(a) \/ BeginFinalize(a)
  \/ CountRecords(a) \/ CheckQuality(a) \/ Over(a)

LEMMA ElsewhereFrame ==
  ASSUME TypeOK, NEW a \in Attempts, Elsewhere(a)
  PROVE  /\ canon' = canon /\ job' \in [Attempts -> Job] /\ Others(a)
         /\ job'[a].pc \notin {"insert", "lines"}
<1>1. CASE Start(a)
  BY <1>1, StartFrame DEF Start, Goes
<1>2. CASE BeginLoad(a) \/ LoadBatch(a) \/ EndLoad(a)
  BY <1>2, BeginLoadFrame, LoadBatchFrame, EndLoadFrame DEF BeginLoad, LoadBatch, EndLoad, Goes
<1>3. CASE ReadPending(a) \/ NormalizeRecord(a)
  BY <1>3, ReadPendingFrame, NormalizeRecordFrame DEF ReadPending, NormalizeRecord, Goes
<1>4. CASE EndPendingPage(a)
  BY <1>4, EndPendingPageFrame DEF EndPendingPage, Goes
<1>5. CASE ReadNormalized(a)
  BY <1>5, ReadNormalizedFrame DEF ReadNormalized, Goes
<1>6. CASE InsertThrows(a) \/ LineThrows(a) \/ EndRecord(a)
  BY <1>6, InsertThrowsFrame, LineThrowsFrame, EndRecordFrame
     DEF InsertThrows, LineThrows, EndRecord, Goes
<1>7. CASE EndNormalizedPage(a)
  BY <1>7, EndNormalizedPageFrame DEF EndNormalizedPage, Goes
<1>8. CASE BeginFinalize(a) \/ CountRecords(a) \/ CheckQuality(a)
  BY <1>8, BeginFinalizeFrame, CountRecordsFrame, CheckQualityFrame
     DEF BeginFinalize, CountRecords, CheckQuality, Goes
<1>9. CASE Over(a)
  BY <1>9, OverFrame DEF Over, Finish, FinalizeThrows, Dies, Goes
<1> QED
  BY <1>1, <1>2, <1>3, <1>4, <1>5, <1>6, <1>7, <1>8, <1>9 DEF Elsewhere

LEMMA Steps ==
  ASSUME Next
  PROVE  \E a \in Attempts :
           Elsewhere(a) \/ ResolveReferences(a) \/ InsertRow(a) \/ InsertLine(a)
BY DEF Next, Step, Elsewhere, Over

\* The rows an insert and a line leave.
LEMMA InsertRowRows ==
  ASSUME TypeOK, RecordInHand, NEW a \in Attempts, InsertRow(a)
  PROVE  /\ job[a].pc = "insert" /\ job[a].record \in Records
         /\ HasRow(job[a].record) => canon' = canon
         /\ ~HasRow(job[a].record) =>
              /\ canon'[job[a].record].by = a
              /\ canon'[job[a].record].lines = <<>>
              /\ canon'[job[a].record].links =
                   {x \in Refs[job[a].record] : job[a].ids[x] = "row"}
              /\ \A x \in Records \ {job[a].record} : canon'[x] = canon[x]
         /\ canon' \in [Records -> Row]
<1> DEFINE r == job[a].record
<1> DEFINE linked == {x \in Refs[r] : job[a].ids[x] = "row"}
<1> DEFINE made == [by |-> a, links |-> linked, lines |-> <<>>]
<1>1. r \in Records /\ job[a].pc = "insert" /\ canon \in [Records -> Row]
  BY DEF InsertRow, RecordInHand, TypeOK
<1>2. canon' = IF HasRow(r) THEN canon ELSE [canon EXCEPT ![r] = made]
  BY DEF InsertRow
<1>3. linked \in SUBSET Records /\ <<>> \in Seq(Nat)
  BY <1>1, RecordShape
<1> HIDE DEF r, linked
<1>4. /\ made \in Row /\ made.by = a /\ made.links = linked /\ made.lines = <<>>
  BY <1>3 DEF Row
<1> HIDE DEF made
<1>5. /\ HasRow(r) => canon' = canon
      /\ ~HasRow(r) => /\ canon'[r] = made
                       /\ \A x \in Records \ {r} : canon'[x] = canon[x]
      /\ canon' \in [Records -> Row]
  BY <1>1, <1>2, <1>4
<1> QED
  BY <1>1, <1>4, <1>5 DEF r, linked

LEMMA InsertLineRows ==
  ASSUME TypeOK, RecordInHand, NEW a \in Attempts, InsertLine(a)
  PROVE  /\ job[a].pc = "lines" /\ job[a].record \in Records
         /\ job[a].line < Len(LinesOf[job[a].record])
         /\ canon'[job[a].record].by = canon[job[a].record].by
         /\ canon'[job[a].record].links = canon[job[a].record].links
         /\ canon'[job[a].record].lines =
              Append(canon[job[a].record].lines, job[a].line + 1)
         /\ \A x \in Records \ {job[a].record} : canon'[x] = canon[x]
         /\ canon' \in [Records -> Row]
<1> DEFINE r == job[a].record
<1> DEFINE more == Append(canon[r].lines, job[a].line + 1)
<1> DEFINE new == [canon[r] EXCEPT !.lines = more]
<1>1. /\ r \in Records /\ job[a].pc = "lines" /\ job[a].line < Len(LinesOf[r])
      /\ canon \in [Records -> Row] /\ job[a].line + 1 \in Nat
  BY DEF InsertLine, RecordInHand, TypeOK, Job
<1>2. canon' = [canon EXCEPT ![r] = new]
  BY DEF InsertLine
<1>3. canon[r] \in Row /\ more \in Seq(Nat)
  BY <1>1 DEF Row
<1> HIDE DEF r, more
<1>4. new \in Row /\ new.by = canon[r].by /\ new.links = canon[r].links /\ new.lines = more
  BY <1>3 DEF Row
<1> HIDE DEF new
<1>5. canon'[r] = new /\ (\A x \in Records \ {r} : canon'[x] = canon[x])
      /\ canon' \in [Records -> Row]
  BY <1>1, <1>2, <1>4
<1> QED
  BY <1>1, <1>4, <1>5 DEF r, more

LEMMA TypeStep ==
  ASSUME TypeOK, RecordInHand, Next
  PROVE  TypeOK'
<1>1. PICK a \in Attempts :
        Elsewhere(a) \/ ResolveReferences(a) \/ InsertRow(a) \/ InsertLine(a)
  BY Steps
<1>2. job' \in [Attempts -> Job] /\ canon' \in [Records -> Row]
  <2>1. CASE Elsewhere(a)
    BY <2>1, ElsewhereFrame DEF TypeOK
  <2>2. CASE ResolveReferences(a)
    BY <2>2, ResolveReferencesFrame DEF TypeOK, ResolveReferences, Goes
  <2>3. CASE InsertRow(a)
    BY <2>3, InsertRowFrame, InsertRowRows DEF Goes
  <2>4. CASE InsertLine(a)
    BY <2>4, InsertLineFrame, InsertLineRows DEF Goes
  <2> QED
    BY <1>1, <2>1, <2>2, <2>3, <2>4
<1>3. snapshot' \in [status : SnapshotStatus, counted : SUBSET Records]
  <2>1. CASE BeginLoad(a) \/ BeginFinalize(a) \/ FinalizeThrows(a)
    BY <2>1 DEF BeginLoad, BeginFinalize, FinalizeThrows, TypeOK, SnapshotStatus
  <2>2. CASE Finish(a)
    <3>1. job[a].verdict \in SnapshotStatus /\ job[a].todo \in SUBSET Records
      BY DEF TypeOK, Job
    <3> QED
      BY <2>2, <3>1 DEF Finish
  <2>3. CASE UNCHANGED snapshot
    BY <2>3 DEF TypeOK
  <2> QED
    BY <1>1, <2>1, <2>2, <2>3
       DEF Elsewhere, Over, Start, LoadBatch, EndLoad, ReadPending, NormalizeRecord,
           EndPendingPage, ReadNormalized, ResolveReferences, InsertRow, InsertThrows,
           InsertLine, LineThrows, EndRecord, EndNormalizedPage, CountRecords, CheckQuality,
           Dies
<1>4. staging' \in [Records -> [status : StagingStatus, at : Nat]]
  <2>1. CASE LoadBatch(a)
    <3>1. NextTime \in Nat
      <4> DEFINE times == {staging[r].at : r \in Records}
      <4> DEFINE f == [r \in Records |-> staging[r].at]
      <4>1. f \in Surjection(Records, times)
        BY DEF Surjection
      <4>2. IsFiniteSet(times)
        BY <4>1, RecordShape, FS_Surjection
      <4> QED
        BY <4>2, FS_CardinalityType DEF NextTime
    <3>2. PICK loaded \in SUBSET Records :
            staging' = [r \in Records |->
              IF r \in loaded /\ staging[r].status = "none"
              THEN [status |-> "pending", at |-> NextTime] ELSE staging[r]]
      BY <2>1, BatchShape DEF LoadBatch, TypeOK, Job
    <3> QED
      BY <3>1, <3>2 DEF TypeOK, StagingStatus
  <2>2. CASE NormalizeRecord(a)
    <3>1. PICK r \in job[a].todo, status \in {"normalized", "failed"} :
            staging' = [staging EXCEPT ![r].status = status]
      BY <2>2, NormalizeRecordFrame
    <3> QED
      BY <3>1 DEF TypeOK, StagingStatus
  <2>3. CASE UNCHANGED staging
    BY <2>3 DEF TypeOK
  <2> QED
    BY <1>1, <2>1, <2>2, <2>3
       DEF Elsewhere, Over, Start, BeginLoad, EndLoad, ReadPending, EndPendingPage,
           ReadNormalized, ResolveReferences, InsertRow, InsertThrows, InsertLine, LineThrows,
           EndRecord, EndNormalizedPage, BeginFinalize, CountRecords, CheckQuality, Finish,
           FinalizeThrows, Dies
<1> QED
  BY <1>2, <1>3, <1>4 DEF TypeOK

LEMMA HandStep ==
  ASSUME TypeOK, RecordInHand, Next
  PROVE  RecordInHand'
<1>1. PICK a \in Attempts :
        Elsewhere(a) \/ ResolveReferences(a) \/ InsertRow(a) \/ InsertLine(a)
  BY Steps
<1>2. CASE Elsewhere(a)
  BY <1>2, ElsewhereFrame DEF RecordInHand, Others
<1>3. CASE ResolveReferences(a)
  <2>1. job'[a].pc = "insert" /\ job'[a].record \in Records /\ Others(a)
    <3>1. PICK r \in job[a].todo : job'[a].record = r
      BY <1>3, ResolveReferencesFrame
    <3>2. job[a].todo \in SUBSET Records
      BY DEF TypeOK, Job
    <3> QED
      BY <1>3, <3>1, <3>2, ResolveReferencesFrame DEF Goes
  <2> QED
    BY <2>1 DEF RecordInHand, Others
<1>4. CASE InsertRow(a)
  <2>1. /\ job'[a].record \in Records /\ job'[a].ids[job'[a].record] \in {"row", "ghost"}
        /\ job'[a].line = 0 /\ job'[a].pc = "lines" /\ Others(a)
    <3>1. job[a].record \in Records /\ job[a].ids \in [Records -> CachedId]
      BY <1>4, InsertRowRows DEF TypeOK, Job
    <3> QED
      BY <1>4, <3>1, InsertRowFrame DEF Goes
  <2>2. Len(LinesOf[job'[a].record]) \in Nat
    BY <2>1, RecordShape, LenProperties
  <2> QED
    BY <2>1, <2>2 DEF RecordInHand, Others
<1>5. CASE InsertLine(a)
  <2>1. /\ job'[a].record \in Records /\ job'[a].ids[job'[a].record] \in {"row", "ghost"}
        /\ job'[a].line = job[a].line + 1 /\ job'[a].pc = "lines" /\ Others(a)
        /\ job[a].line < Len(LinesOf[job'[a].record]) /\ job[a].line \in Nat
    BY <1>5, InsertLineFrame, InsertLineRows DEF Goes, TypeOK, Job
  <2>2. Len(LinesOf[job'[a].record]) \in Nat
    BY <2>1, RecordShape, LenProperties
  <2> QED
    BY <2>1, <2>2 DEF RecordInHand, Others
<1> QED
  BY <1>1, <1>2, <1>3, <1>4, <1>5

LEMMA OpenLinesStep ==
  ASSUME TypeOK, RecordInHand, OpenLines, Next
  PROVE  OpenLines'
<1>1. PICK a \in Attempts :
        Elsewhere(a) \/ ResolveReferences(a) \/ InsertRow(a) \/ InsertLine(a)
  BY Steps
<1>2. CASE Elsewhere(a)
  BY <1>2, ElsewhereFrame DEF OpenLines, Others
<1>3. CASE ResolveReferences(a)
  <2>1. job'[a].pc = "insert" /\ Others(a) /\ canon' = canon
    BY <1>3, ResolveReferencesFrame DEF Goes, ResolveReferences
  <2> QED
    BY <2>1 DEF OpenLines, Others
<1>4. CASE InsertRow(a)
  <2> SUFFICES ASSUME NEW b \in Attempts,
                      job'[b].pc = "lines", job'[b].ids[job'[b].record] = "row"
               PROVE  /\ canon'[job'[b].record].by = b
                      /\ Len(canon'[job'[b].record].lines) = job'[b].line
    BY DEF OpenLines
  <2>1. CASE b = a
    <3>1. job'[a].record = job[a].record /\ job'[a].line = 0 /\ ~HasRow(job[a].record)
      <4>1. job[a].record \in Records /\ job[a].ids \in [Records -> CachedId]
        BY <1>4, InsertRowRows DEF TypeOK, Job
      <4> QED
        BY <1>4, <2>1, <4>1, InsertRowFrame
    <3> QED
      BY <1>4, <2>1, <3>1, InsertRowRows, EmptySeq
  <2>2. CASE b # a
    <3>1. job'[b] = job[b] /\ job[b].record \in Records
      BY <1>4, <2>2, InsertRowFrame DEF Goes, Others, RecordInHand
    <3>2. HasRow(job[b].record)
      BY <3>1 DEF OpenLines, HasRow, Attempts
    <3>3. canon'[job[b].record] = canon[job[b].record]
      BY <1>4, <3>1, <3>2, InsertRowRows
    <3> QED
      BY <3>1, <3>3 DEF OpenLines
  <2> QED
    BY <2>1, <2>2
<1>5. CASE InsertLine(a)
  <2> SUFFICES ASSUME NEW b \in Attempts,
                      job'[b].pc = "lines", job'[b].ids[job'[b].record] = "row"
               PROVE  /\ canon'[job'[b].record].by = b
                      /\ Len(canon'[job'[b].record].lines) = job'[b].line
    BY DEF OpenLines
  <2>1. /\ job[a].record \in Records /\ canon[job[a].record].by = a
        /\ Len(canon[job[a].record].lines) = job[a].line
    BY <1>5, InsertLineFrame, InsertLineRows DEF OpenLines
  <2>2. CASE b = a
    <3>1. canon[job[a].record].lines \in Seq(Nat) /\ job[a].line + 1 \in Nat
      BY <2>1 DEF TypeOK, Row, Job
    <3>2. /\ canon'[job[a].record].by = a
          /\ Len(canon'[job[a].record].lines) = job[a].line + 1
      <4> DEFINE s == canon[job[a].record].lines
      <4> DEFINE i == job[a].line + 1
      <4>1. s \in Seq(Nat) /\ i \in Nat /\ Len(s) + 1 = i
        BY <2>1, <3>1
      <4>2. Len(Append(s, i)) = Len(s) + 1
        BY <4>1, AppendProperties
      <4>3. canon'[job[a].record].lines = Append(s, i)
        BY <1>5, InsertLineRows
      <4> HIDE DEF s, i
      <4>4. Len(canon'[job[a].record].lines) = i
        BY <4>1, <4>2, <4>3
      <4> QED
        BY <1>5, <2>1, <4>4, InsertLineRows DEF i
    <3> QED
      BY <1>5, <2>2, <3>2, InsertLineFrame
  <2>3. CASE b # a
    <3>1. job'[b] = job[b] /\ job[b].record \in Records
      BY <1>5, <2>3, InsertLineFrame DEF Goes, Others, RecordInHand
    <3>2. canon[job[b].record].by = b
      BY <3>1 DEF OpenLines
    <3>3. canon'[job[b].record] = canon[job[b].record]
      BY <1>5, <2>1, <2>3, <3>1, <3>2, InsertLineRows
    <3> QED
      BY <3>1, <3>3 DEF OpenLines
  <2> QED
    BY <2>2, <2>3
<1> QED
  BY <1>1, <1>2, <1>3, <1>4, <1>5

LEMMA LinesOnceStep ==
  ASSUME TypeOK, RecordInHand, OpenLines, LinesOnce, Next
  PROVE  LinesOnce'
<1>1. PICK a \in Attempts :
        Elsewhere(a) \/ ResolveReferences(a) \/ InsertRow(a) \/ InsertLine(a)
  BY Steps
<1>2. CASE UNCHANGED canon
  BY <1>2 DEF LinesOnce
<1>3. CASE InsertRow(a)
  <2> SUFFICES ASSUME NEW r \in Records
               PROVE  canon'[r].lines = [i \in 1..Len(canon'[r].lines) |-> i]
    BY DEF LinesOnce
  <2>1. canon'[r] = canon[r] \/ canon'[r].lines = <<>>
    BY <1>3, InsertRowRows
  <2>2. CASE canon'[r] = canon[r]
    BY <2>2 DEF LinesOnce
  <2>3. CASE canon'[r].lines = <<>>
    BY <2>3
  <2> QED
    BY <2>1, <2>2, <2>3
<1>4. CASE InsertLine(a)
  <2> SUFFICES ASSUME NEW r \in Records
               PROVE  canon'[r].lines = [i \in 1..Len(canon'[r].lines) |-> i]
    BY DEF LinesOnce
  <2>1. CASE r # job[a].record
    <3>1. canon'[r] = canon[r]
      BY <1>4, <2>1, InsertLineRows
    <3> QED
      BY <3>1 DEF LinesOnce
  <2>2. CASE r = job[a].record
    <3> DEFINE s == canon[r].lines
    <3>1. s \in Seq(Nat) /\ s = [i \in 1..Len(s) |-> i] /\ Len(s) \in Nat
      BY LenProperties DEF TypeOK, Row, LinesOnce
    <3>2. canon'[r].lines = Append(s, Len(s) + 1)
      BY <1>4, <2>2, InsertLineRows, InsertLineFrame DEF OpenLines
    <3> HIDE DEF s
    <3>3. Append(s, Len(s) + 1) = [i \in 1..Len(Append(s, Len(s) + 1)) |-> i]
      BY <3>1
    <3> QED
      BY <3>2, <3>3
  <2> QED
    BY <2>1, <2>2
<1> QED
  BY <1>1, <1>2, <1>3, <1>4, ElsewhereFrame DEF ResolveReferences

LEMMA InitLines == Init => LinesInv
<1> SUFFICES ASSUME Init
             PROVE  LinesInv
  OBVIOUS
<1>1. Memory("new", "yes") \in Job /\ Memory("new", "yes").pc = "new"
  <2>1. /\ NoIds \in [Records -> CachedId] /\ "pending" \in SnapshotStatus /\ "new" \in JobPc
        /\ 1 \in 1..Len(Types)
    BY TypesAreSome DEF NoIds, CachedId, SnapshotStatus, JobPc
  <2> QED
    BY <2>1 DEF Memory, Job
<1>2. NoRow \in Row /\ NoRow.by = 0 /\ NoRow.lines = <<>>
  BY EmptySeq DEF NoRow, Row
<1>3. \A a \in Attempts : job[a] \in Job /\ job[a].pc = "new"
  BY <1>1 DEF Init
<1>4. canon \in [Records -> Row] /\ \A r \in Records : canon[r].lines = <<>>
  BY <1>2 DEF Init
<1>5. TypeOK
  BY <1>3, <1>4 DEF Init, TypeOK, SnapshotStatus, StagingStatus
<1>6. RecordInHand /\ OpenLines
  BY <1>3 DEF RecordInHand, OpenLines
<1>7. LinesOnce
  BY <1>4 DEF LinesOnce
<1> QED
  BY <1>5, <1>6, <1>7 DEF LinesInv

LEMMA LinesStep == LinesInv /\ [Next]_vars => LinesInv'
<1> SUFFICES ASSUME LinesInv, [Next]_vars
             PROVE  LinesInv'
  OBVIOUS
<1>1. CASE Next
  BY <1>1, TypeStep, HandStep, OpenLinesStep, LinesOnceStep DEF LinesInv
<1>2. CASE UNCHANGED vars
  BY <1>2 DEF vars, LinesInv, TypeOK, RecordInHand, OpenLines, LinesOnce
<1> QED
  BY <1>1, <1>2

\* No line of an invoice is inserted twice, and the ones before it are there, however
\* the attempts overlap (ingest.upsert).
THEOREM LinesAreOnce == Spec => [](TypeOK /\ LinesOnce)
<1>1. LinesInv => TypeOK /\ LinesOnce
  BY DEF LinesInv
<1> QED
  BY <1>1, InitLines, LinesStep, PTL DEF Spec

(***************************************************************************)
(* Attempts one after the other                                            *)
(***************************************************************************)

\* The steps of an attempt, stage by stage.
Early(a) ==
  \/ Start(a) \/ BeginLoad(a) \/ LoadBatch(a) \/ EndLoad(a) \/ ReadPending(a)
  \/ NormalizeRecord(a)
Upserts(a) ==
  \/ ReadNormalized(a) \/ ResolveReferences(a) \/ InsertRow(a) \/ InsertThrows(a)
  \/ InsertLine(a) \/ LineThrows(a) \/ EndRecord(a) \/ EndNormalizedPage(a)
Finals(a) == BeginFinalize(a) \/ CountRecords(a) \/ CheckQuality(a)
Acts(a) == Early(a) \/ EndPendingPage(a) \/ Upserts(a) \/ Finals(a) \/ Over(a)

Loading == {"load", "read_pending", "normalize"}

LEMMA Acting == Next => \E a \in Attempts : Acts(a)
BY DEF Next, Step, Acts, Early, Upserts, Finals, Over

LEMMA EarlyFrame ==
  ASSUME TypeOK, NEW a \in Attempts, Early(a)
  PROVE  /\ canon' = canon /\ job' \in [Attempts -> Job] /\ Others(a)
         /\ job[a].pc \in {"new", "begin"} \cup Loading
         /\ job'[a].pc \in {"begin", "returned"} \cup Loading
         /\ job'[a].clean \in {job[a].clean, "no"}
         /\ \/ job'[a].pc \in {"begin", "returned"} /\ Start(a)
            \/ job'[a].pc = "load" /\ BeginLoad(a)
            \/ job'[a].pc \in Loading /\ job[a].pc \in Loading /\ UNCHANGED snapshot
<1>1. CASE Start(a)
  BY <1>1, StartFrame DEF Start, Goes, SameClean
<1>2. CASE BeginLoad(a)
  BY <1>2, BeginLoadFrame DEF BeginLoad, Goes, SameClean, Loading
<1>3. CASE LoadBatch(a)
  BY <1>3, LoadBatchFrame DEF LoadBatch, Goes, Loading
<1>4. CASE EndLoad(a)
  BY <1>4, EndLoadFrame DEF EndLoad, Goes, SameClean, Loading
<1>5. CASE ReadPending(a)
  BY <1>5, ReadPendingFrame DEF ReadPending, Goes, SameClean, Loading
<1>6. CASE NormalizeRecord(a)
  BY <1>6, NormalizeRecordFrame DEF NormalizeRecord, Goes, Loading
<1> QED
  BY <1>1, <1>2, <1>3, <1>4, <1>5, <1>6 DEF Early

LEMMA EndPendingPageMoves ==
  ASSUME TypeOK, NEW a \in Attempts, EndPendingPage(a)
  PROVE  /\ UNCHANGED <<snapshot, staging, canon>> /\ job' \in [Attempts -> Job] /\ Others(a)
         /\ job[a].pc = "normalize" /\ job'[a].pc \in {"read_pending", "read_normalized"}
         /\ job'[a].clean = job[a].clean
BY EndPendingPageFrame DEF EndPendingPage, Goes, SameClean

LEMMA UpsertsFrame ==
  ASSUME TypeOK, RecordInHand, NEW a \in Attempts, Upserts(a)
  PROVE  /\ UNCHANGED <<snapshot, staging>> /\ job' \in [Attempts -> Job] /\ Others(a)
         /\ job[a].pc \in Upserting /\ job'[a].pc \in Upserting \cup {"finalize"}
         /\ job'[a].clean \in {job[a].clean, "no"}
<1>1. CASE ReadNormalized(a)
  BY <1>1, ReadNormalizedFrame DEF ReadNormalized, Goes, SameClean, Upserting
<1>2. CASE ResolveReferences(a)
  BY <1>2, ResolveReferencesFrame DEF ResolveReferences, Goes, SameClean, Upserting
<1>3. CASE InsertRow(a)
  BY <1>3, InsertRowFrame DEF InsertRow, Goes, SameClean, Upserting
<1>4. CASE InsertThrows(a)
  BY <1>4, InsertThrowsFrame DEF InsertThrows, Goes, Upserting
<1>5. CASE InsertLine(a)
  BY <1>5, InsertLineFrame DEF InsertLine, Goes, SameClean, Upserting
<1>6. CASE LineThrows(a)
  BY <1>6, LineThrowsFrame DEF LineThrows, Goes, Upserting
<1>7. CASE EndRecord(a)
  BY <1>7, EndRecordFrame DEF EndRecord, Goes, SameClean, Upserting
<1>8. CASE EndNormalizedPage(a)
  BY <1>8, EndNormalizedPageFrame DEF EndNormalizedPage, Goes, SameClean, Upserting
<1> QED
  BY <1>1, <1>2, <1>3, <1>4, <1>5, <1>6, <1>7, <1>8 DEF Upserts

LEMMA FinalsFrame ==
  ASSUME TypeOK, NEW a \in Attempts, Finals(a)
  PROVE  /\ UNCHANGED <<staging, canon>> /\ job' \in [Attempts -> Job] /\ Others(a)
         /\ job[a].pc \in Finalizing \ {"finish"} /\ job'[a].pc \in Finalizing \ {"finalize"}
         /\ job'[a].clean \in {job[a].clean, "no"}
<1>1. CASE BeginFinalize(a)
  BY <1>1, BeginFinalizeFrame DEF BeginFinalize, Goes, SameClean, Finalizing
<1>2. CASE CountRecords(a)
  BY <1>2, CountRecordsFrame DEF CountRecords, Goes, SameClean, Finalizing
<1>3. CASE CheckQuality(a)
  BY <1>3, CheckQualityFrame DEF CheckQuality, Goes, Finalizing
<1> QED
  BY <1>1, <1>2, <1>3 DEF Finals

LEMMA OverMoves ==
  ASSUME TypeOK, NEW a \in Attempts, Over(a)
  PROVE  /\ UNCHANGED <<staging, canon>> /\ job' \in [Attempts -> Job] /\ Others(a)
         /\ job[a].pc \notin Ended \cup {"new"} /\ job'[a].pc \in Ended
         /\ job'[a].clean = job[a].clean
BY OverFrame DEF Over, Finish, FinalizeThrows, Dies, Goes, SameClean, Ended

\* What every step of an attempt has in common.
LEMMA ActsFrame ==
  ASSUME TypeOK, RecordInHand, NEW a \in Attempts, Acts(a)
  PROVE  /\ job' \in [Attempts -> Job] /\ Others(a)
         /\ job[a].pc \notin Ended /\ job'[a].pc # "new"
         /\ job[a].pc = "new" => Start(a)
         /\ job'[a].clean \in {job[a].clean, "no"}
         /\ job[a].pc \in Upserting \cup Finalizing =>
              job'[a].pc \in Upserting \cup Finalizing \cup Ended
<1>1. CASE Early(a)
  BY <1>1, EarlyFrame DEF Loading, Ended, Upserting, Finalizing, BeginLoad
<1>2. CASE EndPendingPage(a)
  BY <1>2, EndPendingPageMoves DEF Ended, Upserting, Finalizing
<1>3. CASE Upserts(a)
  BY <1>3, UpsertsFrame DEF Ended, Upserting, Finalizing
<1>4. CASE Finals(a)
  BY <1>4, FinalsFrame DEF Ended, Upserting, Finalizing
<1>5. CASE Over(a)
  BY <1>5, OverMoves DEF Ended, Upserting, Finalizing
<1> QED
  BY <1>1, <1>2, <1>3, <1>4, <1>5 DEF Acts

\* No other attempt is under way.
LEMMA Alone ==
  ASSUME ~MayStall, TypeOK, RecordInHand, OneAtATime, NEW a \in Attempts, Acts(a)
  PROVE  /\ \A b \in Attempts \ {a} :
              /\ job'[b] = job[b]
              /\ IF b < a THEN job[b].pc \in Ended ELSE job[b].pc = "new"
         /\ OneAtATime'
<1>1. /\ Others(a) /\ job[a].pc \notin Ended /\ job'[a].pc # "new"
      /\ job[a].pc = "new" => Start(a)
  BY ActsFrame
<1>2. \A b \in 1..(a - 1) : job[b].pc \in Ended
  BY <1>1 DEF OneAtATime, Start
<1>3. ASSUME NEW b \in Attempts \ {a}
      PROVE  IF b < a THEN job[b].pc \in Ended ELSE job[b].pc = "new"
  <2>1. CASE b < a
    BY <1>2, <2>1 DEF Attempts
  <2>2. CASE ~(b < a)
    <3>1. a \in 1..(b - 1)
      BY <2>2, Limits DEF Attempts
    <3> QED
      BY <1>1, <2>2, <3>1 DEF OneAtATime
  <2> QED
    BY <2>1, <2>2
<1>4. ASSUME NEW c \in Attempts, job'[c].pc # "new", NEW b \in 1..(c - 1)
      PROVE  job'[b].pc \in Ended
  <2>1. b \in Attempts /\ b < c /\ c <= a
    <3>1. c = a \/ c < a
      BY <1>1, <1>3, <1>4, Limits DEF Others, Attempts
    <3> QED
      BY <3>1, Limits DEF Attempts
  <2>2. b \in 1..(a - 1) /\ b # a
    BY <2>1, Limits DEF Attempts
  <2> QED
    BY <1>1, <1>2, <2>1, <2>2 DEF Others
<1> QED
  BY <1>1, <1>3, <1>4 DEF OneAtATime, Others

\* The rows of a step: each stays, or it is new and the attempt's, or it gets a line.
LEMMA RowsStep ==
  ASSUME TypeOK, RecordInHand, NEW a \in Attempts, Acts(a), NEW r \in Records
  PROVE  \/ canon'[r] = canon[r]
         \/ ~HasRow(r) /\ InsertRow(a) /\ r = job[a].record /\ canon'[r].by = a
         \/ /\ InsertLine(a) /\ r = job[a].record
            /\ canon'[r].by = canon[r].by /\ canon'[r].links = canon[r].links
            /\ canon'[r].lines = Append(canon[r].lines, job[a].line + 1)
<1>1. CASE InsertRow(a)
  BY <1>1, InsertRowRows
<1>2. CASE InsertLine(a)
  BY <1>2, InsertLineRows
<1>3. CASE UNCHANGED canon
  BY <1>3
<1> QED
  BY <1>1, <1>2, <1>3, EarlyFrame, EndPendingPageMoves, FinalsFrame, OverMoves
     DEF Acts, Upserts, ReadNormalized, ResolveReferences, InsertThrows, LineThrows,
         EndRecord, EndNormalizedPage

LEMMA AuthorsStep ==
  ASSUME TypeOK, RecordInHand, RowsHaveAuthors, NEW a \in Attempts, Acts(a)
  PROVE  RowsHaveAuthors'
<1> SUFFICES ASSUME NEW r \in Records, canon'[r].by # 0
             PROVE  job'[canon'[r].by].pc \in Upserting \cup Finalizing \cup Ended
  BY DEF RowsHaveAuthors, HasRow
<1>1. canon[r].by \in Attempts \cup {0}
  BY DEF TypeOK, Row
<1>2. CASE canon'[r].by = canon[r].by
  <2>1. job[canon[r].by].pc \in Upserting \cup Finalizing \cup Ended /\ canon[r].by \in Attempts
    BY <1>1, <1>2 DEF RowsHaveAuthors, HasRow
  <2> QED
    BY <1>2, <2>1, ActsFrame DEF Others
<1>3. CASE InsertRow(a) /\ canon'[r].by = a
  BY <1>3, InsertRowFrame DEF Goes, Upserting
<1> QED
  BY <1>2, <1>3, RowsStep

(***************************************************************************)
(* The snapshot's status and counts                                        *)
(***************************************************************************)
LEMMA StatusStep ==
  ASSUME ~MayStall, TypeOK, RecordInHand, OneAtATime, StatusFollows,
         NEW a \in Attempts, Acts(a)
  PROVE  StatusFollows'
<1> DEFINE Follows(pc, status) ==
      /\ pc \in {"load", "read_pending", "normalize", "finalize"} \cup Upserting =>
           status = "building"
      /\ pc \in {"count", "check", "finish"} => status = "validating"
<1>1. Follows(job[a].pc, snapshot.status)
  BY DEF StatusFollows
<1>2. Follows(job'[a].pc, snapshot'.status)
  <2>1. CASE Start(a)
    BY <2>1, StartFrame DEF Goes, Upserting
  <2>2. CASE BeginLoad(a)
    BY <2>2, BeginLoadFrame DEF Goes, Upserting, BeginLoad, TypeOK
  <2>3. CASE Early(a) /\ ~Start(a) /\ ~BeginLoad(a)
    BY <1>1, <2>3, EarlyFrame DEF Loading, Upserting
  <2>4. CASE EndPendingPage(a)
    BY <1>1, <2>4, EndPendingPageMoves DEF Upserting
  <2>5. CASE Upserts(a)
    BY <1>1, <2>5, UpsertsFrame DEF Upserting
  <2>6. CASE BeginFinalize(a)
    BY <2>6, BeginFinalizeFrame DEF Goes, Upserting, BeginFinalize, TypeOK
  <2>7. CASE CountRecords(a)
    BY <1>1, <2>7, CountRecordsFrame DEF Goes, Upserting, CountRecords
  <2>8. CASE CheckQuality(a)
    BY <1>1, <2>8, CheckQualityFrame DEF Goes, Upserting, CheckQuality
  <2>9. CASE Over(a)
    BY <2>9, OverMoves DEF Ended, Upserting
  <2> QED
    BY <2>1, <2>2, <2>3, <2>4, <2>5, <2>6, <2>7, <2>8, <2>9 DEF Acts, Finals
<1>3. \A b \in Attempts \ {a} : job'[b].pc \in Ended \cup {"new"}
  BY Alone
<1> QED
  BY <1>2, <1>3 DEF StatusFollows, Ended, Upserting

LEMMA VerdictStep ==
  ASSUME ~MayStall, TypeOK, RecordInHand, OneAtATime, VerdictIsTrue,
         NEW a \in Attempts, Acts(a)
  PROVE  VerdictIsTrue'
<1>1. \A b \in Attempts \ {a} : job'[b].pc \in Ended \cup {"new"}
  BY Alone
<1>2. CASE CountRecords(a)
  <2>1. /\ job'[a].pc = "check"
        /\ job'[a].todo = {r \in Records : HasRow(r)} /\ canon' = canon
    BY <1>2, CountRecordsFrame DEF Goes, CountRecords
  <2>2. job'[a].todo = {r \in Records : HasRow(r)'}
    BY <2>1 DEF HasRow
  <2> QED
    BY <1>1, <2>1, <2>2 DEF VerdictIsTrue, Ended
<1>3. CASE CheckQuality(a)
  <2>1. /\ job'[a].todo = job[a].todo /\ canon' = canon /\ staging' = staging
        /\ job[a].pc = "check" /\ job'[a].pc = "finish"
        /\ job'[a].verdict = "complete" =>
             Cardinality(InStatus("failed")) <= MaxFailed \/ job'[a].clean = "no"
    BY <1>3, CheckQualityFrame DEF Goes, CheckQuality, SameTodo
  <2>2. job'[a].todo = {r \in Records : HasRow(r)'} /\ InStatus("failed")' = InStatus("failed")
    BY <2>1 DEF HasRow, VerdictIsTrue, InStatus
  <2> QED
    BY <1>1, <2>1, <2>2 DEF VerdictIsTrue, Ended
<1>4. CASE ~CountRecords(a) /\ ~CheckQuality(a)
  <2>1. job'[a].pc \notin {"check", "finish"}
    BY <1>4, EarlyFrame, EndPendingPageMoves, UpsertsFrame, BeginFinalizeFrame, OverMoves
       DEF Acts, Finals, Goes, Loading, Upserting, Ended
  <2> QED
    BY <1>1, <2>1 DEF VerdictIsTrue, Ended
<1> QED
  BY <1>2, <1>3, <1>4

LEMMA CompleteStep ==
  ASSUME TypeOK, RecordInHand, StatusFollows, VerdictIsTrue, CompleteIsAccurate,
         NEW a \in Attempts, Acts(a)
  PROVE  CompleteIsAccurate'
<1> SUFFICES ASSUME snapshot'.status = "complete"
             PROVE  /\ snapshot'.counted = {r \in Records : HasRow(r)'}
                    /\ \/ Cardinality(InStatus("failed")') <= MaxFailed
                       \/ \E b \in Attempts : job'[b].clean = "no"
  BY DEF CompleteIsAccurate
<1>1. CASE Finish(a)
  <2>1. /\ snapshot'.status = job[a].verdict /\ snapshot'.counted = job[a].todo
        /\ job[a].pc = "finish" /\ staging' = staging /\ canon' = canon
    BY <1>1 DEF Finish
  <2>2. job'[a].clean = job[a].clean
    BY <1>1, OverMoves DEF Over
  <2>3. /\ InStatus("failed")' = InStatus("failed")
        /\ {r \in Records : HasRow(r)'} = {r \in Records : HasRow(r)}
    BY <2>1 DEF InStatus, HasRow
  <2> QED
    BY <2>1, <2>2, <2>3 DEF VerdictIsTrue
<1>2. CASE Start(a) \/ Dies(a)
  <2>1. UNCHANGED <<snapshot, staging, canon>>
    BY <1>2 DEF Start, Dies
  <2>2. /\ InStatus("failed")' = InStatus("failed")
        /\ {r \in Records : HasRow(r)'} = {r \in Records : HasRow(r)}
    BY <2>1 DEF InStatus, HasRow
  <2>3. \A b \in Attempts : job[b].clean = "no" => job'[b].clean = "no"
    BY ActsFrame DEF Others
  <2> QED
    BY <2>1, <2>2, <2>3 DEF CompleteIsAccurate
<1>3. CASE BeginLoad(a) \/ BeginFinalize(a) \/ FinalizeThrows(a)
  BY <1>3 DEF BeginLoad, BeginFinalize, FinalizeThrows, TypeOK
<1>4. CASE /\ Early(a) \/ EndPendingPage(a) \/ Upserts(a) \/ CountRecords(a) \/ CheckQuality(a)
           /\ ~Start(a) /\ ~BeginLoad(a)
  <2>1. snapshot' = snapshot /\ job[a].pc \in Loading \cup Upserting \cup {"count", "check"}
    BY <1>4, EarlyFrame, EndPendingPageMoves, UpsertsFrame
       DEF Loading, CountRecords, CheckQuality
  <2> QED
    BY <2>1 DEF StatusFollows, Loading
<1> QED
  BY <1>1, <1>2, <1>3, <1>4 DEF Acts, Finals, Over

(***************************************************************************)
(* What a retry keeps                                                      *)
(***************************************************************************)
LEMMA PendingStep ==
  ASSUME ~MayStall, TypeOK, RecordInHand, OneAtATime, PageIsPending,
         NEW a \in Attempts, Acts(a)
  PROVE  PageIsPending'
<1>1. \A b \in Attempts \ {a} : job'[b].pc \in Ended \cup {"new"}
  BY Alone
<1>2. CASE ReadPending(a)
  BY <1>1, <1>2, ReadPendingFrame DEF ReadPending, PageIsPending, InStatus, Ended
<1>3. CASE NormalizeRecord(a)
  <2>1. job[a].todo \subseteq InStatus("pending")
    BY <1>3 DEF NormalizeRecord, PageIsPending
  <2>2. PICK r \in job[a].todo, status \in {"normalized", "failed"} :
          job'[a].todo = job[a].todo \ {r} /\ staging' = [staging EXCEPT ![r].status = status]
    BY <1>3, NormalizeRecordFrame
  <2>3. job'[a].todo \subseteq InStatus("pending")'
    BY <2>1, <2>2 DEF InStatus, TypeOK
  <2> QED
    BY <1>1, <2>3 DEF PageIsPending, Ended
<1>4. CASE ~ReadPending(a) /\ ~NormalizeRecord(a)
  <2>1. job'[a].pc # "normalize"
    BY <1>4, StartFrame, BeginLoadFrame, LoadBatchFrame, EndLoadFrame, EndPendingPageMoves,
       UpsertsFrame, FinalsFrame, OverMoves
       DEF Acts, Early, Goes, Upserting, Finalizing, Ended
  <2> QED
    BY <1>1, <2>1 DEF PageIsPending, Ended
<1> QED
  BY <1>2, <1>3, <1>4

LEMMA KeepsStep ==
  ASSUME TypeOK, RecordInHand, PageIsPending, NEW a \in Attempts, Acts(a)
  PROVE  KeepsProgress
<1> SUFFICES ASSUME NEW r \in Records
             PROVE  /\ staging[r].status = "normalized" => staging'[r] = staging[r]
                    /\ HasRow(r) => /\ canon'[r].by = canon[r].by
                                    /\ canon'[r].links = canon[r].links
                                    /\ Len(canon'[r].lines) >= Len(canon[r].lines)
  BY DEF KeepsProgress
<1>1. staging[r].status = "normalized" => staging'[r] = staging[r]
  <2>1. CASE LoadBatch(a)
    BY <2>1 DEF LoadBatch
  <2>2. CASE NormalizeRecord(a)
    <3>1. PICK q \in job[a].todo, status \in {"normalized", "failed"} :
            staging' = [staging EXCEPT ![q].status = status]
      BY <2>2, NormalizeRecordFrame
    <3>2. staging[q].status = "pending"
      BY <2>2 DEF NormalizeRecord, PageIsPending, InStatus
    <3> QED
      BY <3>1, <3>2 DEF TypeOK
  <2>3. CASE UNCHANGED staging
    BY <2>3
  <2> QED
    BY <2>1, <2>2, <2>3, EndPendingPageMoves, UpsertsFrame, FinalsFrame, OverMoves
       DEF Acts, Early, Start, BeginLoad, EndLoad, ReadPending
<1>2. HasRow(r) => /\ canon'[r].by = canon[r].by /\ canon'[r].links = canon[r].links
                   /\ \/ canon'[r].lines = canon[r].lines
                      \/ canon'[r].lines = Append(canon[r].lines, job[a].line + 1)
  BY RowsStep
<1>3. canon[r].lines \in Seq(Nat) /\ job[a].line + 1 \in Nat
  BY DEF TypeOK, Row, Job
<1>4. /\ Len(canon[r].lines) \in Nat
      /\ Len(Append(canon[r].lines, job[a].line + 1)) = Len(canon[r].lines) + 1
  BY <1>3, AppendProperties, LenProperties
<1>5. HasRow(r) => Len(canon'[r].lines) >= Len(canon[r].lines)
  BY <1>2, <1>4
<1> QED
  BY <1>1, <1>2, <1>5

(***************************************************************************)
(* The links of a row                                                      *)
(***************************************************************************)
LEMMA RankOf ==
  /\ \A i \in 1..Len(Types) : Rank(Types[i]) = i
  /\ \A r \in Records : Rank(Type[r]) \in 1..Len(Types) /\ Types[Rank(Type[r])] = Type[r]
<1>1. ASSUME NEW i \in 1..Len(Types)
      PROVE  Rank(Types[i]) = i
  BY TypeOrder DEF Rank
<1>2. ASSUME NEW r \in Records
      PROVE  Rank(Type[r]) \in 1..Len(Types) /\ Types[Rank(Type[r])] = Type[r]
  <2>1. PICK i \in 1..Len(Types) : Type[r] = Types[i]
    BY RecordShape
  <2> QED
    BY <1>1, <2>1
<1> QED
  BY <1>1, <1>2

LEMMA PageOfTypeStep ==
  ASSUME ~MayStall, TypeOK, RecordInHand, OneAtATime, PageOfType,
         NEW a \in Attempts, Acts(a)
  PROVE  PageOfType'
<1>1. \A b \in Attempts \ {a} : job'[b].pc \in Ended \cup {"new"}
  BY Alone
<1> SUFFICES
      /\ job'[a].pc = "read_normalized" => job'[a].todo = {}
      /\ job'[a].pc \in {"resolve", "insert", "lines"} =>
           \A r \in job'[a].todo : Rank(Type[r]) = job'[a].phase
      /\ job'[a].pc \in {"insert", "lines"} => Rank(Type[job'[a].record]) = job'[a].phase
      /\ job'[a].pc = "insert" => job'[a].record \notin job'[a].todo
  BY <1>1 DEF PageOfType, Ended
<1>2. CASE ReadNormalized(a)
  <2>1. /\ job'[a].pc = "resolve" /\ job'[a].phase = job[a].phase
        /\ job'[a].todo \subseteq OfPhase(a) /\ job[a].phase \in 1..Len(Types)
    BY <1>2, ReadNormalizedFrame DEF Goes, TypeOK, Job
  <2> QED
    BY <2>1, RankOf DEF OfPhase
<1>3. CASE ResolveReferences(a)
  <2>1. PICK r \in job[a].todo : job'[a].todo = job[a].todo \ {r} /\ job'[a].record = r
    BY <1>3, ResolveReferencesFrame
  <2>2. job'[a].pc = "insert" /\ job'[a].phase = job[a].phase /\ job[a].pc = "resolve"
    BY <1>3, ResolveReferencesFrame DEF Goes, SamePage, ResolveReferences
  <2> QED
    BY <2>1, <2>2 DEF PageOfType
<1>4. CASE InsertRow(a) \/ InsertLine(a)
  <2>1. /\ job'[a].pc = "lines" /\ job'[a].phase = job[a].phase /\ job'[a].todo = job[a].todo
        /\ job'[a].record = job[a].record /\ job[a].pc \in {"insert", "lines"}
    BY <1>4, InsertRowFrame, InsertLineFrame
       DEF Goes, SamePage, SameTodo, InsertRow, InsertLine
  <2> QED
    BY <2>1 DEF PageOfType
<1>5. CASE InsertThrows(a) \/ LineThrows(a) \/ EndRecord(a)
  <2>1. /\ job'[a].pc = "resolve" /\ job'[a].phase = job[a].phase /\ job'[a].todo = job[a].todo
        /\ job[a].pc \in {"insert", "lines"}
    BY <1>5, InsertThrowsFrame, LineThrowsFrame, EndRecordFrame
       DEF Goes, SamePage, SameTodo, InsertThrows, LineThrows, EndRecord
  <2> QED
    BY <2>1 DEF PageOfType
<1>6. CASE EndNormalizedPage(a)
  BY <1>6, EndNormalizedPageFrame DEF Goes, SameTodo
<1>7. CASE EndPendingPage(a)
  BY <1>7, EndPendingPageFrame DEF Goes, SameTodo
<1>8. CASE Early(a) \/ Finals(a) \/ Over(a)
  BY <1>8, EarlyFrame, FinalsFrame, OverMoves DEF Loading, Finalizing, Ended
<1> QED
  BY <1>2, <1>3, <1>4, <1>5, <1>6, <1>7, <1>8 DEF Acts, Upserts

\* An attempt has rows only from the upsert on.
LEMMA NoRowsYet ==
  ASSUME RowsHaveAuthors, NEW a \in Attempts,
         job[a].pc \notin Upserting \cup Finalizing \cup Ended
  PROVE  \A r \in Records : canon[r].by # a
BY DEF RowsHaveAuthors, HasRow, Attempts

LEMMA RowsInOrderStep ==
  ASSUME ~MayStall, TypeOK, RecordInHand, OneAtATime, RowsHaveAuthors, PageOfType,
         RowsInOrder, NEW a \in Attempts, Acts(a)
  PROVE  RowsInOrder'
<1>1. \A b \in Attempts \ {a} : job'[b].pc \in Ended \cup {"new"}
  BY Alone
<1> SUFFICES ASSUME job'[a].pc \in Upserting, NEW r \in Records, canon'[r].by = a
             PROVE  Rank(Type[r]) <= job'[a].phase
  BY <1>1 DEF RowsInOrder, Ended, Upserting
<1>2. CASE EndPendingPage(a)
  <2>1. canon'[r].by # a
    BY <1>2, EndPendingPageMoves, NoRowsYet DEF Upserting, Finalizing, Ended
  <2> QED
    BY <2>1
<1>3. CASE Upserts(a)
  <2>1. /\ job[a].phase \in Nat /\ job'[a].phase \in Nat /\ Rank(Type[r]) \in Nat
        /\ job[a].phase <= job'[a].phase
    <3>1. job[a].phase \in 1..Len(Types) /\ Rank(Type[r]) \in 1..Len(Types)
      BY RankOf DEF TypeOK, Job
    <3>2. job'[a].phase = job[a].phase \/ job'[a].phase = job[a].phase + 1
      <4>1. CASE EndNormalizedPage(a)
        <5>1. CASE job[a].phase = Len(Types) /\ Goes(a, "finalize")
          BY <5>1 DEF Goes, Upserting
        <5> QED
          BY <4>1, <5>1, EndNormalizedPageFrame
      <4>2. CASE ~EndNormalizedPage(a)
        BY <1>3, <4>2, ReadNormalizedFrame, ResolveReferencesFrame, InsertRowFrame,
           InsertThrowsFrame, InsertLineFrame, LineThrowsFrame, EndRecordFrame
           DEF Upserts, SamePage
      <4> QED
        BY <4>1, <4>2
    <3> QED
      BY <3>1, <3>2
  <2>2. CASE canon[r].by = a
    <3>1. Rank(Type[r]) <= job[a].phase
      BY <1>3, <2>2, UpsertsFrame DEF RowsInOrder
    <3> QED
      BY <2>1, <3>1
  <2>3. CASE canon[r].by # a
    <3>1. InsertRow(a) /\ r = job[a].record
      BY <2>3, RowsStep
    <3>2. Rank(Type[r]) = job[a].phase
      BY <3>1 DEF InsertRow, PageOfType
    <3> QED
      BY <2>1, <3>2
  <2> QED
    BY <2>2, <2>3
<1>4. CASE Early(a) \/ Finals(a) \/ Over(a)
  BY <1>4, EarlyFrame, FinalsFrame, OverMoves DEF Loading, Finalizing, Ended, Upserting
<1> QED
  BY <1>2, <1>3, <1>4 DEF Acts

LEMMA CachedStep ==
  ASSUME TypeOK, RecordInHand, CachedRows, NEW a \in Attempts, Acts(a)
  PROVE  CachedRows'
<1> SUFFICES ASSUME NEW b \in Attempts, NEW x \in Records, job'[b].ids[x] = "row"
             PROVE  canon'[x].by # 0
  BY DEF CachedRows, HasRow
<1>1. HasRow(x) => canon'[x].by # 0
  BY RowsStep DEF HasRow
<1>2. job[b].ids[x] = "row" => canon'[x].by # 0
  BY <1>1 DEF CachedRows
<1>3. CASE b # a
  BY <1>2, <1>3, ActsFrame DEF Others
<1>4. CASE b = a /\ ResolveReferences(a)
  <2>1. job[a].ids[x] = "row" \/ HasRow(x)
    <3>1. PICK r \in job[a].todo : \A y \in Records :
            job'[a].ids[y] = IF y \in Refs[r] THEN Resolve(job[a].ids, y) ELSE job[a].ids[y]
      BY <1>4, ResolveReferencesFrame
    <3> QED
      BY <1>4, <3>1 DEF Resolve
  <2> QED
    BY <1>1, <1>2, <1>4, <2>1
<1>5. CASE b = a /\ InsertRow(a)
  <2>1. CASE x = job[a].record
    BY <1>1, <1>5, <2>1, InsertRowRows DEF Attempts
  <2>2. CASE x # job[a].record
    <3>1. job[a].ids \in [Records -> CachedId]
      BY DEF TypeOK, Job
    <3>2. job'[b].ids[x] = job[b].ids[x]
      BY <1>5, <2>2, <3>1, InsertRowFrame
    <3> QED
      BY <1>2, <3>2
  <2> QED
    BY <2>1, <2>2
<1>6. CASE b = a /\ InsertLine(a)
  BY <1>1, <1>2, <1>6, InsertLineFrame
<1>7. CASE b = a /\ (EndPendingPage(a) \/ Over(a))
  BY <1>7, EndPendingPageFrame, OverFrame DEF NoIds
<1>8. CASE /\ b = a
           /\ ~EndPendingPage(a) /\ ~Over(a)
           /\ ~ResolveReferences(a) /\ ~InsertRow(a) /\ ~InsertLine(a)
  <2>1. job'[a].ids = job[a].ids
    BY <1>8, StartFrame, BeginLoadFrame, LoadBatchFrame, EndLoadFrame, ReadPendingFrame,
       NormalizeRecordFrame, ReadNormalizedFrame, InsertThrowsFrame, LineThrowsFrame,
       EndRecordFrame, EndNormalizedPageFrame, BeginFinalizeFrame, CountRecordsFrame,
       CheckQualityFrame
       DEF Acts, Early, Upserts, Finals, SameIds
  <2> QED
    BY <1>2, <1>8, <2>1
<1> QED
  BY <1>3, <1>4, <1>5, <1>6, <1>7, <1>8

LEMMA MissesStep ==
  ASSUME ~MayStall, TypeOK, RecordInHand, OneAtATime, NEW a \in Attempts, Acts(a)
  PROVE  MissesAreTrue'
<1>1. \A b \in Attempts \ {a} : job'[b].pc \in Ended \cup {"new"}
  BY Alone
<1> SUFFICES ASSUME job'[a].pc = "insert", NEW x \in Refs[job'[a].record],
                    job'[a].ids[x] = "none"
             PROVE  ~(canon'[x].by # 0)
  BY <1>1 DEF MissesAreTrue, Ended, HasRow
<1>2. ResolveReferences(a)
  BY EarlyFrame, EndPendingPageMoves, ReadNormalizedFrame, InsertRowFrame, InsertThrowsFrame,
     InsertLineFrame, LineThrowsFrame, EndRecordFrame, EndNormalizedPageFrame, FinalsFrame,
     OverMoves
     DEF Acts, Upserts, Goes, Loading, Finalizing, Ended
<1>3. PICK r \in job[a].todo :
        /\ job'[a].record = r
        /\ \A y \in Records :
             job'[a].ids[y] = IF y \in Refs[r] THEN Resolve(job[a].ids, y) ELSE job[a].ids[y]
  BY <1>2, ResolveReferencesFrame
<1>4. x \in Records /\ x \in Refs[r]
  BY <1>3, RecordShape DEF TypeOK, Job
<1>5. Resolve(job[a].ids, x) = "none"
  BY <1>3, <1>4
<1>6. ~HasRow(x)
  BY <1>5 DEF Resolve
<1> QED
  BY <1>2, <1>6 DEF ResolveReferences, HasRow

LEMMA LinkedStep ==
  ASSUME ~MayStall, TypeOK, RecordInHand, OneAtATime, RowsHaveAuthors, PageOfType,
         RowsInOrder, CachedRows, MissesAreTrue, RowsLinked, NEW a \in Attempts, Acts(a)
  PROVE  RowsLinked'
<1>1. \A b \in Attempts \ {a} : job'[b].pc \in Ended \cup {"new"}
  BY Alone
<1> SUFFICES ASSUME job'[a].pc \in Upserting \cup Finalizing, NEW r \in Records,
                    canon'[r].by = a
             PROVE  canon'[r].links = {x \in Refs[r] : canon'[x].by # 0}
  BY <1>1 DEF RowsLinked, Ended, Upserting, Finalizing, HasRow
<1>2. Refs[r] \in SUBSET Records
  BY RecordShape
<1>3. CASE EndPendingPage(a)
  <2>1. canon'[r].by # a
    BY <1>3, EndPendingPageMoves, NoRowsYet DEF Upserting, Finalizing, Ended
  <2> QED
    BY <2>1
<1>4. job[a].pc \in Upserting \cup Finalizing \/ EndPendingPage(a)
  BY EarlyFrame, UpsertsFrame, FinalsFrame, OverMoves
     DEF Acts, Loading, Finalizing, Ended, Upserting
<1>5. CASE ~InsertRow(a) /\ ~EndPendingPage(a)
  <2>1. \A x \in Records : canon'[x].by = canon[x].by /\ canon'[x].links = canon[x].links
    BY <1>5, RowsStep
  <2>2. canon[r].links = {x \in Refs[r] : canon[x].by # 0}
    BY <1>4, <1>5, <2>1 DEF RowsLinked, HasRow
  <2> QED
    BY <1>2, <2>1, <2>2
<1>6. CASE InsertRow(a)
  <2> DEFINE q == job[a].record
  <2>1. /\ q \in Records /\ job[a].pc = "insert" /\ Rank(Type[q]) = job[a].phase
        /\ \A x \in Records \ {q} : canon'[x] = canon[x]
    BY <1>6, InsertRowRows DEF PageOfType
  <2>2. q \notin Refs[r]
    <3>1. r = q \/ Rank(Type[r]) <= job[a].phase
      BY <2>1 DEF RowsInOrder, Upserting
    <3>2. /\ Rank(Type[r]) \in Nat /\ Rank(Type[q]) \in Nat
          /\ q \in Refs[r] => Rank(Type[q]) < Rank(Type[r])
      BY <2>1, RankOf, ReferenceOrder
    <3> QED
      BY <2>1, <3>1, <3>2
  <2>3. \A x \in Refs[r] : canon'[x] = canon[x]
    BY <1>2, <2>1, <2>2
  <2>4. CASE canon[r].by = a
    <3>1. canon'[r].links = canon[r].links
      BY <2>4, RowsStep DEF HasRow, Attempts
    <3>2. canon[r].links = {x \in Refs[r] : canon[x].by # 0}
      BY <1>4, <1>6, <2>1, <2>4 DEF RowsLinked, HasRow, Upserting
    <3> QED
      BY <2>3, <3>1, <3>2
  <2>5. CASE canon[r].by # a
    <3>1. r = q /\ ~HasRow(q)
      BY <2>5, RowsStep
    <3>2. canon'[r].links = {x \in Refs[r] : job[a].ids[x] = "row"}
      BY <1>6, <3>1, InsertRowRows
    <3>3. ASSUME NEW x \in Refs[r]
          PROVE  job[a].ids[x] = "row" <=> canon[x].by # 0
      <4>1. x \in Records /\ job[a].ids[x] \in {"none", "row", "ghost"}
        BY <1>2 DEF TypeOK, Job, CachedId
      <4>2. job[a].ids[x] # "ghost"
        BY <1>6, <3>1 DEF InsertRow, LinksExist
      <4>3. job[a].ids[x] = "none" => ~HasRow(x)
        BY <2>1, <3>1 DEF MissesAreTrue
      <4>4. job[a].ids[x] = "row" => HasRow(x)
        BY <4>1 DEF CachedRows
      <4> QED
        BY <4>1, <4>2, <4>3, <4>4 DEF HasRow
    <3> QED
      BY <2>3, <3>2, <3>3
  <2> QED
    BY <2>4, <2>5
<1> QED
  BY <1>3, <1>5, <1>6

(***************************************************************************)
(* The upsert of one page                                                  *)
(***************************************************************************)
LEMMA PagesStep ==
  ASSUME ~MayStall, TypeOK, RecordInHand, OneAtATime, PagesAreOne,
         NEW a \in Attempts, Acts(a)
  PROVE  PagesAreOne'
<1>1. \A b \in Attempts \ {a} : job'[b].pc \in Ended \cup {"new"}
  BY Alone
<1> SUFFICES ASSUME job'[a].pc \in Upserting
             PROVE  /\ job'[a].offset = 0 \/ job'[a].offset >= UpsertLimit
                    /\ OnePage' /\ job'[a].offset # 0 =>
                         job'[a].pc \in {"read_normalized", "resolve"} /\ job'[a].todo = {}
  BY <1>1 DEF PagesAreOne, Ended, Upserting
<1>2. job[a].offset \in Nat /\ UpsertLimit \in Nat \ {0}
  BY Limits DEF TypeOK, Job
<1>3. CASE EndPendingPage(a)
  BY <1>3, EndPendingPageFrame DEF Goes, Upserting
<1>4. CASE Upserts(a)
  <2>1. /\ staging' = staging /\ job[a].pc \in Upserting
        /\ job[a].offset = 0 \/ job[a].offset >= UpsertLimit
        /\ OnePage /\ job[a].offset # 0 =>
             job[a].pc \in {"read_normalized", "resolve"} /\ job[a].todo = {}
    BY <1>4, UpsertsFrame DEF PagesAreOne
  <2>2. OnePage' = OnePage
    BY <2>1 DEF OnePage, InStatus
  <2>3. CASE ReadNormalized(a)
    <3>1. /\ job'[a].pc = "resolve" /\ job'[a].offset = job[a].offset
          /\ OnePage /\ job[a].offset >= UpsertLimit => job'[a].todo = {}
      BY <2>3, ReadNormalizedFrame DEF Goes
    <3> QED
      BY <2>1, <2>2, <3>1
  <2>4. CASE ResolveReferences(a)
    <3>1. job'[a].offset = job[a].offset /\ job[a].todo # {}
      BY <2>4, ResolveReferencesFrame DEF SamePage
    <3> QED
      BY <2>1, <2>2, <3>1
  <2>5. CASE InsertRow(a) \/ InsertThrows(a) \/ InsertLine(a) \/ LineThrows(a) \/ EndRecord(a)
    <3>1. job'[a].offset = job[a].offset /\ job[a].pc \in {"insert", "lines"}
      BY <2>5, InsertRowFrame, InsertThrowsFrame, InsertLineFrame, LineThrowsFrame,
         EndRecordFrame
         DEF SamePage, InsertRow, InsertThrows, InsertLine, LineThrows, EndRecord
    <3> QED
      BY <2>1, <2>2, <3>1
  <2>6. CASE EndNormalizedPage(a)
    <3>1. /\ job'[a].todo = {} /\ job'[a].pc = "read_normalized"
          /\ job'[a].offset = 0 \/ job'[a].offset = job[a].offset + UpsertLimit
      BY <2>6, EndNormalizedPageFrame DEF Goes, SameTodo, Upserting
    <3> QED
      BY <1>2, <3>1
  <2> QED
    BY <1>4, <2>3, <2>4, <2>5, <2>6 DEF Upserts
<1>5. CASE Early(a) \/ Finals(a) \/ Over(a)
  BY <1>5, EarlyFrame, FinalsFrame, OverMoves DEF Loading, Finalizing, Ended, Upserting
<1> QED
  BY <1>3, <1>4, <1>5 DEF Acts

LEMMA TakenStep ==
  ASSUME ~MayStall, TypeOK, RecordInHand, OneAtATime, RowsHaveAuthors, PageOfType,
         RowsInOrder, PagesAreOne, TakenOnce, NEW a \in Attempts, Acts(a)
  PROVE  TakenOnce'
<1>1. \A b \in Attempts \ {a} : job'[b].pc \in Ended \cup {"new"}
  BY Alone
<1> SUFFICES ASSUME job'[a].pc \in Upserting, OnePage', NEW r \in Records, canon'[r].by = a
             PROVE  /\ r \notin job'[a].todo
                    /\ job'[a].pc = "insert" => r # job'[a].record
                    /\ job'[a].pc = "read_normalized" /\ job'[a].offset = 0 =>
                         Rank(Type[r]) < job'[a].phase
  BY <1>1 DEF TakenOnce, Ended, Upserting
<1>2. CASE EndPendingPage(a)
  <2>1. canon'[r].by # a
    BY <1>2, EndPendingPageMoves, NoRowsYet DEF Upserting, Finalizing, Ended
  <2> QED
    BY <2>1
<1>3. CASE Upserts(a)
  <2>1. /\ job[a].pc \in Upserting /\ OnePage
    BY <1>3, UpsertsFrame DEF OnePage, InStatus
  <2>2. canon[r].by = a =>
          /\ r \notin job[a].todo /\ Rank(Type[r]) <= job[a].phase
          /\ job[a].pc = "insert" => r # job[a].record
          /\ job[a].pc = "read_normalized" /\ job[a].offset = 0 => Rank(Type[r]) < job[a].phase
    BY <2>1 DEF TakenOnce, RowsInOrder
  <2>3. (InsertRow(a) /\ r = job[a].record) \/ canon[r].by = a
    BY RowsStep
  <2>4. job[a].phase \in Nat /\ Rank(Type[r]) \in Nat
    BY RankOf DEF TypeOK, Job
  <2>5. CASE ReadNormalized(a)
    <3>1. /\ job'[a].pc = "resolve" /\ job'[a].todo \subseteq OfPhase(a)
          /\ job[a].offset >= UpsertLimit => job'[a].todo = {}
          /\ job[a].pc = "read_normalized"
      BY <2>1, <2>5, ReadNormalizedFrame DEF Goes, ReadNormalized
    <3>2. job[a].offset = 0 \/ job[a].offset >= UpsertLimit
      BY <2>1 DEF PagesAreOne
    <3>3. canon[r].by = a
      BY <2>3, <2>5, <3>1 DEF InsertRow
    <3>4. CASE job[a].offset = 0
      <4>1. Rank(Type[r]) # job[a].phase
        BY <2>2, <2>4, <3>1, <3>3, <3>4
      <4>2. r \notin OfPhase(a)
        BY <4>1, RankOf DEF OfPhase, TypeOK, Job
      <4> QED
        BY <3>1, <4>2
    <3> QED
      BY <3>1, <3>2, <3>4
  <2>6. CASE ResolveReferences(a)
    <3>1. job'[a].pc = "insert" /\ job[a].pc = "resolve"
      BY <2>6, ResolveReferencesFrame DEF Goes, ResolveReferences
    <3>2. PICK q \in job[a].todo : job'[a].todo = job[a].todo \ {q} /\ job'[a].record = q
      BY <2>6, ResolveReferencesFrame
    <3>3. canon[r].by = a
      BY <2>3, <3>1 DEF InsertRow
    <3> QED
      BY <2>2, <3>1, <3>2, <3>3
  <2>7. CASE InsertRow(a) \/ InsertThrows(a) \/ InsertLine(a) \/ LineThrows(a) \/ EndRecord(a)
    <3>1. /\ job'[a].pc \notin {"insert", "read_normalized"} /\ job'[a].todo = job[a].todo
      BY <2>7, InsertRowFrame, InsertThrowsFrame, InsertLineFrame, LineThrowsFrame,
         EndRecordFrame
         DEF Goes, SameTodo
    <3>2. InsertRow(a) => job[a].record \notin job[a].todo
      BY DEF InsertRow, PageOfType
    <3> QED
      BY <2>2, <2>3, <3>1, <3>2
  <2>8. CASE EndNormalizedPage(a)
    <3>1. /\ job'[a].todo = {} /\ job'[a].pc = "read_normalized" /\ job[a].pc = "resolve"
          /\ \/ job'[a].offset = job[a].offset + UpsertLimit
             \/ job'[a].phase = job[a].phase + 1
      BY <2>8, EndNormalizedPageFrame DEF Goes, SameTodo, Upserting, EndNormalizedPage
    <3>2. canon[r].by = a
      BY <2>3, <3>1 DEF InsertRow
    <3>3. job[a].offset + UpsertLimit # 0
      BY Limits DEF TypeOK, Job
    <3> QED
      BY <2>2, <2>4, <3>1, <3>2, <3>3
  <2> QED
    BY <1>3, <2>5, <2>6, <2>7, <2>8 DEF Upserts
<1>4. CASE Early(a) \/ Finals(a) \/ Over(a)
  BY <1>4, EarlyFrame, FinalsFrame, OverMoves DEF Loading, Finalizing, Ended, Upserting
<1> QED
  BY <1>2, <1>3, <1>4 DEF Acts

LEMMA OldStays ==
  ASSUME TypeOK, RecordInHand, NEW a \in Attempts, Acts(a), NEW b \in Attempts, NEW x,
         FromBefore(b, x)
  PROVE  FromBefore(b, x)'
<1>1. x \in Records /\ canon[x].by \in 1..(b - 1)
  BY DEF FromBefore
<1>2. canon'[x].by = canon[x].by
  BY <1>1, RowsStep DEF HasRow
<1> QED
  BY <1>1, <1>2 DEF FromBefore

LEMMA GhostsStep ==
  ASSUME ~MayStall, TypeOK, RecordInHand, OneAtATime, RowsHaveAuthors, TakenOnce,
         GhostsAreOld, NEW a \in Attempts, Acts(a)
  PROVE  GhostsAreOld'
<1>1. \A b \in Attempts \ {a} : job'[b].pc \in Ended \cup {"new"}
  BY Alone
<1> SUFFICES ASSUME job'[a].pc \in Upserting, OnePage', NEW x \in Records,
                    job'[a].ids[x] = "ghost"
             PROVE  FromBefore(a, x)'
  BY <1>1 DEF GhostsAreOld, Ended, Upserting
<1>2. CASE EndPendingPage(a)
  BY <1>2, EndPendingPageFrame DEF NoIds
<1>3. CASE Upserts(a)
  <2>1. job[a].pc \in Upserting /\ OnePage
    BY <1>3, UpsertsFrame DEF OnePage, InStatus
  <2>2. job[a].ids[x] = "ghost" => FromBefore(a, x)'
    BY <2>1, OldStays DEF GhostsAreOld
  <2>3. CASE ResolveReferences(a)
    <3>1. PICK r \in job[a].todo : \A y \in Records :
            job'[a].ids[y] = IF y \in Refs[r] THEN Resolve(job[a].ids, y) ELSE job[a].ids[y]
      BY <2>3, ResolveReferencesFrame
    <3>2. job[a].ids[x] = "ghost"
      BY <3>1 DEF Resolve
    <3> QED
      BY <2>2, <3>2
  <2>4. CASE InsertRow(a)
    <3>1. /\ job[a].ids \in [Records -> CachedId] /\ job[a].record \in Records
          /\ job[a].pc = "insert"
      BY <2>4, InsertRowRows DEF TypeOK, Job
    <3>2. CASE x = job[a].record
      <4>1. HasRow(x) /\ canon' = canon
        BY <2>4, <3>1, <3>2, InsertRowFrame, InsertRowRows
      <4>2. canon[x].by \in Attempts /\ canon[x].by # a
        BY <2>1, <3>1, <3>2, <4>1 DEF TakenOnce, TypeOK, Row, HasRow
      <4>3. job[canon[x].by].pc # "new"
        BY <4>1 DEF RowsHaveAuthors, Upserting, Finalizing, Ended
      <4>4. canon[x].by < a
        BY <4>2, <4>3, Alone
      <4>5. canon[x].by \in 1..(a - 1)
        BY <4>2, <4>4, Limits DEF Attempts
      <4> QED
        BY <4>1, <4>5 DEF FromBefore
    <3>3. CASE x # job[a].record
      BY <2>2, <2>4, <3>1, <3>3, InsertRowFrame
    <3> QED
      BY <3>2, <3>3
  <2>5. CASE InsertLine(a)
    BY <2>2, <2>5, InsertLineFrame
  <2>6. CASE \/ ReadNormalized(a) \/ InsertThrows(a) \/ LineThrows(a) \/ EndRecord(a)
             \/ EndNormalizedPage(a)
    <3>1. job'[a].ids = job[a].ids
      BY <2>6, ReadNormalizedFrame, InsertThrowsFrame, LineThrowsFrame, EndRecordFrame,
         EndNormalizedPageFrame DEF SameIds
    <3> QED
      BY <2>2, <3>1
  <2> QED
    BY <1>3, <2>3, <2>4, <2>5, <2>6 DEF Upserts
<1>4. CASE Early(a) \/ Finals(a) \/ Over(a)
  BY <1>4, EarlyFrame, FinalsFrame, OverMoves DEF Loading, Finalizing, Ended, Upserting
<1> QED
  BY <1>2, <1>3, <1>4 DEF Acts

LEMMA SettledStays ==
  ASSUME TypeOK, RecordInHand, NEW a \in Attempts, Acts(a), NEW r \in Records, Settled(a, r)
  PROVE  Settled(a, r)'
<1>1. CASE HasRow(r)
  BY <1>1, RowsStep DEF Settled, HasRow
<1>2. CASE Type[r] = "pricePlan"
  BY <1>2 DEF Settled
<1>3. CASE \E x \in Refs[r] : FromBefore(a, x)
  BY <1>3, OldStays DEF Settled
<1> QED
  BY <1>1, <1>2, <1>3 DEF Settled

LEMMA SettledStep ==
  ASSUME ~MayStall, TypeOK, RecordInHand, OneAtATime, PageOfType, PagesAreOne, GhostsAreOld,
         SettledSoFar, NEW a \in Attempts, Acts(a)
  PROVE  SettledSoFar'
<1>1. \A b \in Attempts \ {a} : job'[b].pc \in Ended \cup {"new"}
  BY Alone
<1>2. job'[a].clean = "yes" => job[a].clean = "yes"
  BY ActsFrame
<1> DEFINE Through(r) ==
      /\ job[a].pc \in Upserting /\ Rank(Type[r]) < job[a].phase => Settled(a, r)
      /\ job[a].pc = "read_normalized" /\ job[a].offset # 0 /\ Rank(Type[r]) = job[a].phase =>
           Settled(a, r)
      /\ job[a].pc \in {"resolve", "insert", "lines"} /\ Rank(Type[r]) = job[a].phase =>
           \/ r \in job[a].todo
           \/ job[a].pc = "insert" /\ r = job[a].record
           \/ Settled(a, r)
      /\ job[a].pc \in Finalizing => Settled(a, r)
<1> SUFFICES ASSUME job'[a].clean = "yes", OnePage', NEW r \in InStatus("normalized")'
             PROVE  Through(r)'
  BY <1>1 DEF SettledSoFar, Ended, Upserting, Finalizing
<1>3. r \in Records /\ Rank(Type[r]) \in 1..Len(Types) /\ Len(Types) \in Nat
  BY RankOf, TypesAreSome DEF InStatus
<1>4. Settled(a, r) => Settled(a, r)'
  BY <1>3, SettledStays
<1>5. job[a].phase \in 1..Len(Types)
  BY DEF TypeOK, Job
<1>6. UNCHANGED staging => r \in InStatus("normalized") /\ OnePage
  BY DEF InStatus, OnePage
<1>7. UNCHANGED staging => Through(r)
  BY <1>2, <1>6 DEF SettledSoFar
<1>8. CASE EndPendingPage(a)
  <2>1. /\ job'[a].pc = "read_pending" \/ (job'[a].pc = "read_normalized" /\ job'[a].offset = 0)
        /\ job'[a].phase = 1
    BY <1>8, EndPendingPageFrame DEF Goes
  <2> QED
    BY <1>3, <2>1 DEF Upserting, Finalizing
<1>9. CASE ReadNormalized(a)
  <2>1. /\ job'[a].pc = "resolve" /\ job'[a].phase = job[a].phase
        /\ OnePage /\ job[a].offset = 0 => job'[a].todo = OfPhase(a)
        /\ job[a].pc = "read_normalized" /\ UNCHANGED staging
    BY <1>9, ReadNormalizedFrame DEF Goes, ReadNormalized
  <2>2. Rank(Type[r]) < job[a].phase => Settled(a, r)
    BY <1>7, <2>1 DEF Upserting
  <2>3. Rank(Type[r]) = job[a].phase => r \in job'[a].todo \/ Settled(a, r)
    <3>1. CASE job[a].offset = 0
      BY <1>3, <1>6, <2>1, <3>1, RankOf DEF OfPhase
    <3>2. CASE job[a].offset # 0
      BY <1>7, <2>1, <3>2
    <3> QED
      BY <3>1, <3>2
  <2> QED
    BY <1>4, <2>1, <2>2, <2>3 DEF Finalizing
<1>10. CASE ResolveReferences(a)
  <2>1. /\ job'[a].pc = "insert" /\ job'[a].phase = job[a].phase
        /\ job[a].pc = "resolve" /\ UNCHANGED staging
    BY <1>10, ResolveReferencesFrame DEF Goes, SamePage, ResolveReferences
  <2>2. PICK q \in job[a].todo : job'[a].todo = job[a].todo \ {q} /\ job'[a].record = q
    BY <1>10, ResolveReferencesFrame
  <2>3. Rank(Type[r]) < job[a].phase => Settled(a, r)
    BY <1>7, <2>1 DEF Upserting
  <2>4. Rank(Type[r]) = job[a].phase => r \in job[a].todo \/ Settled(a, r)
    BY <1>7, <2>1
  <2> QED
    BY <1>4, <2>1, <2>2, <2>3, <2>4 DEF Finalizing
<1>11. CASE InsertRow(a)
  <2>1. /\ job'[a].pc = "lines" /\ job'[a].phase = job[a].phase /\ job'[a].todo = job[a].todo
        /\ job[a].pc = "insert" /\ UNCHANGED staging
    BY <1>11, InsertRowFrame DEF Goes, SamePage, SameTodo, InsertRow
  <2>2. r = job[a].record => Settled(a, r)'
    <3>1. r = job[a].record => canon'[r].by # 0
      BY <1>11, InsertRowRows DEF HasRow, Attempts
    <3> QED
      BY <3>1 DEF Settled, HasRow
  <2>3. Rank(Type[r]) < job[a].phase => Settled(a, r)
    BY <1>7, <2>1 DEF Upserting
  <2>4. Rank(Type[r]) = job[a].phase =>
          r \in job[a].todo \/ r = job[a].record \/ Settled(a, r)
    BY <1>7, <2>1
  <2> QED
    BY <1>4, <2>1, <2>2, <2>3, <2>4 DEF Finalizing
<1>12. CASE InsertThrows(a)
  <2>1. /\ job'[a].pc = "resolve" /\ job'[a].phase = job[a].phase /\ job'[a].todo = job[a].todo
        /\ job[a].pc = "insert" /\ UNCHANGED <<staging, canon>> /\ InsertMustThrow(a)
    BY <1>12, InsertThrowsFrame DEF Goes, SamePage, SameTodo, InsertThrows
  <2>2. r = job[a].record => Settled(a, r)
    <3>1. CASE ~HasConflictIndex(Type[job[a].record])
      BY <3>1 DEF HasConflictIndex, Settled
    <3>2. CASE ~LinksExist(a)
      <4>1. PICK x \in Refs[job[a].record] : job[a].ids[x] = "ghost"
        BY <3>2 DEF LinksExist
      <4>2. x \in Records
        BY <2>1, <4>1, RecordShape DEF RecordInHand
      <4>3. FromBefore(a, x)
        BY <1>6, <2>1, <4>1, <4>2 DEF GhostsAreOld, Upserting
      <4> QED
        BY <4>1, <4>3 DEF Settled
    <3> QED
      BY <2>1, <3>1, <3>2 DEF InsertMustThrow
  <2>3. Rank(Type[r]) < job[a].phase => Settled(a, r)
    BY <1>7, <2>1 DEF Upserting
  <2>4. Rank(Type[r]) = job[a].phase =>
          r \in job[a].todo \/ r = job[a].record \/ Settled(a, r)
    BY <1>7, <2>1
  <2> QED
    BY <1>4, <2>1, <2>2, <2>3, <2>4 DEF Finalizing
<1>13. CASE InsertLine(a) \/ LineThrows(a) \/ EndRecord(a)
  <2>1. /\ job'[a].pc \in {"resolve", "lines"} /\ job'[a].phase = job[a].phase
        /\ job'[a].todo = job[a].todo /\ job[a].pc = "lines" /\ UNCHANGED staging
    BY <1>13, InsertLineFrame, LineThrowsFrame, EndRecordFrame
       DEF Goes, SamePage, SameTodo, InsertLine, LineThrows, EndRecord
  <2>2. Rank(Type[r]) < job[a].phase => Settled(a, r)
    BY <1>7, <2>1 DEF Upserting
  <2>3. Rank(Type[r]) = job[a].phase => r \in job[a].todo \/ Settled(a, r)
    BY <1>7, <2>1
  <2> QED
    BY <1>4, <2>1, <2>2, <2>3 DEF Finalizing
<1>14. CASE EndNormalizedPage(a)
  <2>1. /\ job[a].todo = {} /\ job[a].pc = "resolve" /\ UNCHANGED staging
        /\ \/ job'[a].pc = "read_normalized" /\ job'[a].phase = job[a].phase
           \/ /\ job'[a].pc = "read_normalized" /\ job'[a].phase = job[a].phase + 1
              /\ job'[a].offset = 0
           \/ job'[a].pc = "finalize" /\ job[a].phase = Len(Types)
    BY <1>14, EndNormalizedPageFrame DEF Goes, EndNormalizedPage
  <2>2. Rank(Type[r]) < job[a].phase => Settled(a, r)
    BY <1>7, <2>1 DEF Upserting
  <2>3. Rank(Type[r]) = job[a].phase => Settled(a, r)
    BY <1>7, <2>1
  <2>4. Rank(Type[r]) < job[a].phase + 1 => Settled(a, r)
    BY <1>3, <1>5, <2>2, <2>3
  <2>5. job[a].phase = Len(Types) => Settled(a, r)
    BY <1>3, <1>5, <2>4
  <2> QED
    BY <1>4, <2>1, <2>2, <2>3, <2>4, <2>5 DEF Finalizing, Upserting
<1>15. CASE Finals(a)
  <2>1. UNCHANGED staging /\ job[a].pc \in Finalizing /\ job'[a].pc \in Finalizing
    BY <1>15, FinalsFrame
  <2> QED
    BY <1>4, <1>7, <2>1 DEF Finalizing, Upserting
<1>16. CASE Early(a) \/ Over(a)
  BY <1>16, EarlyFrame, OverMoves DEF Loading, Finalizing, Ended, Upserting
<1> QED
  BY <1>8, <1>9, <1>10, <1>11, <1>12, <1>13, <1>14, <1>15, <1>16 DEF Acts, Upserts

LEMMA LinesSoFarStep ==
  ASSUME ~MayStall, TypeOK, RecordInHand, OpenLines, OneAtATime, RowsHaveAuthors,
         GhostsAreOld, LinesSoFar, NEW a \in Attempts, Acts(a)
  PROVE  LinesSoFar'
<1>1. \A b \in Attempts \ {a} : job'[b].pc \in Ended \cup {"new"}
  BY Alone
<1>2. job'[a].clean = "yes" => job[a].clean = "yes"
  BY ActsFrame
<1> SUFFICES ASSUME job'[a].clean = "yes", OnePage', job'[a].pc \in Upserting \cup Finalizing,
                    NEW r \in Records, canon'[r].by = a
             PROVE  HasItsLines(a, r)' \/ (job'[a].pc = "lines" /\ job'[a].record = r)
  BY <1>1 DEF LinesSoFar, Ended, Upserting, Finalizing
<1>3. CASE EndPendingPage(a)
  <2>1. canon'[r].by # a
    BY <1>3, EndPendingPageMoves, NoRowsYet DEF Upserting, Finalizing, Ended
  <2> QED
    BY <2>1
<1>4. CASE Early(a) \/ Over(a)
  BY <1>4, EarlyFrame, OverMoves DEF Loading, Finalizing, Ended, Upserting
<1>5. CASE Upserts(a) \/ Finals(a)
  <2>1. job[a].pc \in Upserting \cup Finalizing /\ OnePage
    BY <1>5, UpsertsFrame, FinalsFrame DEF OnePage, InStatus
  <2>2. HasItsLines(a, r) /\ canon'[r] = canon[r] => HasItsLines(a, r)'
    <3>1. \A i \in 1..Len(LinesOf[r]) :
            FromBefore(a, LinesOf[r][i]) => FromBefore(a, LinesOf[r][i])'
      BY OldStays
    <3> QED
      BY <3>1 DEF HasItsLines
  <2>3. canon[r].by = a => HasItsLines(a, r) \/ (job[a].pc = "lines" /\ job[a].record = r)
    BY <1>2, <2>1 DEF LinesSoFar
  <2>4. CASE InsertRow(a) \/ InsertLine(a)
    <3>1. /\ job'[a].pc = "lines" /\ job'[a].record = job[a].record
          /\ r # job[a].record => canon'[r] = canon[r]
      <4>1. CASE InsertRow(a)
        <5>1. job'[a].pc = "lines" /\ job'[a].record = job[a].record
          BY <4>1, InsertRowFrame DEF Goes
        <5>2. r # job[a].record => canon'[r] = canon[r]
          BY <4>1, InsertRowRows
        <5> QED
          BY <5>1, <5>2
      <4>2. CASE InsertLine(a)
        BY <4>2, InsertLineFrame, InsertLineRows DEF Goes
      <4> QED
        BY <2>4, <4>1, <4>2
    <3> QED
      BY <2>2, <2>3, <3>1
  <2>5. CASE ~InsertRow(a) /\ ~InsertLine(a) /\ (job[a].pc # "lines" \/ job[a].record # r)
    <3>1. canon'[r] = canon[r]
      BY <2>5, RowsStep
    <3> QED
      BY <2>2, <2>3, <2>5, <3>1
  <2>6. CASE ~InsertRow(a) /\ ~InsertLine(a) /\ job[a].pc = "lines" /\ job[a].record = r
    <3>1. canon'[r] = canon[r] /\ canon[r].by = a
      BY <2>6, RowsStep
    <3>2. job[a].ids[r] = "row"
      <4>1. job[a].ids[r] # "ghost"
        <5>1. ~FromBefore(a, r)
          BY <3>1, Limits DEF FromBefore, Attempts
        <5> QED
          BY <2>1, <2>6, <5>1 DEF GhostsAreOld, Upserting
      <4> QED
        BY <2>6, <4>1 DEF RecordInHand
    <3>3. CASE LineThrows(a)
      <4>1. /\ job[a].line < Len(LinesOf[r]) /\ job[a].line \in Nat
            /\ Len(LinesOf[r]) \in Nat /\ LinesOf[r] \in Seq(Records \cup {NoRecord})
        BY <2>6, <3>3, RecordShape, LenProperties DEF LineThrows, TypeOK, Job
      <4>2. LineMustThrow(a)
        BY <3>3, LineThrowsFrame
      <4>3. NextProduct(a) # NoRecord /\ job[a].ids[NextProduct(a)] = "ghost"
        BY <2>6, <3>2, <4>2 DEF LineMustThrow
      <4>4. NextProduct(a) = LinesOf[r][job[a].line + 1] /\ job[a].line + 1 \in 1..Len(LinesOf[r])
        BY <2>6, <4>1 DEF NextProduct
      <4>5. NextProduct(a) \in Records
        BY <4>1, <4>3, <4>4
      <4>6. FromBefore(a, NextProduct(a))
        BY <2>1, <2>6, <4>3, <4>5 DEF GhostsAreOld, Upserting
      <4>7. HasItsLines(a, r)
        BY <4>4, <4>6 DEF HasItsLines
      <4> QED
        BY <2>2, <3>1, <4>7
    <3>4. CASE EndRecord(a)
      <4>1. job[a].line = Len(LinesOf[r]) /\ Len(canon[r].lines) = job[a].line
        BY <2>6, <3>2, <3>4 DEF EndRecord, OpenLines
      <4> QED
        BY <2>2, <3>1, <4>1 DEF HasItsLines
    <3> QED
      BY <1>5, <2>6, <3>3, <3>4, FinalsFrame
         DEF Upserts, Finalizing, ReadNormalized, ResolveReferences, InsertThrows,
             EndNormalizedPage
  <2> QED
    BY <2>4, <2>5, <2>6
<1> QED
  BY <1>3, <1>4, <1>5 DEF Acts

(***************************************************************************)
(* Results                                                                 *)
(***************************************************************************)
LEMMA InitIInv == Init => IInv
<1> SUFFICES ASSUME Init
             PROVE  IInv
  OBVIOUS
<1>1. LinesInv
  BY InitLines
<1>2. \A a \in Attempts : job[a].pc = "new" /\ job[a].ids = NoIds
  BY DEF Init, Memory
<1>3. \A r \in Records : canon[r].by = 0
  BY DEF Init, NoRow
<1>4. OrderInv
  <2>1. OneAtATime
    BY <1>2 DEF OneAtATime
  <2>2. RowsHaveAuthors
    BY <1>3 DEF RowsHaveAuthors, HasRow
  <2> QED
    BY <2>1, <2>2 DEF OrderInv
<1>5. StatusInv
  <2>1. snapshot.status # "complete"
    BY DEF Init
  <2> QED
    BY <1>2, <2>1 DEF StatusInv, StatusFollows, VerdictIsTrue, CompleteIsAccurate, Upserting
<1>6. PageIsPending
  BY <1>2 DEF PageIsPending
<1>7. LinksInv
  <2>1. CachedRows
    BY <1>2 DEF CachedRows, NoIds
  <2>2. PageOfType /\ RowsInOrder /\ MissesAreTrue /\ RowsLinked
    BY <1>2 DEF PageOfType, RowsInOrder, MissesAreTrue, RowsLinked, Upserting, Finalizing
  <2> QED
    BY <2>1, <2>2 DEF LinksInv
<1>8. UpsertInv
  BY <1>2 DEF UpsertInv, PagesAreOne, TakenOnce, GhostsAreOld, SettledSoFar, LinesSoFar,
              Upserting, Finalizing
<1> QED
  BY <1>1, <1>4, <1>5, <1>6, <1>7, <1>8 DEF IInv

LEMMA NextIInv == ~MayStall /\ IInv /\ Next => IInv'
<1> SUFFICES ASSUME ~MayStall, IInv, Next
             PROVE  IInv'
  OBVIOUS
<1>1. PICK a \in Attempts : Acts(a)
  BY Acting
<1> USE DEF IInv, LinesInv, OrderInv, StatusInv, LinksInv, UpsertInv
<1>2. LinesInv'
  BY TypeStep, HandStep, OpenLinesStep, LinesOnceStep
<1>3. OrderInv'
  BY <1>1, Alone, AuthorsStep
<1>4. StatusInv'
  BY <1>1, StatusStep, VerdictStep, CompleteStep
<1>5. PageIsPending'
  BY <1>1, PendingStep
<1>6. LinksInv'
  BY <1>1, PageOfTypeStep, RowsInOrderStep, CachedStep, MissesStep, LinkedStep
<1>7. UpsertInv'
  BY <1>1, PagesStep, TakenStep, GhostsStep, SettledStep, LinesSoFarStep
<1> QED
  BY <1>2, <1>3, <1>4, <1>5, <1>6, <1>7

LEMMA StutterIInv == IInv /\ UNCHANGED vars => IInv'
<1> SUFFICES ASSUME IInv, UNCHANGED vars
             PROVE  IInv'
  OBVIOUS
<1>1. LinesInv'
  BY DEF vars, IInv, LinesInv, TypeOK, RecordInHand, OpenLines, LinesOnce
<1>2. OrderInv'
  BY DEF vars, IInv, OrderInv, OneAtATime, RowsHaveAuthors, HasRow
<1>3. StatusInv'
  BY DEF vars, IInv, StatusInv, StatusFollows, VerdictIsTrue, CompleteIsAccurate, HasRow,
         InStatus
<1>4. PageIsPending'
  BY DEF vars, IInv, PageIsPending, InStatus
<1>5. LinksInv'
  BY DEF vars, IInv, LinksInv, PageOfType, RowsInOrder, CachedRows, MissesAreTrue, RowsLinked,
         HasRow
<1>6. UpsertInv'
  <2>1. PagesAreOne' /\ TakenOnce' /\ GhostsAreOld'
    BY DEF vars, IInv, UpsertInv, PagesAreOne, TakenOnce, GhostsAreOld, OnePage, InStatus,
           FromBefore
  <2>2. SettledSoFar'
    BY DEF vars, IInv, UpsertInv, SettledSoFar, Settled, OnePage, InStatus, FromBefore, HasRow
  <2>3. LinesSoFar'
    BY DEF vars, IInv, UpsertInv, LinesSoFar, HasItsLines, OnePage, InStatus, FromBefore
  <2> QED
    BY <2>1, <2>2, <2>3 DEF UpsertInv
<1> QED
  BY <1>1, <1>2, <1>3, <1>4, <1>5, <1>6 DEF IInv

LEMMA Inductive == ~MayStall => (Spec => []IInv)
<1> SUFFICES ASSUME ~MayStall
             PROVE  Spec => []IInv
  OBVIOUS
<1>1. IInv /\ [Next]_vars => IInv'
  BY NextIInv, StutterIInv
<1> QED
  BY <1>1, InitIInv, PTL DEF Spec

\* A row links to every object it names that has a row, and an invoice has its lines,
\* when a clean attempt is through with the upsert; no line is there twice (ingest.upsert).
THEOREM RowsAreRight == ~MayStall => (Spec => []IngestionInv)
<1> SUFFICES ASSUME ~MayStall
             PROVE  Spec => []IngestionInv
  OBVIOUS
<1>1. IInv => IngestionInv
  <2> SUFFICES ASSUME IInv, NEW a \in Attempts, UpsertDone(a), NEW r \in Records,
                      canon[r].by = a
               PROVE  /\ canon[r].links = {x \in Refs[r] : HasRow(x)}
                      /\ \/ ~OnePage
                         \/ Len(canon[r].lines) = Len(LinesOf[r])
                         \/ \E i \in 1..Len(LinesOf[r]) : FromBefore(a, LinesOf[r][i])
    BY DEF IInv, LinesInv, IngestionInv, RowsAreLinked
  <2>1. job[a].clean = "yes" /\ job[a].pc \in Finalizing /\ job[a].pc # "lines"
    BY DEF UpsertDone, Finalizing
  <2>2. canon[r].links = {x \in Refs[r] : HasRow(x)}
    BY <2>1 DEF IInv, LinksInv, RowsLinked
  <2>3. OnePage => HasItsLines(a, r)
    BY <2>1 DEF IInv, UpsertInv, LinesSoFar
  <2> QED
    BY <2>2, <2>3 DEF HasItsLines
<1> QED
  BY <1>1, Inductive, PTL

\* What an attempt in which nothing failed leaves without a row has a cause: it is a
\* price plan, or names an object an earlier attempt inserted (ingest.upsert).
THEOREM NothingElseIsLost == ~MayStall => (Spec => []LossesHaveACause)
<1> SUFFICES ASSUME ~MayStall
             PROVE  Spec => []LossesHaveACause
  OBVIOUS
<1>1. IInv => LossesHaveACause
  BY DEF IInv, UpsertInv, SettledSoFar, Settled, LossesHaveACause, UpsertDone, Finalizing
<1> QED
  BY <1>1, Inductive, PTL

\* A complete snapshot counts the rows of its tables, and a clean one has no more
\* staging failures than allowed (ingest.finalize).
THEOREM CountsAreTrue == ~MayStall => (Spec => []CompleteIsAccurate)
<1> SUFFICES ASSUME ~MayStall
             PROVE  Spec => []CompleteIsAccurate
  OBVIOUS
<1>1. IInv => CompleteIsAccurate
  BY DEF IInv, StatusInv
<1> QED
  BY <1>1, Inductive, PTL

\* No step of a retry undoes what an earlier attempt did (ingest.load, normalize, upsert).
THEOREM ProgressIsKept == ~MayStall => (Spec => RetryKeepsProgress)
<1> SUFFICES ASSUME ~MayStall
             PROVE  Spec => [][KeepsProgress]_vars
  BY DEF RetryKeepsProgress
<1>1. IInv /\ [Next]_vars => [KeepsProgress]_vars
  <2> SUFFICES ASSUME IInv, Next
               PROVE  KeepsProgress
    OBVIOUS
  <2>1. PICK a \in Attempts : Acts(a)
    BY Acting
  <2> QED
    BY <2>1, KeepsStep DEF IInv, LinesInv
<1> QED
  BY <1>1, Inductive, PTL DEF Spec
=============================================================================
