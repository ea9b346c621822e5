------------------------------ MODULE Ingestion ------------------------------
(***************************************************************************)
(* An ingest.full job building one snapshot: load, normalize, upsert and   *)
(* finalize (apps/worker/src/processors/ingest-*.ts), run in this order by *)
(* processFullIngestion (apps/worker/src/worker.ts).                       *)
(*                                                                         *)
(* BullMQ may run the job again after an error, a crash or a stall; an     *)
(* attempt is one such run, with caches of its own and the tables of all   *)
(* attempts before it.  Every database statement that another attempt can  *)
(* fall between is a step.  sync_runs rows, which no stage reads, and      *)
(* columns that no reference or status depends on are left out.            *)
(***************************************************************************)
EXTENDS Integers, Sequences, FiniteSets

CONSTANTS
  Records,         \* external objects with an id that extractExternalId finds
  NoRecord,
  Types,           \* the canonical types, in the order ingest.upsert takes them
  Type,            \* Type[r]: the canonical type of r
  Refs,            \* Refs[r]: the objects whose external ids r names
  LinesOf,         \* LinesOf[r]: the product (or NoRecord) of each invoice line
  Mappable,        \* records the provider's mapper accepts
  Batches,         \* raw batches of the tenant
  Contents,        \* Contents[b]: the records of batch b
  MaxAttempts,     \* runs of the job: BullMQ attempts and stalls
  MayStall,        \* a run can start while an earlier one has lost its lock
  NormalizeLimit,  \* page size of ingest.normalize (1000)
  UpsertLimit,     \* page size of ingest.upsert (500)
  MaxFailed        \* failed staging records a snapshot may have (100)

Attempts == 1..MaxAttempts

Rank(type) == CHOOSE i \in 1..Len(Types) : Types[i] = type

ASSUME TypeOrder ==
  /\ Types \in Seq({Types[i] : i \in 1..Len(Types)}) /\ Types # <<>>
  /\ \A i, j \in 1..Len(Types) : Types[i] = Types[j] => i = j
ASSUME RecordShape ==
  /\ IsFiniteSet(Records) /\ NoRecord \notin Records
  /\ Type \in [Records -> {Types[i] : i \in 1..Len(Types)}]
  /\ Refs \in [Records -> SUBSET Records]
  /\ LinesOf \in [Records -> Seq(Records \cup {NoRecord})]
  /\ \A r \in Records : LinesOf[r] # <<>> => Type[r] = "invoice"
\* What a record names is of a type that ingest.upsert takes before its own: a
\* contract names a customer, an invoice these two, a payment an invoice and a
\* customer, a price plan a product.
ASSUME ReferenceOrder ==
  \A r \in Records : \A x \in Refs[r] : Rank(Type[x]) < Rank(Type[r])
ASSUME BatchShape == Contents \in [Batches -> SUBSET Records] /\ Mappable \subseteq Records
ASSUME Limits ==
  /\ MaxAttempts \in Nat \ {0} /\ MayStall \in BOOLEAN /\ MaxFailed \in Nat
  /\ NormalizeLimit \in Nat \ {0} /\ UpsertLimit \in Nat \ {0}

VARIABLES
  snapshot,  \* the snapshot's row: its status and the rows it was said to hold
  staging,   \* staging[r]: the staging_records row of r and its received_at
  canon,     \* canon[r]: the canonical row of r, its links and invoice lines
  job        \* job[a]: where attempt a is, its page and its id caches

vars == <<snapshot, staging, canon, job>>

(***************************************************************************)
(* Data                                                                    *)
(***************************************************************************)
SnapshotStatus == {"pending", "building", "validating", "complete", "failed"}
StagingStatus  == {"none", "pending", "normalized", "failed"}
JobPc == {"new", "begin", "load", "read_pending", "normalize", "read_normalized",
          "resolve", "insert", "lines", "finalize", "count", "check",
          "finish", "returned", "dead"}
Ended == {"returned", "dead"}

\* An id in a cache is the id of the object's row, or an id createXxxId() made
\* for an insert that the conflict clause then dropped: the id of no row.
CachedId == {"none", "row", "ghost"}

NoRow == [by |-> 0, links |-> {}, lines |-> <<>>]
Row   == [by : Attempts \cup {0}, links : SUBSET Records, lines : Seq(Nat)]
HasRow(r) == canon[r].by # 0

Job == [pc : JobPc, clean : {"yes", "no"}, batches : SUBSET Batches,
        phase : 1..Len(Types), offset : Nat, got : Nat, todo : SUBSET Records,
        record : Records \cup {NoRecord}, line : Nat,
        ids : [Records -> CachedId], verdict : SnapshotStatus]

TypeOK ==
  /\ snapshot \in [status : SnapshotStatus, counted : SUBSET Records]
  /\ staging \in [Records -> [status : StagingStatus, at : Nat]]
  /\ canon \in [Records -> Row]
  /\ job \in [Attempts -> Job]

NoIds == [r \in Records |-> "none"]

\* The variables of an attempt before it starts and after it ended.
Memory(pc, clean) ==
  [pc |-> pc, clean |-> clean, batches |-> {}, phase |-> 1, offset |-> 0, got |-> 0,
   todo |-> {}, record |-> NoRecord, line |-> 0, ids |-> NoIds, verdict |-> "pending"]

Init ==
  /\ snapshot = [status |-> "pending", counted |-> {}]
  /\ staging = [r \in Records |-> [status |-> "none", at |-> 0]]
  /\ canon = [r \in Records |-> NoRow]
  /\ job = [a \in Attempts |-> Memory("new", "yes")]

\* Attempt a ends, and what it held in memory is gone.
End(a, pc) == job' = [job EXCEPT ![a] = Memory(pc, job[a].clean)]

InStatus(s) == {r \in Records : staging[r].status = s}

\* The rows a SELECT ... ORDER BY received_at LIMIT limit OFFSET offset over S
\* may return: rows of one insert share received_at, and the order among them
\* is the database's.
Window(S, limit, offset) ==
  {P \in SUBSET S :
     \E skipped \in SUBSET (S \ P) :
       /\ Cardinality(skipped) = IF offset < Cardinality(S) THEN offset
                                                            ELSE Cardinality(S)
       /\ \/ Cardinality(P) = limit
          \/ Cardinality(P) < limit /\ P \cup skipped = S
       /\ \A r \in skipped, q \in S \ skipped : staging[r].at <= staging[q].at
       /\ \A r \in P, q \in S \ (P \cup skipped) : staging[r].at <= staging[q].at}

\* The next records of a page, in the order of the query.
Foremost(S) == {r \in S : \A q \in S : staging[r].at <= staging[q].at}

(***************************************************************************)
(* Load                                                                    *)
(***************************************************************************)

\* BullMQ gives the job to a worker: after the attempt before it ended (also
\* one that returned and could not be recorded), or lost its lock.  Without
\* batches processFullIngestion returns at once.
Start(a) ==
  /\ job[a].pc = "new"
  /\ \A b \in 1..(a - 1) : job[b].pc \in Ended \/ (MayStall /\ job[b].pc # "new")
  /\ job' = [job EXCEPT ![a].pc = IF Batches = {} THEN "returned" ELSE "begin",
                        ![a].batches = Batches]
  /\ UNCHANGED <<snapshot, staging, canon>>

\* A variant for mutation: the load stage leaves the snapshot's status alone.
BeginLoadQuietly(a) ==
  /\ job[a].pc = "begin"
  /\ job' = [job EXCEPT ![a].pc = "load"]
  /\ UNCHANGED <<snapshot, staging, canon>>

BeginLoad(a) ==
  /\ job[a].pc = "begin"
  /\ snapshot' = [snapshot EXCEPT !.status = "building"]
  /\ job' = [job EXCEPT ![a].pc = "load"]
  /\ UNCHANGED <<staging, canon>>

\* Later than every received_at so far.
NextTime == Cardinality({staging[r].at : r \in Records})

\* A variant for mutation: loading a staged object again makes it pending.
LoadBatchAgain(a) ==
  \E b \in job[a].batches :
    /\ job[a].pc = "load"
    /\ staging' = [r \in Records |->
         IF r \in Contents[b] THEN [status |-> "pending", at |-> NextTime] ELSE staging[r]]
    /\ job' = [job EXCEPT ![a].batches = @ \ {b}]
    /\ UNCHANGED <<snapshot, canon>>

\* Insert the records of one batch, a staged one of the same object stays
\* (ON CONFLICT DO NOTHING).  A missing batch or object, or a failing chunk,
\* loses records and is only logged.
LoadBatch(a) ==
  \E b \in job[a].batches : \E lost \in SUBSET Contents[b] :
    /\ job[a].pc = "load"
    /\ staging' = [r \in Records |->
         IF r \in Contents[b] \ lost /\ staging[r].status = "none"
         THEN [status |-> "pending", at |-> NextTime] ELSE staging[r]]
    /\ job' = [job EXCEPT ![a].batches = @ \ {b},
                          ![a].clean = IF lost = {} THEN @ ELSE "no"]
    /\ UNCHANGED <<snapshot, canon>>

EndLoad(a) ==
  /\ job[a].pc = "load" /\ job[a].batches = {}
  /\ job' = [job EXCEPT ![a].pc = "read_pending", ![a].offset = 0]
  /\ UNCHANGED <<snapshot, staging, canon>>

(***************************************************************************)
(* Normalize                                                               *)
(***************************************************************************)
ReadPending(a) ==
  /\ job[a].pc = "read_pending"
  /\ \E page \in Window(InStatus("pending"), NormalizeLimit, job[a].offset) :
       job' = [job EXCEPT ![a].pc = "normalize", ![a].todo = page,
                          ![a].got = Cardinality(page)]
  /\ UNCHANGED <<snapshot, staging, canon>>

\* A variant for mutation: a record that throws is only logged.
NormalizeRecordOrLog(a) ==
  \E r \in Foremost(job[a].todo), status \in {"normalized", "pending"} :
    /\ job[a].pc = "normalize"
    /\ status = "normalized" => r \in Mappable
    /\ staging' = [staging EXCEPT ![r].status = status]
    /\ job' = [job EXCEPT ![a].todo = @ \ {r},
                          ![a].clean = IF status = "pending" /\ r \in Mappable
                                       THEN "no" ELSE @]
    /\ UNCHANGED <<snapshot, canon>>

\* Map one record of the page and write the result over raw_json; whatever
\* throws (connection, provider, mapper, the update) marks it 'failed'.
NormalizeRecord(a) ==
  \E r \in Foremost(job[a].todo), status \in {"normalized", "failed"} :
    /\ job[a].pc = "normalize"
    /\ status = "normalized" => r \in Mappable
    /\ staging' = [staging EXCEPT ![r].status = status]
    /\ job' = [job EXCEPT ![a].todo = @ \ {r},
                          ![a].clean = IF status = "failed" /\ r \in Mappable
                                       THEN "no" ELSE @]
    /\ UNCHANGED <<snapshot, canon>>

\* offset += records.length, until a page is short.
EndPendingPage(a) ==
  LET full == job[a].got = NormalizeLimit IN
  /\ job[a].pc = "normalize" /\ job[a].todo = {}
  /\ job' = [job EXCEPT
       ![a].pc     = IF full THEN "read_pending" ELSE "read_normalized",
       ![a].offset = IF full THEN @ + job[a].got ELSE 0,
       ![a].phase  = 1,
       ![a].ids    = NoIds]
  /\ UNCHANGED <<snapshot, staging, canon>>

(***************************************************************************)
(* Upsert                                                                  *)
(***************************************************************************)
\* A variant for mutation: the types in the opposite order.
ReadNormalizedBackwards(a) ==
  /\ job[a].pc = "read_normalized"
  /\ \E page \in Window(InStatus("normalized"), UpsertLimit, job[a].offset) :
       job' = [job EXCEPT
         ![a].pc = "resolve", ![a].got = Cardinality(page),
         ![a].todo = {r \in page : Type[r] = Types[Len(Types) + 1 - job[a].phase]}]
  /\ UNCHANGED <<snapshot, staging, canon>>

ReadNormalized(a) ==
  /\ job[a].pc = "read_normalized"
  /\ \E page \in Window(InStatus("normalized"), UpsertLimit, job[a].offset) :
       job' = [job EXCEPT
         ![a].pc = "resolve", ![a].got = Cardinality(page),
         ![a].todo = {r \in page : Type[r] = Types[job[a].phase]}]
  /\ UNCHANGED <<snapshot, staging, canon>>

\* resolveXxxId: the cached id, else the id of the object's row, else null.
Resolve(ids, x) ==
  IF ids[x] = "none" /\ HasRow(x) THEN "row" ELSE ids[x]

ResolveReferences(a) ==
  \E r \in Foremost(job[a].todo) :
    /\ job[a].pc = "resolve"
    /\ job' = [job EXCEPT
         ![a].pc = "insert", ![a].todo = @ \ {r}, ![a].record = r,
         ![a].ids = [x \in Records |-> IF x \in Refs[r] THEN Resolve(@, x) ELSE @[x]]]
    /\ UNCHANGED <<snapshot, staging, canon>>

\* price_plans has no unique index on the columns its conflict clause names,
\* so Postgres rejects every insert.
HasConflictIndex(type) == type # "pricePlan"

\* The insert of the attempt's record, with the ids resolved for it, is
\* accepted by the foreign keys.
LinksExist(a) == \A x \in Refs[job[a].record] : job[a].ids[x] # "ghost"

\* A variant for mutation: an existing row's id is looked up after a conflict.
InsertRowReturning(a) ==
  LET r == job[a].record
      links == {x \in Refs[r] : job[a].ids[x] = "row"}
  IN
  /\ job[a].pc = "insert"
  /\ HasConflictIndex(Type[r])
  /\ canon' = IF HasRow(r) THEN canon
              ELSE [canon EXCEPT ![r] = [by |-> a, links |-> links, lines |-> <<>>]]
  /\ job' = [job EXCEPT ![a].ids[r] = "row", ![a].pc = "lines", ![a].line = 0]
  /\ UNCHANGED <<snapshot, staging>>

\* INSERT ... ON CONFLICT (tenant_id, snapshot_id, external_id) DO NOTHING.
\* The new id is cached whether or not a row was inserted under it.
InsertRow(a) ==
  LET r == job[a].record
      links == {x \in Refs[r] : job[a].ids[x] = "row"}
  IN
  /\ job[a].pc = "insert"
  /\ HasConflictIndex(Type[r]) /\ (HasRow(r) \/ LinksExist(a))
  /\ canon' = IF HasRow(r) THEN canon
              ELSE [canon EXCEPT ![r] = [by |-> a, links |-> links, lines |-> <<>>]]
  /\ job' = [job EXCEPT ![a].ids[r] = IF HasRow(r) THEN "ghost" ELSE "row",
                        ![a].pc = "lines", ![a].line = 0]
  /\ UNCHANGED <<snapshot, staging>>

\* The insert throws: no usable index, a dangling link, or a failing
\* statement.  The record is skipped with a warning.
InsertThrows(a) ==
  LET r == job[a].record
      must == ~HasConflictIndex(Type[r]) \/ (~HasRow(r) /\ ~LinksExist(a))
  IN
  /\ job[a].pc = "insert"
  /\ job' = [job EXCEPT ![a].pc = "resolve", ![a].record = NoRecord,
                        ![a].clean = IF must THEN @ ELSE "no"]
  /\ UNCHANGED <<snapshot, staging, canon>>

\* The lines of an invoice are plain inserts, one by one, under the id made for
\* this upsert; a failing one skips those after it.
InsertLine(a) ==
  LET r == job[a].record
      p == LinesOf[r][job[a].line + 1]
      ids == IF p = NoRecord THEN job[a].ids
             ELSE [job[a].ids EXCEPT ![p] = Resolve(job[a].ids, p)]
  IN
  /\ job[a].pc = "lines" /\ job[a].line < Len(LinesOf[r])
  /\ ids[r] = "row" /\ (p # NoRecord => ids[p] # "ghost")
  /\ canon' = [canon EXCEPT ![r].lines = Append(@, job[a].line + 1)]
  /\ job' = [job EXCEPT ![a].line = @ + 1, ![a].ids = ids]
  /\ UNCHANGED <<snapshot, staging>>

LineThrows(a) ==
  LET r == job[a].record
      p == LinesOf[r][job[a].line + 1]
      must == job[a].ids[r] = "ghost" \/ (p # NoRecord /\ job[a].ids[p] = "ghost")
  IN
  /\ job[a].pc = "lines" /\ job[a].line < Len(LinesOf[r])
  /\ job' = [job EXCEPT ![a].pc = "resolve", ![a].record = NoRecord,
                        ![a].clean = IF must THEN @ ELSE "no"]
  /\ UNCHANGED <<snapshot, staging, canon>>

EndRecord(a) ==
  /\ job[a].pc = "lines" /\ job[a].line = Len(LinesOf[job[a].record])
  /\ job' = [job EXCEPT ![a].pc = "resolve", ![a].record = NoRecord]
  /\ UNCHANGED <<snapshot, staging, canon>>

\* Variants for mutation: the offset does not move within a type, or is kept for
\* the next type.
EndNormalizedPageInPlace(a) ==
  LET full == job[a].got = UpsertLimit
      last == job[a].phase = Len(Types)
  IN
  /\ job[a].pc = "resolve" /\ job[a].todo = {}
  /\ job' = [job EXCEPT
       ![a].pc     = IF ~full /\ last THEN "finalize" ELSE "read_normalized",
       ![a].offset = 0,
       ![a].phase  = IF full \/ last THEN @ ELSE @ + 1]
  /\ UNCHANGED <<snapshot, staging, canon>>

EndNormalizedPageKeepingOffset(a) ==
  LET full == job[a].got = UpsertLimit
      last == job[a].phase = Len(Types)
  IN
  /\ job[a].pc = "resolve" /\ job[a].todo = {}
  /\ job' = [job EXCEPT
       ![a].pc     = IF ~full /\ last THEN "finalize" ELSE "read_normalized",
       ![a].offset = @ + job[a].got,
       ![a].phase  = IF full \/ last THEN @ ELSE @ + 1]
  /\ UNCHANGED <<snapshot, staging, canon>>

\* The next page of the type, or the first page of the next type; after the
\* last one the finalize stage begins.
EndNormalizedPage(a) ==
  LET full == job[a].got = UpsertLimit
      last == job[a].phase = Len(Types)
  IN
  /\ job[a].pc = "resolve" /\ job[a].todo = {}
  /\ job' = [job EXCEPT
       ![a].pc     = IF ~full /\ last THEN "finalize" ELSE "read_normalized",
       ![a].offset = IF full THEN @ + job[a].got ELSE 0,
       ![a].phase  = IF full \/ last THEN @ ELSE @ + 1]
  /\ UNCHANGED <<snapshot, staging, canon>>

(***************************************************************************)
(* Finalize                                                                *)
(***************************************************************************)
BeginFinalize(a) ==
  /\ job[a].pc = "finalize"
  /\ snapshot' = [snapshot EXCEPT !.status = "validating"]
  /\ job' = [job EXCEPT ![a].pc = "count"]
  /\ UNCHANGED <<staging, canon>>

\* computeRecordCounts; what it counted is written at the end, it is kept in
\* todo until then.
CountRecords(a) ==
  /\ job[a].pc = "count"
  /\ job' = [job EXCEPT ![a].pc = "check", ![a].todo = {r \in Records : HasRow(r)}]
  /\ UNCHANGED <<snapshot, staging, canon>>

\* Of the quality checks only staging_normalization_failures can fail the
\* snapshot.  A check whose query throws is dropped from the results.
CheckQuality(a) ==
  /\ job[a].pc = "check"
  /\ \/ job' = [job EXCEPT
          ![a].pc = "finish",
          ![a].verdict = IF Cardinality(InStatus("failed")) > MaxFailed
                         THEN "failed" ELSE "complete"]
     \/ job' = [job EXCEPT ![a].pc = "finish", ![a].verdict = "complete",
                           ![a].clean = "no"]
  /\ UNCHANGED <<snapshot, staging, canon>>

\* Write the final status and the counts, and return.
Finish(a) ==
  /\ job[a].pc = "finish"
  /\ snapshot' = [status |-> job[a].verdict, counted |-> job[a].todo]
  /\ End(a, "returned")
  /\ UNCHANGED <<staging, canon>>

\* A statement of the finalize stage throws: its catch block fails the snapshot.
FinalizeThrows(a) ==
  /\ job[a].pc \in {"count", "check", "finish"}
  /\ snapshot' = [snapshot EXCEPT !.status = "failed"]
  /\ End(a, "dead")
  /\ UNCHANGED <<staging, canon>>

\* The process dies, or a statement outside the per-record try blocks throws:
\* the catch blocks of the other stages write nothing but their sync_runs row.
Dies(a) ==
  /\ job[a].pc \notin Ended \cup {"new"}
  /\ End(a, "dead")
  /\ UNCHANGED <<snapshot, staging, canon>>

(***************************************************************************)
(* Specification                                                           *)
(***************************************************************************)
Step(a) ==
  \/ BeginLoad(a) \/ LoadBatch(a) \/ EndLoad(a)
  \/ ReadPending(a) \/ NormalizeRecord(a) \/ EndPendingPage(a)
  \/ ReadNormalized(a) \/ ResolveReferences(a) \/ InsertRow(a) \/ InsertThrows(a)
  \/ InsertLine(a) \/ LineThrows(a) \/ EndRecord(a) \/ EndNormalizedPage(a)
  \/ BeginFinalize(a) \/ CountRecords(a) \/ CheckQuality(a) \/ Finish(a)
  \/ FinalizeThrows(a)

Next == \E a \in Attempts : Start(a) \/ Step(a) \/ Dies(a)

Spec == Init /\ [][Next]_vars

(***************************************************************************)
(* Safety                                                                  *)
(***************************************************************************)

\* invoice_lines has no unique key and its inserts no conflict clause, and yet
\* no retry and no overlapping attempt inserts a line of an invoice twice: a
\* repeated upsert writes under an id the foreign key rejects.
LinesOnce ==
  \A r \in Records : canon[r].lines = [i \in 1..Len(canon[r].lines) |-> i]

\* The upsert stage of attempt a is over and no statement of a failed.
UpsertDone(a) ==
  job[a].clean = "yes" /\ job[a].pc \in {"finalize", "count", "check", "finish"}

\* The upsert took every normalized record in one page of a query.  (With OFFSET
\* over rows of one received_at, a later page may repeat what another one had.)
OnePage == Cardinality(InStatus("normalized")) <= UpsertLimit

FromBefore(a, x) == x \in Records /\ canon[x].by \in 1..(a - 1)

\* What an attempt after earlier ones may lose: an attempt in which nothing
\* failed leaves a normalized record without a row only if the record is a price
\* plan or names an object whose row is from an earlier attempt.  (Attempts one
\* after the other.)
LossesHaveACause ==
  \A a \in Attempts :
    UpsertDone(a) /\ OnePage =>
      \A r \in InStatus("normalized") :
        \/ HasRow(r)
        \/ Type[r] = "pricePlan"
        \/ \E x \in Refs[r] : FromBefore(a, x)

\* The order of the types satisfies the references: the rows a clean attempt
\* inserts are linked to every object they name that has a row, and an invoice
\* has all of its lines unless a product is from an earlier attempt.  (Attempts one
\* after the other.)
RowsAreLinked ==
  \A a \in Attempts : UpsertDone(a) =>
    \A r \in Records : canon[r].by = a =>
      /\ canon[r].links = {x \in Refs[r] : HasRow(x)}
      /\ \/ ~OnePage
         \/ Len(canon[r].lines) = Len(LinesOf[r])
         \/ \E i \in 1..Len(LinesOf[r]) : FromBefore(a, LinesOf[r][i])

\* While a snapshot is 'complete' its record counts are those of the tables, and
\* the staging failures are within the limit unless some statement failed
\* unseen.  (Attempts one after the other.)
CompleteIsAccurate ==
  snapshot.status = "complete" =>
    /\ snapshot.counted = {r \in Records : HasRow(r)}
    /\ \/ Cardinality(InStatus("failed")) <= MaxFailed
       \/ \E a \in Attempts : job[a].clean = "no"

KeepsProgress ==
  \A r \in Records :
    /\ staging[r].status = "normalized" => staging'[r] = staging[r]
    /\ HasRow(r) => /\ canon'[r].by = canon[r].by
                    /\ canon'[r].links = canon[r].links
                    /\ Len(canon'[r].lines) >= Len(canon[r].lines)

\* A retry keeps what earlier attempts did: no normalized record is staged
\* again, and no canonical row changes its links or loses lines.
RetryKeepsProgress == [][KeepsProgress]_vars

\* The normalize stage of attempt a is over.
AfterNormalize(a) ==
  job[a].pc \in {"read_normalized", "resolve", "insert", "lines", "finalize", "count",
                 "check", "finish"}

Staged == {r \in Records : staging[r].status # "none"}

\* What the page loop of ingest.normalize never reads of n pending records: each
\* page takes NormalizeLimit of them out of the query and the offset passes over as
\* many, so it ends after the first `pages` full pages and the short one after them.
PassedOver(n) ==
  LET L == NormalizeLimit
      pages == (n + L) \div (2 * L)
      rest == n - pages * L
  IN  IF rest < pages * L THEN rest ELSE pages * L

\* What an attempt leaves before the upsert, also in a snapshot that is 'complete': no
\* more pending records than its own offset passes over, which is none if they fit in
\* a page; and while no statement failed, every record of a batch is staged, and only
\* those the mapper refuses have failed.  (Attempts one after the other.)
LeftBehindIsBounded ==
  /\ snapshot.status = "complete" \/ (\E a \in Attempts : AfterNormalize(a)) =>
       Cardinality(InStatus("pending")) <= PassedOver(Cardinality(Staged))
  /\ \A a \in Attempts : AfterNormalize(a) /\ (\A b \in 1..a : job[b].clean = "yes") =>
       /\ \A b \in Batches : Contents[b] \subseteq Staged
       /\ InStatus("failed") \cap Mappable = {}

\* Types; a row links to rows of what its record names, and has each of its lines
\* once (ingest.upsert).
IngestionInv == TypeOK /\ RowsAreLinked /\ LinesOnce

(***************************************************************************)
(* What the documentation says and the code does not do                    *)
(***************************************************************************)

\* docs/ingestion.md: "Re-running resumes from where it left off".  A retry in
\* which nothing failed then leaves every normalized record with its row.
RerunResumes ==
  \A a \in Attempts : UpsertDone(a) =>
    \A r \in InStatus("normalized") : Type[r] = "pricePlan" \/ HasRow(r)
=============================================================================
