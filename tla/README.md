# Cogtics in TLA+

Cogtics finds revenue leakage: it pulls billing and CRM data and uploaded documents into a canonical snapshot, runs
detection rules over it and publishes issues, exports and digests. The program is a Fastify API (`apps/api`), a
BullMQ worker with a scheduler (`apps/worker`), a Next.js front end (`apps/web`) and shared packages (`packages/*`),
over Postgres, Redis and an S3 bucket.

What makes it hard is not any single statement but what falls between two of them. Almost nothing runs in a database
transaction: a route inserts three or four rows and then a queue entry, a processor writes a status, an object, a file
row and an audit row, and each of these calls can fail, be overtaken by another request or by a second run of the same
job, or be the last one before a crash. BullMQ delivers jobs at least once. These models take every database, storage
and queue call as a step of its own and let everything else happen in between. The algorithms that have no steps to
interleave (revenue recognition, rules, simulation engine, identity matching) are operators, explored over small books
of contracts, invoices and customers.

| module | what it is |
| --- | --- |
| `JobQueue.tla` | enqueue route, idempotency keys, BullMQ's attempts, locks and stalls, the worker's handler |
| `KeyedJobs.tla` | what an idempotency key promises, without queue or failures; `JobQueue` implements it |
| `Ingestion.tla` | the four stages of an `ingest.full` job building one snapshot |
| `Exports.tla` | exports and export schedules from the request to the download |
| `Uploads.tla` | one upload from start through parsing and finalizing to deletion; the scheduler's cleanup |
| `Contracts.tla` | one contract document: extract, segment, terms and readiness jobs, corrections of its terms |
| `Review.tla` | the review queue: assign, resolve, skip, and the sweep that gives stuck items back |
| `Sync.tla` | one connection and its sync jobs: login, pages, cursors, batches, health, deletion |
| `Digests.tla` | one digest subscription, the ticks that find it due and the jobs that mail it |
| `Detection.tla` | detection runs of one snapshot, their issues, decisions on them, promoted discoveries |
| `Rules.tla` | the rule runner with 25 rules, deduplication and scores, over a book of contracts |
| `RevRec.tla`, `RevRecJobs.tla` | what the revenue engine computes, and the two jobs that store it |
| `SimEngine.tla`, `Simulations.tla` | what the simulation engine computes, and the life of one simulation |
| `Identity.tla` | matching customers, the runs that merge them and the decisions that undo or confirm it |
| `RulesState.tla`, `DetectionState.tla`, `DigestState.tla`, `ReviewState.tla`, `SyncState.tla`, `RevRecState.tla`, `SimState.tla`, `ScheduleState.tla`, `WhatIfState.tla`, `IdentityState.tla` | what `Rules`, `Detection`, `Digests`, `Review`, `Sync`, `RevRecJobs`, `Simulations`, `RevRec`, `SimEngine` and `Identity` keep and promise: variables, types and invariants, apart so that a sum (below) can extend them |
| `*_proofs.tla` | theorems, for all values of the constants: `JobsIssues_proofs` about `JobQueue` and `Detection`, `Identity_proofs` about `Identity`, `Digests` and `Review`, `Services_proofs` about `RevRec`, `RevRecJobs`, `SimEngine` and `Simulations`, the others about the module they are named after |
| `MC*.tla`, `*.cfg` | instances for TLC |

Operators announced as a mutant, or as a variant for mutation, are not part of any specification: each is a plausible
bug of the definition next to it, and shows that the property it is aimed at can be violated.

## Inventory

### Components, their state and how they interact

* **API** (`apps/api/src`). Stateless handlers. Writes rows, then calls `queue.add`. One request can be interleaved
  with any other and fail between any two awaits; what was written stays.
* **Job queue and worker runtime** (`routes/admin/jobs.ts`, `plugins/queue.ts`, `worker.ts`). State: `idempotency_keys`,
  `jobs`, the BullMQ jobs in Redis (attempts, stalls, lock). The worker's handler marks the `jobs` row `processing`, runs
  the processor of the job's type, marks it `completed`, settles the idempotency key; its catch block marks it `failed` and
  rethrows so that BullMQ retries. Correct when a key has one job, a duplicate answer is true, runs overlap only after
  a stall, retries are bounded, a completed job is recorded, every queued job ends.
* **Ingestion** (`processors/ingest-*.ts`, `processFullIngestion` in `worker.ts`). State: `snapshots`, `staging_records`,
  the canonical tables (customers, contracts, invoices and lines, payments, products, price plans), and id caches in
  memory. Correct when a retry neither loses, repeats nor undoes work, links go to rows that exist, the page loops end,
  and a complete snapshot's counts are true.
* **Exports** (`routes/exports/index.ts`, `scheduler.ts`, `processors/export-*.ts`). State: `exports` with a processing
  lock, `export_files`, `export_audit`, `export_runs`, the bucket. Correct when a completed export can be downloaded,
  its audit trail is true, nothing is stranded without a failure, and a deleted export stays deleted.
* **Scheduler** (`scheduler.ts`). Every minute: due digests and export schedules, stale uploads, review items to give
  back. Ticks are not awaited, so they can overlap. Each of its four duties is part of the module it works on.
* **Uploads** (`routes/uploads`, `processors/upload-*.ts`, `lib/queue-depth.ts`). State: `uploads`, `parse_runs` with their
  errors, parsed rows, the object. Correct when processing always has a cause, a run at rest is settled, statistics
  are those of a run that parsed the file, and a deleted upload leaves nothing that comes back.
* **Contracts** (`routes/contracts`, `processors/contracts-*.ts`). State: a document with clauses, terms, overrides,
  readiness and review items. Four jobs queue each other. Correct when a version has each term once, an overridden
  term has its correction, and the readiness of a document at rest is that of its terms.
* **Review** (`routes/contracts/review.ts`). State: `review_queue`. Correct when one reviewer holds an item, no sweep
  undoes an earlier decision, and nobody keeps an item for ever.
* **Connector sync** (`processors/sync.ts`, `routes/connections`, `packages/connectors`). State: connections, credentials,
  login state in Redis, cursors, `sync_runs`, raw batches and their objects. Correct when a cursor covers what is stored,
  a full sync is full, and a batch has its object.
* **Detection and rules** (`processors/detect*.ts`, `routes/issues`, `packages/rules`). State: runs, issues with sources and
  history, AI discoveries. Correct when a completed run is whole, the history explains the status, planted leaks are
  found, and a report neither contradicts itself nor forgets.
* **Revenue recognition** (`packages/revrec`, `processors/revrec-*.ts`). State: obligations, allocations, schedules, events,
  reconciliations. Correct when allocations add up to the price, periods cover the term and recognition adds up.
* **Simulations** (`routes/simulations`, `processors/simulation-*.ts`, `packages/simulation`). Templates, overrides, runs, results.
* **Identity** (`processors/identity-*.ts`, `routes/identity`, `packages/identity`). Runs, candidate pairs, review tasks,
  identities with members, decisions, suppressed pairs.
* **Digests** (`processors/digest-send.ts`, `routes/digests`). Subscriptions, digest runs, mails.
* **Dead letters, replay, evidence packs, webhooks, contract algorithms, LLM client, authentication and tenants, schemas,
  telemetry, storage, web application, tools**: see the end.

Requests start work through the queue; stages pass work on through rows (`snapshots.status`, `staging_records.status`,
`contract_documents.status`) or by queueing the next job; nothing calls back. So the interactions that matter are: two
requests on one row, a request against a run on one row, two runs of one job, and a tick against all of them.

### Which part is where

`JobQueue` is the ground the others stand on: it shows that BullMQ may run the handler of one job several times, also at
once after a stall, at most `MaxAttempts + MaxStalls` times. `Ingestion` takes exactly that as its `Start(a)`: attempt `a`
begins when the one before it has ended, or still runs without its lock (`MayStall`). The other modules carry the part of the queue they
need (a job's state, its tries, its stalls) together with the routes that fill it. `Detection` takes what a
configuration finds as any set of keys, and `Rules` says what the rules find; `RevRecJobs` and `Simulations` store what `RevRec`
and `SimEngine` compute.

## The modules

### JobQueue

| state | code |
| --- | --- |
| `req[c]` | a request of `POST /admin/jobs/enqueue` between two awaits, with its key and its fresh job id |
| `idem[k]` | the `idempotency_keys` row: none, pending, completed with the job id in `response_json` |
| `row[j]` | the `jobs` row: status and `idempotency_key_id` |
| `bull[j]` | the BullMQ job: state, attempts made, stalled counter, who holds its lock |
| `run[w]` | a concurrency slot of a worker process and the statement its handler is about to execute |
| `effects[j]` | how often the processor of `j` ran to its end (a history variable) |

`Submit`, `CheckKey`, `InsertKey`, `InsertJob`, `AddToQueue`, `AuditAndReply` are the route's calls in order,
`RequestFails` the failure of any of them. `Fetch` is BullMQ's; `MarkProcessing`, `ProcessorReturns`, `MarkCompleted`,
`SettleKey`, `Return` the good way through the handler, `HandlerThrows`, `MarkFailed` (whose update may itself
fail), `Throw` the other one. `Crash`, `LoseLock` and `StalledCheck` are the faults. BullMQ is not in the repository;
its part is modelled from the options the code passes: attempts 3, `maxStalledCount` left at 1. `KeepsPromise` states the
refinement: with the keys' rows as `bound`, the jobs that ran as `processed` and the duplicate answers as `told`, every step
of `JobQueue` is a step of `KeyedJobs` or a stutter. Abstracted: backoff (a retry may come at once), payloads, queues per
type (they share the handler), telemetry.

### Ingestion

| state | code |
| --- | --- |
| `snapshot` | the snapshot's row: status, and which rows its `record_counts` counted |
| `staging[r]` | the staging row of an external object and its place in `ORDER BY received_at` |
| `canon[r]` | its canonical row: the attempt that inserted it, which references it was linked to, its invoice lines |
| `job[a]` | attempt `a`: its stage, page, offset, records to go, id caches |

An attempt runs load (`BeginLoad`, `LoadBatch`, `EndLoad`), normalize (`ReadPending`, `NormalizeRecord`,
`EndPendingPage`), upsert (`ReadNormalized`, `ResolveReferences`, `InsertRow` or `InsertThrows`, `InsertLine` or
`LineThrows`, `EndRecord`, `EndNormalizedPage`) and finalize (`BeginFinalize`, `CountRecords`, `CheckQuality`, `Finish`
or `FinalizeThrows`); `Dies` stands for a crash or an exception outside the per-record `try` blocks. `Window` is what
`ORDER BY received_at LIMIT ... OFFSET ...` may return: rows inserted by one statement share `received_at`, so their
order is the database's. A cached id is the id of a row or a `ghost`: an id made for an insert that `ON CONFLICT DO
NOTHING` then dropped. Foreign keys and unique indexes are read from the migrations and appear as guards. `clean` remembers whether
some statement of an attempt failed that the code only logs: the properties are about what the *code* loses, and say so
for attempts in which nothing failed. `Refs` says what a record names; `Rank` is the place of its type in the order the upsert takes the types, and what a record names comes
before it (`ReferenceOrder`, from `ingest-upsert.ts:94-115`). Paging the normalized records by OFFSET may repeat one record and skip another when
they have one `received_at`, so properties about what an upsert leaves out speak of one-page upserts (`OnePage`). Normalize pages by OFFSET over the pending records, which its updates take
out of the query: of `n` it never reads `PassedOver(n)`, none if they fit in a page and at most half. `LeftBehindIsBounded` says that it leaves no more than these pending, in a
snapshot that is complete too, and that while no statement fails every record is staged and only those the mapper refuses fail. Abstracted: `sync_runs` rows of the stages (no stage reads them), the mappers' fields,
quality checks that only warn, columns no reference or status depends on.

### Exports

| state | code |
| --- | --- |
| `exports[e]` | the row's status and the age of `processing_lock`: none, less than a minute, older |
| `files[e]`, `stored` | `export_files` rows by the run that inserted them; the objects in the bucket |
| `audit[e]` | `export_audit` rows: action, and the run, request or tick that wrote it |
| `runs[e]` | the `export_runs` row a schedule's tick inserted |
| `job[j]`, `run[j][n]` | the export a job names, its BullMQ state and stalls; where its n-th run stands |
| `actor[a]` | a request or a scheduler tick between two calls, with what it read |

The routes are `RequestExport`, `Regenerate`, `Delete`, `Download` with their continuations (`InsertExport`, `Reset`,
`PickFile`, `AuditRequest`, `Cancel`, `Remove`, `InsertJob`, `Enqueue`), the schedule is `Tick`, `InsertExport`,
`InsertRun`, `InsertJob`, `Enqueue`. A processor is `Begin` ... `AuditCompleted`; `ProcessorThrows` may happen at any of
its statements and leads through `MarkFailed` and `AuditFailed`; `HandlerThrows`, `Leave`, `Crash` and `Stalled` are the
handler's and BullMQ's part. The CSV and PDF processors make the same statements, and one set of actions stands for both.
Updates have no condition but the id, inserts are refused by their foreign key once the export is gone, deleting cascades
to files and audit rows but is refused for a scheduled export. Abstracted: contents and format of a file, list and detail
routes, and the handler's updates of `jobs` rows, which no export code reads. The model covers less than one cadence
period of one schedule.

### Uploads

| state | code |
| --- | --- |
| `type`, `rows`, `valid`, `start` | the file: CSV or PDF, its rows, which of them are valid, how the upload was started |
| `upload`, `file`, `mapping`, `object` | the `uploads` row with its statistics, `upload_files`, `upload_mappings`, the object |
| `runs[r]`, `errors[r]` | `parse_runs` rows and their `parse_errors` |
| `job[r]`, `proc[r][n]` | the BullMQ job of a run, and where its n-th processor stands |
| `req[c]`, `tick[t]` | a request or a cleanup tick between two calls |

`Start`, `InsertFile`, `Put`, `CompleteRequest`, `InsertMapping`, `InsertRun`, `SetUploadStatus`, `CheckDepth` and `Enqueue` are the way of an
upload into the queue, `Reprocess` another; deletion and `ReadStale`, `DeleteStale` are the two ways out. The parser
(`Fetch` to `CompleteUpload`, with `FailRun` and `FailUpload`) and the finalizer go row by row; `Crash` and `Stalled` repeat
them. Run numbers race: the unique index on upload and number is a guard.

### Contracts

| state | code |
| --- | --- |
| `doc`, `clauses`, `terms`, `overrides`, `readiness`, `items` | the document's row and what hangs on it, by version |
| `inserts` | how many term rows were inserted, which bounds a behaviour |
| `job`, `req` | the four kinds of jobs and the requests between two statements |
| `overlapped`, `broken` | history: two jobs were active at once; a statement failed |

Each processor reads the document, works statement by statement, and queues the next one; an error is caught and logged, so BullMQ
never retries but after a stall. What the extraction finds is any subset of the term types.

### Review, Digests

`Review`: `revwItems`, `revwReqs`, `revwSweeps`: rows, requests with what they ask, sweeps with the items they selected. A request reads and
then writes by id; the optimistic lock compares a column the table does not have. `Digests`: `digSub` (the subscription, its last period),
`digNow` (time in ticks), `digRuns`, `digJobs`, `digActors` (ticks and triggers), `digMailed`, and the history `digFaults`, `digOverlap`. A tick inserts a run and a job for a
subscription that is due; the job reads the last period, mails, and completes.

### Sync

`synProvider`, `synSource` (the provider's objects by date), `synConn`, `synCreds`, `synLogin` (PKCE state in Redis), `synCursor`,
`synStored` (batches), `synObjects` (the bucket), `synRuns`, `synActors`. A run lists pages as Salesforce's or Stripe's `syncObject`
does, stores each batch as an object and a row, and moves the cursor; requests start it, check health or delete the connection.

### Detection, Rules

`Detection`: `detFound` (what the configuration finds), `detRuns`, `detIssues` with sources, `detHistory`, `detAI` and `detPromoted`
(discoveries), `detJobs`, `detActors`. `Rules` is a pipeline of stages (`rulStep`) over a book (`rulBook`): the runner with its gates and suppressions,
25 rules, the deduplicator, the scorer; `rulFired`, `rulRaw` and `rulIssues` are what each of them leaves to the next.

### RevRec, RevRecJobs, SimEngine, Simulations

`RevRec` computes in integer cents, by days and months: obligations, allocation by stand-alone price, schedules, events, deferred balances,
and the reconciliation with invoices; each stage is a step, so that a property can be about any of them. `RevRecJobs` has the rows of the compute and
reconcile jobs (delete, insert, insert), two at a time. `SimEngine` applies one or two overrides to a small book as `engine.ts` does and
computes the deltas; `Simulations` is one simulation with its requests, runs, results and template.

### Identity

`idnBook` (customers), `idnRuns`, `idnCandidates`, `idnTasks`, `idnGroups` (with their `member_count`), `idnMembers`, `idnDecisions`, `idnSuppressed`, `idnActors`,
`idnJobs`. Blocking keys, features, the weighted score and the two thresholds are operators (`BlockingKeys`, `CandidatePairs`, `Features`, `Score`,
`Decide`). A resolve job goes `BeginResolve` ... `Complete`, an apply job `BeginApply` ... `EndApply`; merge and split are the
statements of `identity-apply.ts` in their order; `Throws` and `Dies` may come at any.

## Runs

The eight passing runs put together what shares its bounds: an MC module that is a *sum* declares the variables of several
modules and a `machine`; a behaviour is one of one module, and the variables of the others stay as they are. No action of
two modules is ever mixed, so the sum shows what a run of each alone would show.

| run | instance | question |
| --- | --- | --- |
| `Jobs_Issues` | the queue with 2 requests, 1 key, 2 jobs, 1 slot, 2 attempts; detection with 2 jobs, at most 3 runs, 2 requests, 2 keys, 1 death, and `FewActors`; symmetry | can racing requests and failures bind a key twice or answer 'duplicate' untruly, does it implement `KeyedJobs`; are runs whole and statuses explained when decisions and jobs race |
| `Queues` | 1 job, 2 slots, 3 attempts, 1 stall; 1 export, 1 job, 1 request, 1 tick, 1 stall; fair | bounded processing, records of a completed job, every queued job ends; a queued export settles |
| `Exports_Lifecycle` | 1 export, 2 jobs, 2 requests, 1 tick, no stall, symmetry | requests against each other and against runs |
| `Snapshots` | product, customer, contract, invoice with 2 lines in 2 batches, 2 attempts in turn; customer and invoice, 2 attempts at once, one of which may have failing statements; 4 customers in 3 books, 1 run, 3 jobs of 2 tries, 2 decisions | what retries lose, keep, repeat and undo; counts; whether merged customers stay what a run and the reviewers made of them |
| `Documents` | 1 document, 2 requests, 2 jobs, 1 stall, 2 insertions, 1 term type; 1 connection, 2 requests, 2 syncs, 2 records, 3 dates | terms and readiness, corrections against processing; cursors against a changing source |
| `Uploads` | 1 upload of 1 row, 2 requests, 1 tick, 2 parse runs, 1 attempt, 1 stall; a run is redelivered only where no other run is (`RepeatsAlone`) | requests, cleanup and redelivery against parsing |
| `Progress` | 1 subscription, 2 digest runs, 1 fault, a week and a cadence of 1 tick, time up to 2; 2 items, 3 reviewers, 2 sweeps of 1 item; one record of each of 6 types, pages of 2 and 4; fair | digests leave nothing out and complete; decisions stay and stuck items return; page loops end, and normalize leaves behind no more than its offset passes over |
| `Services` | 684 contracts; 2 revenue jobs; 1173 books of rules; 1332 choices of overrides; 1 simulation with 2 runs and 2 requests | whether allocations and schedules add up; planted leaks and what a report says; what an override may change, and that the order of overrides of one number does not matter; the rows that store it all |

Four more runs expect a violation; see the divergences below.

Why the bounds are enough. Two requests with one key, two slots, two attempts, two requests against one row and two
runs of one job are where the interleavings between two actors begin; a third adds repetitions of the same pairs,
since every conflict in this code is between two writers of one row. Three attempts and one stall are the code's own
numbers (runs with fewer attempts or no stall are those about requests, where the handler's retries only have to be possible; what they show of
safety is also proved, for any number of either).
Page sizes of 1, 2 and 4 over at most six records make full pages, short pages and a full last page. The records, books and
contracts are chosen around the thresholds of the code they are given to: dates on both sides of a period's edge, amounts that do not divide
evenly, scores of 70 and 90. Where an instance would still be too large, a `Bound` of the MC module says what does not
happen together (a second fault while two jobs run, a second sync that is repeated), and is named in its cfg as a
`CONSTRAINT`. `CHECK_DEADLOCK FALSE` is said everywhere: each instance has finitely many requests and attempts, and
stops when they are used up.

Fairness. `JobQueue`: a request in progress, a running handler, a free slot with a waiting job, and BullMQ's stalled check
go on. `Ingestion` (its one attempt in `MCProgress`): a running attempt goes on, and an attempt BullMQ owes is started. `Exports`: a waiting job is fetched, a
running handler goes on, and the stall of a *dead* run is noticed. `Digests`: ticks keep coming and their calls and a queued
run go on. `Review`: sweeps keep coming and items grow old. All of it is what the event loop, `setInterval` and BullMQ's timers do;
nobody is obliged to send a request, to lose a lock, to crash or to fail. It is weak fairness throughout.

## What is proved

`JobsIssues_proofs.tla`, about `JobQueue` and `Detection`. `JobQueue`, for every set of requests, keys, jobs and slots and every `MaxAttempts` and `MaxStalls`, from the
assumptions in `JobQueue.tla` (the absent values are none of the present ones; `MaxAttempts` is positive):

* `TypeCorrect`, `UniqueJob`, `DuplicatesAreHonest`: the invariants `TypeOK`, `OneJobPerKey` and `HonestDuplicate`.
* `Refinement`: `Spec => KeepsPromise`, the implementation of `KeyedJobs`.

None of them is inductive. That a key has one job depends on who claimed the key before there is a row (`KeyHeld`), which in
turn depends on no two requests having the same fresh id and no row existing before its request inserted it (`Owners`,
`Fresh`). That a duplicate names a job that ran needs that a slot about to settle a key has run its job, and that a
completed key names a row of its own (`KeyHonest`). Attempt counters stay in their type only because a job with
none left is neither waiting nor active (`Counters`). `IInv` is their conjunction; each part has a lemma saying
that a step preserves it, with a step per action. The refinement uses `IInv` at both ends of a step: `InsertJob` with a key
is `Bind`, `ProcessorReturns` is `Process` (or a stutter when the job had run before), `CheckKey` of a completed
key is `Tell` (or a stutter when the same was told before), everything else is a stutter.

`Exports_proofs.tla`, for every set of exports, jobs, requests and ticks and every `MaxStalls`, from the assumptions in
`Exports.tla`: all five safety properties its runs check.

* `TypeCorrect`, `Downloadable`, `AuditTrail`, `Unstranded`, `Deletion`: `TypeOK`, `CompletedIsDownloadable`,
  `AuditIsEarned`, `StuckHasACause`, `DeletedForGood`.

`IInv` says which export each actor and job is about and that it was inserted (`ActorsOwn`, `JobsOwn`, `OneQueuer`,
`OpsFit`); which runs BullMQ has not started (`Unstarted`), without which a fetch could overwrite a run; what the place a run
has reached implies (`Reached`: before it inserts its file the object is stored and its start announced; before it
completes its file is there, unless the export is gone); that a run with a verdict is past writing another (`OneVerdict`);
that nothing hangs on a missing export (`Bare`). The argument for `StuckHasACause` is the most delicate. Its own disjunction
is too weak to be kept, since a run on its way need not write a verdict any more. `NoneForgotten` therefore names for an unfinished export
only those who still will: an actor that is going to queue a job or has failed, a waiting or stalled-out job, a run that has not
reached its verdict or died before it. Each of them hands over to the next (`QueuerKept`, `JobKept`, `RunKept`), and whoever
makes an export unfinished is one of them (`Reopened`).

It also counts. `Overlaps`, `Bounded` and `Recorded` are `OverlapNeedsStall`, `BoundedProcessing` and
`CompletedJobIsRecorded` (the first is proved and in no run): cardinalities of sets of slots, so `RunsInv` also says which of these sets are finite: a job's handlers are no
more than its stalls and, while it is active, one; the processor's runs to the end, with those that may still come, are paid for by an
attempt, a stall or the active state. Each step moves one slot between these sets, and lemmas about adding and removing one element
carry the count.

`Uploads_proofs.tla`, for any requests, ticks, runs, rows, attempts and stalls: `Stranded` (`NothingStranded`), `Deletion`
(`DeletedForGood`), `Unbounded` (the numbers the module gives to a job's runs always suffice, so its bound stops nothing).
`IInv` has the shape of the rows, what BullMQ has counted (`Paid`), who is going to queue a run (`Queued`), that a run whose job
has ended is covered by a verdict or by a parser that lives on or died (`Covered`), and that with the upload all is gone
(`Nothing`). That an upload says `processing` for a reason (`ProcessingHasACause`) is kept with them. `Statistics` (`UploadsInv`) is about
the counts of the upload: `StatInv` says that what a finalizer has read was parsed and inserted, and that only a deletion takes that
back (`Accrues`). The counts are folds of the library over sets of runs; `SumAdds` proves by a least counterexample that such a fold
adds a member at a time, and comparisons of two sums follow from their members.

`Contracts_proofs.tla`: `TermsAreRight` (`TermsInv`), `ReadinessAtRest` (`ReadinessIsCurrent`) and `NothingIsReapplied`. `IInv` has
fifteen parts. It follows a correction from its request to its row and its flag: an override row is never moved to another term
(`OverridesStay`), because what a job kept in memory was deleted with the terms before they are inserted again
(`NothingToReapply`), and so what is flagged still has its correction. `ReadinessIsComing` says which job will compute the
readiness of the terms there are, and hands over from terms to readiness job.

`Detection`, in `JobsIssues_proofs.tla`: `IssuesAreExplained` (`IssuesInv`, four properties and the types). `IssuesIInv` adds which job works on which run
(`Worked`), that what a job has left to insert is all its run lacks (`InsertedBy`), that issues belong to runs with a row
(`Filed`), and what a request between two statements is about (`Asked`). Each step of a job is of one of eight kinds
(`ProcessKinds`), and the parts are proved per kind.

`Identity_proofs.tla`, about `Identity`, `Digests` and `Review`.

`IdentityIsRight` (`IdentityInv`: `CompletedIsWhole`, `ResolvedIsApplied`, `SuppressedIsRejected`, `CountsAreTrue`, `RunningHasACause` and the types), for any
customers, books, thresholds, runs, requests, jobs, tries that overlap and failures. Nothing of this is inductive, because merging and splitting pass
through states in which a group has lost its members and not yet its row, or has them and not yet its count. `IdnInv` says first where a try
may be (`Placed`) and that a group that was inserted is its try's alone until its rows are in (`Grouped`); both hold however tries overlap.
While no two tries apply decisions at once there is one at most (`Alone`), so it may rely on what it read of its two groups: which of them is empty,
how many members the other has (`Regrouped`). Every other group has its own count, and the groups it has in hand are the only ones it still has to
set right (`Counted`, `Unsettled`); when no try is under way there are none, which is `CountsAreTrue`. What a resolving try read it has done, has in hand or has
still to do (`Matched`), and the pairs it put together stay so under every statement of an apply job but a split of one of the two (`KeptStays`). The
status of a candidate and of a task says which decision was taken and how far it was applied (`Told`), from which `ResolvedIsApplied` follows
where the decisions on a pair are settled (`ToldIsApplied`).

About `Digests`: `NothingIsMissed` (`DigestsInv`). Two reasons carry it. What a job has read reaches back to a period that was
mailed (`Weekly`), whatever overlaps or fails; and while jobs do not overlap all between two completed periods is covered
(`Serial`). That nothing is mailed twice needs in addition that the run that completed last has the latest period (`Once`).
For `Review`, `Held` (`ReviewInv`) and `DecisionsAreKept` (the action property `DecisionsStay`), with `Asked`: a request about to write has
read its item, and a sweep never selected an item that was decided.

`Ingestion_proofs.tla`, for any records, references, batches, page sizes and attempts. `LinesAreOnce`, with the types, holds however attempts
overlap, though `invoice_lines` has no unique key: an attempt that writes lines under the id of a row inserted that row, and the row has
the lines before the one it is at (`OpenLines`). The others assume
`~MayStall`, attempts one after the other:

* `RowsAreRight` (`IngestionInv`), `NothingElseIsLost` (`LossesHaveACause`), `CountsAreTrue` (`CompleteIsAccurate`), `ProgressIsKept` (the action property
  `RetryKeepsProgress`).

With overlapping attempts they are not claimed (TLC checks what is left of them, `OverlapInv`). `IInv` says that an attempt acts alone
(`OneAtATime`); what a status and a verdict mean (`StatusInv`); that a page holds pending records only (`PageIsPending`); that a cached id is a row's, or a
ghost's whose row is from an earlier attempt (`LinksInv`: `CachedRows`, `MissesAreTrue`, `GhostsAreOld`), so that by `ReferenceOrder` a clean attempt finds
every row it links to; and that the types taken so far have all their rows and lines, or a cause (`UpsertInv`: `TakenOnce`,
`SettledSoFar`, `LinesSoFar`), for upserts of one page.

`Sync_proofs.tla`, for any records, dates, runs, requests, pages and provider: `SyncIsCovered` (`SyncInv`: `CursorCovers`, `FullSyncIsFull`,
`BatchesHaveObjects`, `RunningHasACause` and the types). That a cursor covers what is stored is nothing a step of a run could keep by
itself: what it will have stored when it saves the cursor depends on where it is in the list. `IInv` says for every run that each date it
holds is one a later change exceeds (`RunDates`), that its page names what is uploaded and, once inserted, stored (`RunPage`), that
for Salesforce everything present up to its `since` is stored and up to its page's dates stored or on the page (`RunCovers`), and for a
full sync of Stripe the same downwards from the newest (`RunFull`). A step of one run leaves the source alone and only adds to what is stored,
so it keeps what every other run relies on (`Grows`, `OtherRuns`); a change of the source has a date above all of them.

`Services_proofs.tla`, about `Simulations` and `RevRecJobs`, the jobs that store what the engines compute, and about the engines, `RevRec`, `SimEngine` and `Rules`.

* `SimulationIsRight` (`SimulationInv`: `CompletedIsWhole`, `ResultsAreCurrent`, `WaitingHasACause` and the types), for any requests, overrides, runs and
  failures. `IInv` says what of a simulation is whose. A run is queued by the request that inserted it, once, and by then
  the draft is closed or `simLate` says that somebody still writes to it (`Queued`, `Sealed`). One of the tries of its job inserts the
  result, and that one the deltas (`RunShape`), because the unique index on the run refuses the other. Without a failure what is pending waits for a
  request about to queue or for the job (`PendingIsAwaited`, `Awaited`).
* `RevenueIsRight` (`RevenueInv`: `RecognizedOnce`, `WholeOrFailed`, `ReconciledOnce` and the types), for any jobs, versions, obligations, tables and periods.
  The properties are about jobs of which none overlapped, or nothing failed, so `JobsInv` says where the one
  busy job stands among the rows of its contract, while none overlaps it (`Own`), and that at rest what there is is whole, while
  nothing fails (`Tidy`).
* `ScheduleIsRight` (`ScheduleInv`: `AllocationAddsUp`, `PeriodsTile`, `ScheduleIsEven`, `BalancesRollForward`, `NothingLeftOut` and the types), for any
  prices, days, calendar of months, obligations and invoices. The invariant (`ScheduleIInv`) is the easy part: each step keeps what is computed from the steps
  before it. What that comes to is arithmetic on sums over finite sets, whose laws are proved first by adding a member at a time
  (`MemberByMember`): sums are linear, bounded by their members, the same over a set mapped one to one (`SumMap`) and the sum of the sums of
  its parts (`SumParts`). Every rounded amount is within half a cent of its share (`Rounding`), so what is left for the last is within the
  sum of the others' (`ProportionalIsFair`, `ResidualIsFair`, `SharesAddUp`). Each day of the service is in a period
  because the first day of its month's part is a start (`DaysAreCovered`), in no other because an end of a month is its own
  (`PeriodsAreDisjoint`); counting days by period gives that the periods are as long as the service (`LengthsAddUp`). Counting events by
  the day a period ends gives the balances (`LastBalance`), counting periods and invoices by their key the reconciliation (`CountedOnce`).
* `WhatIfIsRight` (`WhatIfInv`: `DeltasAddUp`, `LastSetStands`), for any books and any sequence of overrides. The rows sorted by number and place are the one
  function that `Sorted` chooses: there is one, because some row comes after all others (`LastRow`, `RowsCanBeOrdered`), and it leaves no row out
  (`OrderedIsOnto`). `WhatIfIInv` says that of the accepted overrides, in that order, the first `n` are applied (`AppliedTo`), that what each of them set
  stands unless a later one changes it (`StandsAfter`, from `Effect`: what one override may change), and that only applied overrides have
  changed the copy (`ChangesAreApplied`). The deltas then add up because contracts without a delta add nothing (`SumOfNonzero`).
* `ReportIsRight` (`ReportInv`: `OneIssuePerKey`, `NothingSilenced`), for any book: any contracts, invoices, prior issues and rules that throw or are gated. What holds
  the report together is what a key tells. `IsIssue`, proved rule by rule for the 25 rules (`RulesRaise`), says that the key of an issue fixes its contract
  (`Keyed`) and its severity (`Level`: R006 alone raises two, of different keys), and for R002 to R005 the customer and invoice (`Billed`). So of the issues of one
  key the most certain is also the most severe (`BestIsThere`, without it a severe and doubtful issue could hide a certain one), the one kept is about the same contract as
  those it stands for (`KeyOfContract`), what a more specific issue suppresses is explained by that issue, which nothing
  suppresses (`SuppressionIsExplained`), and scoring only raises (`ScoreRaises`). `RulInv` carries these facts from the runner to the deduplicator and the scorer.

Assumptions on constants are named where they are declared: `AbsentValues`, `AttemptBounds` (`JobQueue`); `Absent`, `Stalls` (`Exports`); `Absent`, `Sizes`
(`Uploads`); `Absent`, `Bounds` (`Contracts`); `NoRow` (`DetectionState`); `DigestAssumption`, `ReviewAssumption`, `SyncAssumption`, `RevRecAssumption`, `SimAssumption`, `ScheduleAssumption`, `WhatIfAssumption`, `IdentityAssumption`, `RulesAssumption`; `TypeOrder`, `RecordShape`, `ReferenceOrder`, `BatchShape`,
`Limits` (`Ingestion`). They say that absent values are none of the present ones, that bounds are numbers, and, in `Ingestion`, how records may
name each other and, in `ScheduleState`, that a month ends on a day of its own; `Sizes`, `ScheduleAssumption`, `WhatIfAssumption` and `IdentityAssumption` also say that runs, invoices, rows of a book and customers are finitely many, and `WhatIfAssumption` that the rows of a book have amounts and days or nothing, and that a shift of dates names one of the two dates; `RulesAssumption` says that no two contracts and no two invoices of a book have one id. TLC evaluates them for the instances.

Only model-checked:

* `LeaksInv`: that the rules find what is planted in the books TLC enumerates, and nothing else. It is about those books, and the amounts in it go
  through sequences that are filtered and sorted (`SelectSeq`, `SetToSortSeq`), which is induction over data.
* `OverlapInv`, whose part about lines `LinesAreOnce` proves; `LeftBehindIsBounded`, which counts the pages of a loop; and `OrderDoesNotMatter`, which
  compares two folds over sequences.
* Liveness: `QueuedJobsSettle`, `ExportsSettle`, `DigestsComplete`, `StuckItemsReturn`, `AttemptEnds`. The proof system does not treat it.

## Where code and documents disagree

With a run that shows it:

* `Ingestion_Rerun` - a retry in which nothing fails loses records that refer to rows of the attempt before,
  while `docs/ingestion.md:160` says it resumes.
* `Contracts_Corrections` - an extraction deletes a term with its correction (`ON DELETE CASCADE`), then fails on the foreign
  key of the term that refers to it (`contracts-terms.ts:194`).
* `Detection_Replay` - a replay of a run that found an issue fails at that issue, whose key is unique in the snapshot
  (`detect-run.ts:245`).
* `Rules_Missing` - R001 misses a missing invoice when the service period of the next one starts on the day the missing one's billing period ends, which
  is the day the next period starts (`billing/index.ts:63-67`, `docs/detection-rules.md:81`).

Met while modelling, and visible in the models without a run of their own:

* Jobs. A key left `pending` by a request that failed after inserting it answers "Job is already being processed" for ever
  (`routes/admin/jobs.ts:45`). `expires_at` of a key is written and never read (`routes/admin/jobs.ts:30`,
  `docs/architecture.md:171`), and a job can be processed more than once (`worker.ts:353`, `docs/architecture.md:161`).
* Ingestion. Normalize pages by OFFSET through a set that its own updates shrink, and leaves records pending, up to half of those staged (`PassedOver`); paging by OFFSET over rows of one
  `received_at` may repeat a record and skip another (`OnePage`). `price_plans` has no
  unique index that the conflict clause of its insert could use, so no price plan is ever inserted (`ingest-upsert.ts:595`,
  `docs/ingestion.md:98`). Load sets `building` on a snapshot in any status (`ingest-load.ts:62`, `docs/canonical-model.md:9`).
* Exports. Nothing ever completes an `export_runs` row, so every tick, one a minute, exports a schedule again. A run completes an
  export that was cancelled while it was processing. An export whose worker died for good stays `processing`, and regenerate
  answers 409 (`routes/exports/index.ts:336`). Audit rows of an export are deleted with it. The retry policies the worker
  declares for export queues are used by nobody.
* Uploads. A 429 comes after the mapping was inserted, and the second `complete` is refused by its unique index
  (`routes/uploads/index.ts:120`).
* Sync. An incremental Stripe sync asks for objects created since its cursor *and* starting after the last object of the last page, and
  gets nothing new (`docs/Cogtics_Phase_1_Implementation_Plan.md:118`). Salesforce's LIMIT bounds the whole query. A failing
  object type is logged and the run `completed`.
* Contracts. A reprocess that is not forced sets `extracting`, which segment never resets: the next one answers 409. The processors
  swallow their errors, so a failed job is recorded as completed and never retried.
* Review. The optimistic lock never compares (`review.ts:250`); assign reopens a resolved item; escalate throws (`db.raw`); resolving
  a conflict always fails; the sweep asks for the age of the item where its comment says in review for 24 hours (`scheduler.ts:173`).
* Digests. While a run is under way every tick finds the subscription due again; failed mails are counted, but the period moves on. A first
  digest that overlaps another, or fails for more than a week, reaches back one week and no further (`NoGap` says so).
* Rules. Amounts arrive as strings (pg's NUMERIC), so sums of more than one are concatenations: R014, R111, R113 never fire. R062 is
  skipped on all contracts once R061 fired anywhere, R002 and R003 are suppressed by R004 and R005 of any contract of the customer.
* Revenue. The daily rate divides by exclusive days while periods count both ends ("evenly", `schedules.ts:78`); the last share of a residual
  is not the remainder; reconciliation calls any difference under $100 matched.
* Simulations. `sequence` defaults to 0, so the order of overrides is the database's, and with it the result where two of them are of one row, while
  `docs/production-readiness-test-plan.md:91` asks for determinism. A run in progress does not refuse a second one, because no code sets
  `running` on a simulation. A redelivered completed run becomes `failed`.
* Identity. `fastify.queue` is decorated by no plugin, so `POST /identity/trigger` and `/identity/decisions` throw after their insert
  (`routes/identity/index.ts:178`, `:366`); jobs come from `POST /admin/jobs/enqueue`. A retried run inserts identities again. A merge of
  customers in more than two groups does nothing and yet resolves the task. Two workers that merge in opposite directions at once delete
  both groups' members.

## What the properties leave out

Where the code has nothing against a hazard, no invariant about it holds, and the property that comes nearest excuses it by name: two attempts at
once (`MayStall`, in `Snapshots` only for lines), jobs or computations that overlap (`overlapped`, `digOverlap`, `revFaults`, `idnOverlap`), a failed
statement or a dead worker (`broken`, `clean`, the counters of faults), a request that acts on a status it read before (`simLate`), an
issue of another contract that hides one (`Explained`). The properties then say that nothing else breaks what they promise. The hazards in
`PROJECT.json` carry a note where this leaves them without a property or with half of one: transitions of issues nobody made
(`routes/issues/index.ts:253`) and readiness computed during an extraction (`contracts-readiness.ts:86`) have none.

## Not modelled, and why

* *Evidence packs, replay*: the routes insert `jobs` rows and queue nothing (`routes/admin/replay.ts:238`); the processors
  insert evidence rows that no modelled state depends on.
* *Dead letters*: nothing calls `moveToDeadLetterQueue`, so there never is a dead letter to requeue or discard.
* *Webhooks*: verify a signature, log the event, and change nothing.
* *Contract algorithms* (`packages/utils/src/contracts`): regular expressions over prose; precedence and validation are called by no processor.
* *LLM client, prompts, cost tracking*: answers of a model are data to the rest, any of which the models allow.
* *Authentication, roles, tenants*: checks of single requests and row level security; every module is about one tenant and a
  permitted caller.
* *Database schema*: its unique indexes, foreign keys and cascades are guards of the actions that meet them. *Schemas, telemetry, tools* have no
  behaviour of their own here.
* *Web application*: a client; its requests are those the modules enumerate. It is, with generated types and API wrappers, the larger part of the
  repository's lines, which is why the map covers a small share of them.
* Of modelled components: rules R015, R063, R112, R161 and the rules of the other tiers, the preprocessor, similarity of names, row
  schemas, PDF text extraction, list and detail routes. `PROJECT.json` has a note for each.
