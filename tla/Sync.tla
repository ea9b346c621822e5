-------------------------------- MODULE Sync --------------------------------
(***************************************************************************)
(* One connection to a provider (routes/connections), its sync jobs        *)
(* (processors/sync.ts) and the pages its connector fetches (packages/     *)
(* connectors), for one type of object.  The worker wraps and retries the  *)
(* processor as JobQueue says; a retry is counted here, the jobs row is    *)
(* left out.                                                               *)
(*                                                                         *)
(* The source holds records with the date of their last change, all        *)
(* different.  Salesforce changes and adds records and is read by date;    *)
(* Stripe's lists are by creation, newest first, and its records do not    *)
(* change their place.                                                     *)
(***************************************************************************)
EXTENDS SyncState, FiniteSetsExt

conn == <<synConn, synCreds, synLogin>>
data == <<synCursor, synStored, synObjects>>
source == <<synProvider, synSource>>

(***************************************************************************)
(* Pages of the source                                                     *)
(***************************************************************************)
Dates(xs) == {synSource[x] : x \in xs}

\* SOQL: changed after the cursor, oldest first, LIMIT batchSize.
SalesforcePage(since) ==
  LET changed == {x \in Present : synSource[x] > since}
  IN  {x \in changed : Cardinality({y \in changed : synSource[y] < synSource[x]}) < PageSize}

\* starting_after and created[gte], newest first, limit batchSize.
StripeList(after, since) ==
  {x \in Present : /\ since <= synSource[x]
                   /\ after # None => synSource[x] < synSource[after]}
StripePage(after, since) ==
  LET list == StripeList(after, since)
  IN  {x \in list : Cardinality({y \in list : synSource[y] > synSource[x]}) < PageSize}

\* The source goes on changing: Salesforce's records are created and modified,
\* Stripe's are created.
Change(x) ==
  /\ synProvider = "stripe" => synSource[x] = 0
  /\ Max(Dates(Records)) < MaxDate
  /\ synSource' = [synSource EXCEPT ![x] = Max(Dates(Records)) + 1]
  /\ UNCHANGED <<synProvider, conn, data, synRuns, synActors, synDeaths>>

(***************************************************************************)
(* The routes                                                              *)
(***************************************************************************)
Idle == [op |-> "none", at |-> "idle", run |-> None, healthy |-> FALSE]

Go(a, changes) == synActors' = [synActors EXCEPT ![a] = changes]
Answered(a) == Go(a, [Idle EXCEPT !.at = "done"])

\* POST or GET /:provider/callback: Salesforce's verifier is read from Redis and
\* deleted, and the code, which the provider takes once, is exchanged.
ReadVerifier(a) ==
  /\ synActors[a].at = "idle" /\ synConn = "none"
  /\ synProvider = "salesforce" => synLogin.verifier
  /\ Go(a, [Idle EXCEPT !.op = "callback",
                        !.at = IF synProvider = "salesforce" THEN "verifier" ELSE "exchange"])
  /\ UNCHANGED <<source, conn, data, synRuns, synDeaths>>

DeleteVerifier(a) ==
  /\ synActors[a].at = "verifier"
  /\ synLogin' = [synLogin EXCEPT !.verifier = FALSE]
  /\ Go(a, [synActors[a] EXCEPT !.at = "exchange"])
  /\ UNCHANGED <<source, synConn, synCreds, data, synRuns, synDeaths>>

Exchange(a) ==
  /\ synActors[a].at = "exchange" /\ synLogin.code
  /\ synLogin' = [synLogin EXCEPT !.code = FALSE]
  /\ Go(a, [synActors[a] EXCEPT !.at = "insertConn"])
  /\ UNCHANGED <<source, synConn, synCreds, data, synRuns, synDeaths>>

\* POST /stripe/api-key tries the key, then inserts as the callback does.
GiveApiKey(a) ==
  /\ synActors[a].at = "idle" /\ synConn = "none" /\ synProvider = "stripe"
  /\ \A b \in SyncActors : synActors[b].at # "insertConn"
  /\ Go(a, [Idle EXCEPT !.op = "key", !.at = "insertConn"])
  /\ UNCHANGED <<source, conn, data, synRuns, synDeaths>>

InsertConn(a) ==
  /\ synActors[a].at = "insertConn" /\ synConn = "none"
  /\ synConn' = "connected"
  /\ Go(a, [synActors[a] EXCEPT !.at = "insertCreds"])
  /\ UNCHANGED <<source, synCreds, synLogin, data, synRuns, synDeaths>>

InsertCreds(a) ==
  /\ synActors[a].at = "insertCreds" /\ Connected
  /\ synCreds' = TRUE
  /\ Answered(a)
  /\ UNCHANGED <<source, synConn, synLogin, data, synRuns, synDeaths>>

\* POST /:id/sync asks for a connection that is connected, and inserts the job
\* and the run, 'running' before anything runs.
AskSync(a) ==
  /\ synActors[a].at = "idle" /\ synConn = "connected"
  /\ Go(a, [Idle EXCEPT !.op = "sync", !.at = "insertRun"])
  /\ UNCHANGED <<source, conn, data, synRuns, synDeaths>>

InsertRun(a) ==
  /\ synActors[a].at = "insertRun" /\ Connected
  /\ \E r \in SyncRuns, full \in BOOLEAN :
       /\ synRuns[r].status = "none"
       /\ synRuns' = [synRuns EXCEPT ![r].status = "running", ![r].full = full]
       /\ Go(a, [synActors[a] EXCEPT !.at = "enqueue", !.run = r])
  /\ UNCHANGED <<source, conn, data, synDeaths>>

EnqueueSync(a) ==
  /\ synActors[a].at = "enqueue"
  /\ synRuns' = [synRuns EXCEPT ![synActors[a].run].at = "waiting"]
  /\ Answered(a)
  /\ UNCHANGED <<source, conn, data, synDeaths>>

\* POST /:id/health reads connection and credentials and asks the provider, then
\* sets the status by id.
AskHealth(a) ==
  /\ synActors[a].at = "idle" /\ Connected /\ synCreds
  /\ \E healthy \in BOOLEAN : Go(a, [Idle EXCEPT !.op = "health", !.at = "setHealth",
                                                 !.healthy = healthy])
  /\ UNCHANGED <<source, conn, data, synRuns, synDeaths>>

SetHealth(a) ==
  /\ synActors[a].at = "setHealth"
  /\ synConn' = IF ~Connected THEN synConn
                ELSE IF synActors[a].healthy THEN "connected" ELSE "error"
  /\ Answered(a)
  /\ UNCHANGED <<source, synCreds, synLogin, data, synRuns, synDeaths>>

\* DELETE /:id cascades to credentials, cursors, runs and raw batches; the bucket
\* keeps its objects and the queue its jobs.
DeleteConn(a) ==
  /\ synActors[a].at = "idle" /\ Connected
  /\ synConn' = "gone" /\ synCreds' = FALSE
  /\ synCursor' = None /\ synStored' = {}
  /\ synRuns' = [r \in SyncRuns |-> [synRuns[r] EXCEPT
                   !.status = IF @ = "none" THEN @ ELSE "gone"]]
  /\ Answered(a)
  /\ UNCHANGED <<source, synLogin, synObjects, synDeaths>>

\* A statement fails, a code is refused, a foreign key is missing.
RequestFails(a) ==
  /\ synActors[a].at \notin {"idle", "done"}
  /\ synRuns' = IF synActors[a].at = "enqueue"
                THEN [synRuns EXCEPT ![synActors[a].run].hurt = TRUE] ELSE synRuns
  /\ Answered(a)
  /\ UNCHANGED <<source, conn, data, synDeaths>>

(***************************************************************************)
(* The processor                                                           *)
(***************************************************************************)
NoJob == [status |-> "none", full |-> FALSE, at |-> "none", tries |-> 0,
          since |-> 0, last |-> None, page |-> {}, more |-> FALSE,
          saw |-> {}, whole |-> TRUE, hurt |-> FALSE]

Move(r, changes) == synRuns' = [synRuns EXCEPT ![r] = changes]

\* What the processor holds between two attempts.
Reset(run) == [run EXCEPT !.since = 0, !.last = None, !.page = {}, !.more = FALSE]
Ended(run) == [NoJob EXCEPT !.at = "ended", !.status = run.status, !.hurt = run.hurt]

Take(r) ==
  /\ synRuns[r].at = "waiting"
  /\ Move(r, [synRuns[r] EXCEPT
             !.at = "load", !.tries = @ + 1, !.whole = TRUE,
             !.saw = IF synProvider = "stripe" /\ synRuns[r].full THEN Present ELSE {}])
  /\ UNCHANGED <<source, conn, data, synActors, synDeaths>>

\* The connection and its credentials, without which the job fails.
LoadConnection(r) ==
  /\ synRuns[r].at = "load"
  /\ Move(r, [synRuns[r] EXCEPT !.at = IF Connected /\ synCreds THEN "cursor" ELSE "fail"])
  /\ UNCHANGED <<source, conn, data, synActors, synDeaths>>

\* Only an incremental run reads the cursor.
LoadCursor(r) ==
  /\ synRuns[r].at = "cursor"
  /\ Move(r, IF synRuns[r].full \/ synCursor = None
             THEN [synRuns[r] EXCEPT !.at = "fetch"]
             ELSE [synRuns[r] EXCEPT !.at = "fetch", !.since = synCursor.since,
                                     !.last = synCursor.last])
  /\ UNCHANGED <<source, conn, data, synActors, synDeaths>>

\* A mutant of Fetched: Salesforce's newest records come first.
FetchedNewestFirst(run) ==
  IF synProvider = "salesforce"
  THEN LET changed == {x \in Present : synSource[x] > run.since}
       IN  {x \in changed : Cardinality({y \in changed : synSource[y] > synSource[x]}) < PageSize}
  ELSE StripePage(run.last, run.since)

Fetched(run) ==
  IF synProvider = "salesforce" THEN SalesforcePage(run.since)
  ELSE StripePage(run.last, run.since)

\* syncObject asks for the next page; an empty one ends the object.
Fetch(r) ==
  LET page == Fetched(synRuns[r]) IN
  /\ synRuns[r].at = "fetch"
  /\ Move(r, IF page = {}
             THEN [Reset(synRuns[r]) EXCEPT !.at = "complete"]
             ELSE [synRuns[r] EXCEPT
                     !.at = "upload", !.page = {Version(x) : x \in page},
                     !.more = /\ synProvider = "stripe"
                              /\ StripeList(synRuns[r].last, synRuns[r].since) # page])
  /\ UNCHANGED <<source, conn, data, synActors, synDeaths>>

\* processBatch: the object, then its raw_batches row.
Upload(r) ==
  /\ synRuns[r].at = "upload"
  /\ synObjects' = synObjects \cup synRuns[r].page
  /\ Move(r, [synRuns[r] EXCEPT !.at = "insert"])
  /\ UNCHANGED <<source, conn, synCursor, synStored, synActors, synDeaths>>

InsertBatch(r) ==
  /\ synRuns[r].at = "insert" /\ Connected
  /\ synStored' = synStored \cup synRuns[r].page
  /\ Move(r, [synRuns[r] EXCEPT !.at = "save"])
  /\ UNCHANGED <<source, conn, synCursor, synObjects, synActors, synDeaths>>

\* The cursor of a page: its latest date; for Stripe its last record, and a date
\* no earlier than the cursor's the run began with.
CursorOf(run) ==
  LET dates == {v.date : v \in run.page}
      oldest == CHOOSE v \in run.page : v.date = Min(dates)
  IN  IF synProvider = "salesforce" THEN [since |-> Max(dates), last |-> None]
      ELSE [since |-> Max(dates \cup {run.since}), last |-> oldest.x]

\* upsertCursor after each batch.  The next page starts after the last record;
\* Salesforce's query is over, since its LIMIT bounds the result and not a page.
SaveCursor(r) ==
  LET run == synRuns[r] IN
  /\ run.at = "save" /\ Connected
  /\ synCursor' = CursorOf(run)
  /\ Move(r, IF run.more
             THEN [run EXCEPT !.at = "fetch", !.page = {}, !.last = CursorOf(run).last]
             ELSE [Reset(run) EXCEPT !.at = "complete"])
  /\ UNCHANGED <<source, conn, synStored, synObjects, synActors, synDeaths>>

\* Whatever fails for an object is logged, and the run goes on without it.
ObjectFails(r) ==
  /\ synRuns[r].at \in InObject
  /\ Move(r, [Reset(synRuns[r]) EXCEPT !.at = "complete", !.whole = FALSE])
  /\ UNCHANGED <<source, conn, data, synActors, synDeaths>>

SetStatus(r, status, at) ==
  Move(r, [synRuns[r] EXCEPT !.at = at,
             !.status = IF @ \in {"none", "gone"} THEN @ ELSE status])

CompleteRun(r) ==
  /\ synRuns[r].at = "complete"
  /\ SetStatus(r, "completed", "connected")
  /\ UNCHANGED <<source, conn, data, synActors, synDeaths>>

CompleteConn(r) ==
  /\ synRuns[r].at = "connected"
  /\ synConn' = IF Connected THEN "connected" ELSE synConn
  /\ Move(r, Ended(synRuns[r]))
  /\ UNCHANGED <<source, synCreds, synLogin, data, synActors, synDeaths>>

\* A statement outside the loop over the objects fails.
Throws(r) ==
  /\ synRuns[r].at \in InTry \ InObject
  /\ Move(r, [synRuns[r] EXCEPT !.at = "fail"])
  /\ UNCHANGED <<source, conn, data, synActors, synDeaths>>

\* A mutant of FailRun: the run is left to the next attempt.
FailRunQuietly(r) ==
  /\ synRuns[r].at = "fail"
  /\ Move(r, [synRuns[r] EXCEPT !.at = "error"])
  /\ UNCHANGED <<source, conn, data, synActors, synDeaths>>

FailRun(r) ==
  /\ synRuns[r].at = "fail"
  /\ SetStatus(r, "failed", "error")
  /\ UNCHANGED <<source, conn, data, synActors, synDeaths>>

\* BullMQ tries again what throws.
Rethrown(run) == IF run.tries < MaxTries
                 THEN [Reset(run) EXCEPT !.at = "waiting", !.whole = TRUE, !.saw = {}]
                 ELSE Ended(run)

FailConn(r) ==
  /\ synRuns[r].at = "error"
  /\ synConn' = IF Connected THEN "error" ELSE synConn
  /\ Move(r, Rethrown(synRuns[r]))
  /\ UNCHANGED <<source, synCreds, synLogin, data, synActors, synDeaths>>

\* A statement of the catch block fails: what follows it is not done.
CatchFails(r) ==
  /\ synRuns[r].at \in {"fail", "error"}
  /\ Move(r, [Rethrown(synRuns[r]) EXCEPT !.hurt = TRUE])
  /\ UNCHANGED <<source, conn, data, synActors, synDeaths>>

\* The worker dies; a job that stalls is run again once.
Dies(r) ==
  /\ synRuns[r].at \in Active /\ synDeaths < MaxDeaths
  /\ synDeaths' = synDeaths + 1
  /\ Move(r, [Rethrown(synRuns[r]) EXCEPT !.hurt = TRUE])
  /\ UNCHANGED <<source, conn, data, synActors>>

(***************************************************************************)
(* The specification                                                       *)
(***************************************************************************)
\* A login is under way and there is no connection yet, or there is one that has
\* not been synced.  The source has some records.
Init ==
  /\ synProvider \in {"salesforce", "stripe"}
  /\ synSource \in
       {f \in [Records -> 0..Cardinality(Records)] :
          /\ \A x, y \in Records : f[x] = f[y] /\ x # y => f[x] = 0
          /\ \A x \in Records : \A d \in 1..f[x] : \E y \in Records : f[y] = d}
  /\ \/ synConn = "none" /\ synCreds = FALSE /\ synLogin = [verifier |-> TRUE, code |-> TRUE]
     \/ synConn = "connected" /\ synCreds = TRUE
        /\ synLogin = [verifier |-> FALSE, code |-> FALSE]
  /\ synCursor = None /\ synStored = {} /\ synObjects = {}
  /\ synRuns = [r \in SyncRuns |-> NoJob]
  /\ synActors = [a \in SyncActors |-> Idle]
  /\ synDeaths = 0

Request(a) ==
  \/ ReadVerifier(a) \/ DeleteVerifier(a) \/ Exchange(a) \/ GiveApiKey(a)
  \/ InsertConn(a) \/ InsertCreds(a)
  \/ AskSync(a) \/ InsertRun(a) \/ EnqueueSync(a)
  \/ AskHealth(a) \/ SetHealth(a) \/ DeleteConn(a) \/ RequestFails(a)

Process(r) ==
  \/ Take(r) \/ LoadConnection(r) \/ LoadCursor(r) \/ Fetch(r) \/ Upload(r)
  \/ InsertBatch(r) \/ SaveCursor(r) \/ ObjectFails(r)
  \/ CompleteRun(r) \/ CompleteConn(r) \/ Throws(r) \/ FailRun(r) \/ FailConn(r)
  \/ CatchFails(r) \/ Dies(r)

Next ==
  \/ \E x \in Records : Change(x)
  \/ \E a \in SyncActors : Request(a)
  \/ \E r \in SyncRuns : Process(r)

Spec == Init /\ [][Next]_syncVars
=============================================================================
