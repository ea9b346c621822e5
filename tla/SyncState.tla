----------------------------- MODULE SyncState -----------------------------
(***************************************************************************)
(* What Sync keeps, and what it promises: the rows of one connection, its  *)
(* cursor, runs and raw batches, the bucket, the jobs and requests at work *)
(* on them, and the invariants.                                            *)
(***************************************************************************)
EXTENDS Naturals, FiniteSets

CONSTANTS
  SyncRuns,      \* connector_runs the route may insert, each with its job
  SyncActors,    \* requests
  Records, None, \* records of the source; none
  MaxDate,       \* bound on the changes of the source
  PageSize,      \* batchSize
  MaxTries,      \* attempts of a sync job
  MaxDeaths      \* workers that die

ASSUME SyncAssumption ==
  /\ IsFiniteSet(Records) /\ None \notin Records
  /\ MaxDate \in Nat /\ Cardinality(Records) <= MaxDate
  /\ PageSize \in Nat \ {0} /\ MaxTries \in Nat \ {0} /\ MaxDeaths \in Nat

VARIABLES
  synProvider,  \* which connector
  synSource,    \* synSource[x]: the date of record x, 0 before it exists
  synConn,      \* the connections row
  synCreds,     \* whether it has a connection_credentials row
  synLogin,     \* the login that created it: its verifier and the provider's code
  synCursor,    \* the connector_cursors row: [since, last], or None
  synStored,    \* versions [x, date] in objects that a raw_batches row names
  synObjects,   \* versions in objects of the bucket
  synRuns,      \* the runs with their jobs
  synActors,    \* the requests
  synDeaths     \* how many workers died

syncVars == <<synProvider, synSource, synConn, synCreds, synLogin, synCursor, synStored,
              synObjects, synRuns, synActors, synDeaths>>

Versions == [x : Records, date : 1..MaxDate]
Cursor == [since : 0..MaxDate, last : Records \cup {None}]
Present == {x \in Records : synSource[x] > 0}
Version(x) == [x |-> x, date |-> synSource[x]]
Connected == synConn \in {"connected", "error"}

(***************************************************************************)
(* Properties                                                              *)
(***************************************************************************)
\* Where a job is in the loop over the objects, in the try block around it, and in all.
InObject == {"cursor", "fetch", "upload", "insert", "save"}
InTry == {"load", "complete", "connected"} \cup InObject
Active == InTry \cup {"fail", "error"}

SyncRun == [status : {"none", "running", "completed", "failed", "gone"}, full : BOOLEAN,
            at : {"none", "waiting", "ended"} \cup Active, tries : 0..MaxTries,
            since : 0..MaxDate, last : Records \cup {None}, page : SUBSET Versions,
            more : BOOLEAN, saw : SUBSET Records, whole : BOOLEAN, hurt : BOOLEAN]
SyncActor == [op : {"none", "callback", "key", "sync", "health"},
              at : {"idle", "verifier", "exchange", "insertConn", "insertCreds", "insertRun",
                    "enqueue", "setHealth", "done"},
              run : SyncRuns \cup {None}, healthy : BOOLEAN]

SyncTypeOK ==
  /\ synProvider \in {"salesforce", "stripe"}
  /\ synSource \in [Records -> 0..MaxDate]
  /\ synConn \in {"none", "connected", "error", "gone"} /\ synCreds \in BOOLEAN
  /\ synLogin \in [verifier : BOOLEAN, code : BOOLEAN]
  /\ synCursor \in {None} \cup Cursor
  /\ synStored \subseteq Versions /\ synObjects \subseteq Versions
  /\ synRuns \in [SyncRuns -> SyncRun] /\ synActors \in [SyncActors -> SyncActor]
  /\ synDeaths \in 0..MaxDeaths

\* The cursor of a Salesforce connection never passes what is not stored: every
\* record last changed at or before it is in a raw batch as it is now, whatever
\* full and incremental runs overlap, fail or are repeated, while the records
\* change.  (With two records of one date a page that ends between them breaks
\* this: the next query asks for later ones.)
CursorCovers ==
  synProvider = "salesforce" /\ synCursor # None =>
    \A x \in Present : synSource[x] <= synCursor.since => Version(x) \in synStored

\* A full sync of Stripe that completes with no object failing has stored all
\* that there was when it began, though records are added while it pages.
FullSyncIsFull ==
  \A r \in SyncRuns :
    /\ synProvider = "stripe" /\ Connected
    /\ synRuns[r].full /\ synRuns[r].whole /\ synRuns[r].at = "connected"
    => \A x \in synRuns[r].saw : Version(x) \in synStored

\* A raw_batches row names an object that is in the bucket.
BatchesHaveObjects == synStored \subseteq synObjects

Enqueues(a, r) == synActors[a].at = "enqueue" /\ synActors[a].run = r

\* A run is left 'running' only if its request failed before it was queued, a
\* worker died or the catch block failed.
RunningHasACause ==
  \A r \in SyncRuns :
    /\ synRuns[r].status = "running" /\ synRuns[r].at \in {"none", "ended"}
    /\ \A a \in SyncActors : ~Enqueues(a, r)
    => synRuns[r].hurt

\* Types; a cursor covers what is stored, a full sync is full, a batch has its
\* object, a run left 'running' has a cause (processConnectorSync, the
\* connectors' syncObject, the connection routes).
SyncInv ==
  SyncTypeOK /\ CursorCovers /\ FullSyncIsFull /\ BatchesHaveObjects /\ RunningHasACause
=============================================================================
