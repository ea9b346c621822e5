----------------------------- MODULE Detection -----------------------------
(***************************************************************************)
(* Detection runs and replays of one snapshot (processors/detect-run,      *)
(* detect-replay), the issues they insert, the decisions on issues         *)
(* (routes/issues) and on what the AI discovers (routes/issues/            *)
(* ai-discoveries).  The rules themselves are in Rules: here a             *)
(* configuration finds a fixed set of issue keys, since a key is made of   *)
(* the rule and of rows of a complete snapshot.  The worker wraps and      *)
(* retries the processors as JobQueue says; they never throw, so only a    *)
(* worker's death runs one again.                                          *)
(***************************************************************************)
EXTENDS DetectionState

rows == <<detFound, detRuns, detIssues, detHistory, detAI, detPromoted>>

(***************************************************************************)
(* Requests for a run or a replay                                          *)
(***************************************************************************)
NoDetJob == [at |-> "none", replays |-> None, config |-> None, run |-> None,
             left |-> {}, key |-> None]

Advance(j, changes) == detJobs' = [detJobs EXCEPT ![j] = changes]

\* POST /detection-runs: the jobs row, then the queue.
AskRun(j) ==
  /\ detJobs[j] = NoDetJob
  /\ \E f \in Configs : Advance(j, [NoDetJob EXCEPT !.at = "enqueue", !.config = f])
  /\ UNCHANGED <<rows, detActors, detDeaths>>

\* POST /detection-runs/:id/replay looks at nothing.
AskReplay(j) ==
  /\ detJobs[j] = NoDetJob
  /\ \E r \in DetRuns : Advance(j, [NoDetJob EXCEPT !.at = "enqueue", !.replays = r])
  /\ UNCHANGED <<rows, detActors, detDeaths>>

\* The queue takes the job, or it does not.
EnqueueRun(j) ==
  /\ detJobs[j].at = "enqueue"
  /\ \E to \in {"waiting", "ended"} : Advance(j, [detJobs[j] EXCEPT !.at = to])
  /\ UNCHANGED <<rows, detActors, detDeaths>>

(***************************************************************************)
(* The processors                                                          *)
(***************************************************************************)
Ended(job) == [NoDetJob EXCEPT !.at = "ended"]

\* A replay takes the configuration of its run, if there is one.
LoadOriginal(j) ==
  LET job == detJobs[j] IN
  /\ job.at = "waiting" /\ job.replays # None
  /\ Advance(j, IF detRuns[job.replays].status = "none" THEN Ended(job)
             ELSE [job EXCEPT !.at = "start", !.config = detRuns[job.replays].config])
  /\ UNCHANGED <<rows, detActors, detDeaths>>

\* Each attempt inserts a run of its own, 'running'.
StartRun(j) ==
  LET job == detJobs[j] IN
  /\ \/ job.at = "start"
     \/ job.at = "waiting" /\ job.replays = None
  /\ \E r \in DetRuns :
       /\ \A q \in DetRuns : detRuns[q].status = "none" <=> q >= r
       /\ detRuns' = [detRuns EXCEPT ![r] = [status |-> "running", config |-> job.config,
                                             whole |-> TRUE]]
       /\ Advance(j, [job EXCEPT !.at = "discover", !.run = r, !.left = detFound[job.config]])
  /\ UNCHANGED <<detFound, detIssues, detHistory, detAI, detPromoted, detActors, detDeaths>>

\* What the AI discovers is inserted first; its failures are swallowed.
Discover(j) ==
  LET job == detJobs[j] IN
  /\ job.at = "discover"
  /\ \/ detAI' = detAI
     \/ /\ detAI = None
        /\ detAI' = [status |-> "pending", promoted |-> FALSE]
  /\ Advance(j, [job EXCEPT !.at = "issues"])
  /\ UNCHANGED <<detFound, detRuns, detIssues, detHistory, detPromoted, detActors, detDeaths>>

\* A mutant of InsertIssue: an issue that is there already is passed over.
InsertNewIssue(j) ==
  LET job == detJobs[j] IN
  /\ job.at = "issues"
  /\ \E k \in job.left :
       /\ detIssues' = [detIssues EXCEPT ![k] =
            IF @ = None THEN [run |-> job.run, status |-> "open", sources |-> FALSE] ELSE @]
       /\ Advance(j, [job EXCEPT !.at = "sources", !.left = @ \ {k}, !.key = k])
  /\ UNCHANGED <<detFound, detRuns, detHistory, detAI, detPromoted, detActors, detDeaths>>

\* The issues one by one: tenant, snapshot and key are UNIQUE, so an issue that
\* another run has found fails this one.
InsertIssue(j) ==
  LET job == detJobs[j] IN
  /\ job.at = "issues"
  /\ \E k \in job.left :
       IF detIssues[k] # None
       THEN /\ UNCHANGED detIssues
            /\ Advance(j, [job EXCEPT !.at = "fail"])
       ELSE /\ detIssues' = [detIssues EXCEPT ![k] =
                 [run |-> job.run, status |-> "open", sources |-> FALSE]]
            /\ Advance(j, [job EXCEPT !.at = "sources", !.left = @ \ {k}, !.key = k])
  /\ UNCHANGED <<detFound, detRuns, detHistory, detAI, detPromoted, detActors, detDeaths>>

InsertSources(j) ==
  LET job == detJobs[j] IN
  /\ job.at = "sources"
  /\ detIssues' = [detIssues EXCEPT ![job.key].sources = TRUE]
  /\ Advance(j, [job EXCEPT !.at = "issues", !.key = None])
  /\ UNCHANGED <<detFound, detRuns, detHistory, detAI, detPromoted, detActors, detDeaths>>

\* 'completed', after which a replay compares the keys of the two runs.
CompleteRun(j) ==
  LET job == detJobs[j] IN
  /\ job.at = "issues" /\ job.left = {}
  /\ detRuns' = [detRuns EXCEPT ![job.run].status = "completed"]
  /\ Advance(j, Ended(job))
  /\ UNCHANGED <<detFound, detIssues, detHistory, detAI, detPromoted, detActors, detDeaths>>

\* A statement fails, after the run's row is there.
Throws(j) ==
  LET job == detJobs[j] IN
  /\ job.at \in {"discover", "issues", "sources"}
  /\ detRuns' = [detRuns EXCEPT ![job.run].whole = FALSE]
  /\ Advance(j, [job EXCEPT !.at = "fail", !.left = {}, !.key = None])
  /\ UNCHANGED <<detFound, detIssues, detHistory, detAI, detPromoted, detActors, detDeaths>>

\* The catch block: 'failed', and success: false is returned, which BullMQ does
\* not try again.  If its statement fails too, detect-run throws, the run stays,
\* and the job is tried again or not.
FailRun(j) ==
  LET job == detJobs[j] IN
  /\ job.at = "fail"
  /\ \/ /\ detRuns' = [detRuns EXCEPT ![job.run].status = "failed"]
        /\ Advance(j, Ended(job))
     \/ /\ detRuns' = [detRuns EXCEPT ![job.run].whole = FALSE]
        /\ \E to \in {"waiting", "ended"} :
             Advance(j, IF to = "ended" \/ job.replays # None THEN Ended(job)
                     ELSE [NoDetJob EXCEPT !.at = "waiting", !.config = job.config])
  /\ UNCHANGED <<detFound, detIssues, detHistory, detAI, detPromoted, detActors, detDeaths>>

\* The worker dies, and the job that stalls is run again, from the beginning.
Dies(j) ==
  LET job == detJobs[j] IN
  /\ job.at \in {"discover", "issues", "sources", "fail"} /\ detDeaths < MaxDeaths
  /\ detDeaths' = detDeaths + 1
  /\ detRuns' = [detRuns EXCEPT ![job.run].whole = FALSE]
  /\ Advance(j, [NoDetJob EXCEPT !.at = "waiting", !.replays = job.replays,
                           !.config = IF job.replays = None THEN job.config ELSE None])
  /\ UNCHANGED <<detFound, detIssues, detHistory, detAI, detPromoted, detActors>>

(***************************************************************************)
(* Decisions on issues                                                     *)
(***************************************************************************)
Idle == [at |-> "idle", op |-> "none", key |-> None, status |-> None]

Go(a, changes) == detActors' = [detActors EXCEPT ![a] = changes]
Answered(a) == Go(a, [Idle EXCEPT !.at = "done"])

\* POST /:id/status and, of each issue, POST /bulk-status: read, update, record.
AskStatus(a) ==
  /\ detActors[a].at = "idle"
  /\ \E k \in DetKeys, s \in Decisions :
       /\ detIssues[k] # None
       /\ Go(a, [at |-> "set", op |-> "status", key |-> k, status |-> s])
  /\ UNCHANGED <<rows, detJobs, detDeaths>>

SetStatus(a) ==
  /\ detActors[a].at = "set"
  /\ detIssues' = [detIssues EXCEPT ![detActors[a].key].status = detActors[a].status]
  /\ Go(a, [detActors[a] EXCEPT !.at = "record"])
  /\ UNCHANGED <<detFound, detRuns, detHistory, detAI, detPromoted, detJobs, detDeaths>>

RecordStatus(a) ==
  /\ detActors[a].at = "record"
  /\ detHistory' = [detHistory EXCEPT ![detActors[a].key] = @ \cup {detActors[a].status}]
  /\ Answered(a)
  /\ UNCHANGED <<detFound, detRuns, detIssues, detAI, detPromoted, detJobs, detDeaths>>

(***************************************************************************)
(* Decisions on discoveries                                                *)
(***************************************************************************)
\* POST /ai-discoveries/:id/promote asks only that none was promoted, inserts an
\* issue of a key made of the discovery's id, and then marks the discovery.
AskPromote(a) ==
  /\ detActors[a].at = "idle" /\ detAI # None /\ ~detAI.promoted
  /\ Go(a, [Idle EXCEPT !.at = "insert", !.op = "promote"])
  /\ UNCHANGED <<rows, detJobs, detDeaths>>

\* A mutant of InsertPromoted: the insert is not awaited.
InsertPromotedUnawaited(a) ==
  /\ detActors[a].at = "insert"
  /\ detPromoted' \in {detPromoted, TRUE}
  /\ Go(a, [detActors[a] EXCEPT !.at = "mark"])
  /\ UNCHANGED <<detFound, detRuns, detIssues, detHistory, detAI, detJobs, detDeaths>>

InsertPromoted(a) ==
  /\ detActors[a].at = "insert" /\ ~detPromoted
  /\ detPromoted' = TRUE
  /\ Go(a, [detActors[a] EXCEPT !.at = "mark"])
  /\ UNCHANGED <<detFound, detRuns, detIssues, detHistory, detAI, detJobs, detDeaths>>

MarkPromoted(a) ==
  /\ detActors[a].at = "mark"
  /\ detAI' = [status |-> "confirmed", promoted |-> TRUE]
  /\ Answered(a)
  /\ UNCHANGED <<detFound, detRuns, detIssues, detHistory, detPromoted, detJobs, detDeaths>>

\* POST /ai-discoveries/:id/dismiss reads a pending one and updates it by id.
AskDismiss(a) ==
  /\ detActors[a].at = "idle" /\ detAI # None /\ detAI.status = "pending"
  /\ Go(a, [Idle EXCEPT !.at = "dismiss", !.op = "dismiss"])
  /\ UNCHANGED <<rows, detJobs, detDeaths>>

Dismiss(a) ==
  /\ detActors[a].at = "dismiss"
  /\ detAI' = [detAI EXCEPT !.status = "dismissed"]
  /\ Answered(a)
  /\ UNCHANGED <<detFound, detRuns, detIssues, detHistory, detPromoted, detJobs, detDeaths>>

\* POST /ai-discoveries/bulk-dismiss updates those that are pending.
BulkDismiss(a) ==
  /\ detActors[a].at = "idle" /\ detAI # None /\ detAI.status = "pending"
  /\ detAI' = [detAI EXCEPT !.status = "dismissed"]
  /\ Answered(a)
  /\ UNCHANGED <<detFound, detRuns, detIssues, detHistory, detPromoted, detJobs, detDeaths>>

\* A statement fails, the UNIQUE key of a second promotion among them; what the
\* request did before stays.
RequestFails(a) ==
  /\ detActors[a].at \notin {"idle", "done", "failed"}
  /\ Go(a, [detActors[a] EXCEPT !.at = "failed"])
  /\ UNCHANGED <<rows, detJobs, detDeaths>>

(***************************************************************************)
(* The specification                                                       *)
(***************************************************************************)
\* The snapshot is complete; no detection ran on it yet.
Init ==
  /\ detFound \in [Configs -> SUBSET DetKeys]
  /\ detRuns = [r \in DetRuns |-> [status |-> "none", config |-> None, whole |-> TRUE]]
  /\ detIssues = [k \in DetKeys |-> None]
  /\ detHistory = [k \in DetKeys |-> {}]
  /\ detAI = None /\ detPromoted = FALSE
  /\ detJobs = [j \in DetJobs |-> NoDetJob]
  /\ detActors = [a \in DetActors |-> Idle]
  /\ detDeaths = 0

Process(j) ==
  \/ AskRun(j) \/ AskReplay(j) \/ EnqueueRun(j) \/ LoadOriginal(j) \/ StartRun(j)
  \/ Discover(j) \/ InsertIssue(j) \/ InsertSources(j) \/ CompleteRun(j)
  \/ Throws(j) \/ FailRun(j) \/ Dies(j)

Request(a) ==
  \/ AskStatus(a) \/ SetStatus(a) \/ RecordStatus(a)
  \/ AskPromote(a) \/ InsertPromoted(a) \/ MarkPromoted(a)
  \/ AskDismiss(a) \/ Dismiss(a) \/ BulkDismiss(a) \/ RequestFails(a)

Next ==
  \/ \E j \in DetJobs : Process(j)
  \/ \E a \in DetActors : Request(a)

Spec == Init /\ [][Next]_detVars
=============================================================================
