--------------------------- MODULE DetectionState ---------------------------
(***************************************************************************)
(* What Detection keeps, and what it promises: the rows of detection_runs, *)
(* issues, issue_status_history and ai_discovered_issues of one snapshot,  *)
(* the jobs and requests at work on them, and the invariants.              *)
(***************************************************************************)
EXTENDS Naturals

CONSTANTS
  DetKeys,      \* issue keys of rules
  MaxDetRuns,   \* runs of the snapshot, one for each attempt of a job
  DetJobs,      \* jobs, each of one request
  DetActors,    \* requests about issues and discoveries
  Configs,      \* configurations of the rules
  None,         \* no row
  MaxDeaths     \* workers that die

\* Ids of detection_runs, in the order of their rows.
DetRuns == 1..MaxDetRuns

VARIABLES
  detFound,     \* detFound[f]: the keys that configuration f finds
  detRuns,      \* the detection_runs rows
  detIssues,    \* detIssues[k]: the issues row of a key, or None
  detHistory,   \* detHistory[k]: to_status of the history rows of the issue of k
  detAI,        \* one ai_discovered_issues row, of the run that found it first
  detPromoted,  \* whether the discovery has its row in issues
  detJobs, detActors, detDeaths

detVars == <<detFound, detRuns, detIssues, detHistory, detAI, detPromoted, detJobs,
             detActors, detDeaths>>

Decisions == {"resolved", "dismissed"}
Statuses == {"open"} \cup Decisions

(***************************************************************************)
(* Properties                                                              *)
(***************************************************************************)
DetJob == [at : {"none", "enqueue", "waiting", "start", "discover", "issues", "sources",
                 "fail", "ended"},
           replays : DetRuns \cup {None}, config : Configs \cup {None},
           run : DetRuns \cup {None}, left : SUBSET DetKeys, key : DetKeys \cup {None}]
DetActor == [at : {"idle", "set", "record", "insert", "mark", "dismiss", "done", "failed"},
             op : {"none", "status", "promote", "dismiss"},
             key : DetKeys \cup {None}, status : Decisions \cup {None}]
Issue == [run : DetRuns, status : Statuses, sources : BOOLEAN]
Discovery == [status : {"pending", "confirmed", "dismissed"}, promoted : BOOLEAN]

ASSUME NoRow ==
  /\ None \notin DetKeys /\ None \notin DetRuns /\ None \notin Configs /\ None \notin Decisions
  /\ None \notin Issue /\ None \notin Discovery
  /\ MaxDetRuns \in Nat /\ MaxDeaths \in Nat

DetTypeOK ==
  /\ detFound \in [Configs -> SUBSET DetKeys]
  /\ detRuns \in [DetRuns -> [status : {"none", "running", "completed", "failed"},
                              config : Configs \cup {None}, whole : BOOLEAN]]
  /\ detIssues \in [DetKeys -> Issue \cup {None}]
  /\ detHistory \in [DetKeys -> SUBSET Decisions]
  /\ detAI \in {None} \cup Discovery
  /\ detPromoted \in BOOLEAN
  /\ detJobs \in [DetJobs -> DetJob] /\ detActors \in [DetActors -> DetActor]
  /\ detDeaths \in 0..MaxDeaths

Owner(r) == {j \in DetJobs : detJobs[j].run = r}

\* A run that says 'completed' has inserted every issue its configuration finds,
\* each with its sources, whatever runs of the snapshot came before, beside or
\* after it.
CompletedIsWhole ==
  \A r \in DetRuns :
    detRuns[r].status = "completed" =>
      \A k \in detFound[detRuns[r].config] :
        detIssues[k] # None /\ detIssues[k].run = r /\ detIssues[k].sources

\* A run that nothing works on is 'running' only if a worker died on it or its
\* catch block failed; and an issue lacks its sources only if its run did not
\* complete.
RunningHasACause ==
  /\ \A r \in DetRuns :
       detRuns[r].status = "running" /\ Owner(r) = {} => ~detRuns[r].whole
  /\ \A k \in DetKeys :
       detIssues[k] # None =>
         \/ detIssues[k].sources
         \/ detRuns[detIssues[k].run].status # "completed"

\* The status of an issue is one somebody was told is recorded, unless the
\* request that set it is under way or failed.
HistoryExplains ==
  \A k \in DetKeys :
    detIssues[k] # None /\ detIssues[k].status # "open" =>
      \/ detIssues[k].status \in detHistory[k]
      \/ \E a \in DetActors : detActors[a].key = k /\ detActors[a].status = detIssues[k].status

\* A discovery that says it was promoted has its issue; one that has its issue
\* says so, unless its request is under way or failed between the two.
PromotedHasIssue ==
  /\ detAI # None /\ detAI.promoted => detPromoted
  /\ detPromoted =>
       \/ detAI.promoted
       \/ \E a \in DetActors : detActors[a].op = "promote"

\* Types; a completed run is whole whatever runs came before or beside it, a run
\* left 'running' has a cause (processDetectRunJob); the status of an issue is in its
\* history, and a promoted discovery has its issue, or a request failed between two
\* statements (routes/issues).
IssuesInv ==
  DetTypeOK /\ CompletedIsWhole /\ RunningHasACause /\ HistoryExplains /\ PromotedHasIssue

\* A run of a snapshot completes unless a statement of its own fails or its worker
\* dies, so that a replay gives a run to compare with (processDetectReplayJob).
ReplaysComplete == \A r \in DetRuns : detRuns[r].status = "failed" => ~detRuns[r].whole
=============================================================================
