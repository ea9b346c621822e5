------------------------------ MODULE Identity ------------------------------
(***************************************************************************)
(* Identity resolution of one snapshot: the routes                         *)
(* (apps/api/src/routes/identity/index.ts), blocking, features and scores  *)
(* (packages/utils/src/identity), and the processors that resolve          *)
(* customers and apply decisions (identity-resolve.ts, identity-apply.ts).  *)
(*                                                                         *)
(* A statement of a processor is a step; of a request, the read and the    *)
(* insert.  Both routes then add their job to fastify.queue, which no      *)
(* plugin decorates, and throw: a job comes from POST /admin/jobs/enqueue  *)
(* alone, for whatever run or decisions it names.                          *)
(***************************************************************************)
EXTENDS IdentityState, FiniteSetsExt

CONSTANTS
  IdnBooks,        \* what the customers of the snapshot may be
  IdnSimilarity,   \* jaroWinkler of two normalized names, in hundredths
  IdnConfigs       \* thresholds, weights and blocking keys of a job

\* What requests leave alone, what a resolving and what an applying try does.
tables == <<idnCandidates, idnTasks, idnGroups, idnMembers, idnSuppressed>>

(***************************************************************************)
(* Matching                                                                *)
(***************************************************************************)
BlockingKeys(c, config) ==
  {<<type, idnBook[c].keys[type]>> : type \in {t \in config.keys : idnBook[c].keys[t] # None}}

\* Pairs that share a key and are not suppressed.
CandidatePairs(config) ==
  {p \in Pairs \ idnSuppressed :
     BlockingKeys(p[1], config) \cap BlockingKeys(p[2], config) # {}}

Same(x, y) == x # None /\ x = y
Features(a, b) ==
  [similarity |-> IdnSimilarity[a.name][b.name],
   matches |-> {f \in {"domain", "tax", "address", "external"} :
                  CASE f = "domain" -> Same(a.keys.domain, b.keys.domain)
                    [] f = "tax" -> Same(a.tax, b.tax)
                    [] f = "address" -> Same(a.address, b.address)
                    [] f = "external" -> a.source # b.source /\ a.external = b.external}]

\* The weighted share of the features, in whole percent, halves rounded up.
Score(features, weights) ==
  LET others == {"domain", "tax", "address", "external"}
      Weigh(fs) == MapThenSumSet(LAMBDA f : weights[f], fs)
      total == weights.name + Weigh(others)
      sum == features.similarity * weights.name + 100 * Weigh(features.matches)
  IN IF total > 0 THEN (2 * sum + total) \div (2 * total) ELSE 0

Decide(p, config) ==
  LET score == Score(Features(idnBook[p[1]], idnBook[p[2]]), config.weights) IN
  IF score >= config.auto THEN "auto_merge"
  ELSE IF score >= config.review THEN "review" ELSE "skip"

(***************************************************************************)
(* Requests                                                                *)
(***************************************************************************)
Idle == [at |-> "idle", what |-> None]
Ask(a, at, what) == idnActors' = [idnActors EXCEPT ![a] = [at |-> at, what |-> what]]
Answered(a) == idnActors' = [idnActors EXCEPT ![a] = Idle]

\* POST /identity/trigger: refused while a run is pending or running, as read.
AskTrigger(a) ==
  /\ idnActors[a].at = "idle"
  /\ \A r \in IdnRuns : idnRuns[r] \notin {"pending", "running"}
  /\ Ask(a, "trigger", None)
  /\ UNCHANGED <<idnBook, idnRuns, idnDecisions, idnJobs, idnFaults, idnOverlap, tables>>

InsertRun(a) ==
  /\ idnActors[a].at = "trigger"
  /\ \E r \in IdnRuns : idnRuns[r] = None /\ idnRuns' = [idnRuns EXCEPT ![r] = "pending"]
  /\ Answered(a)
  /\ UNCHANGED <<idnBook, idnDecisions, idnJobs, idnFaults, idnOverlap, tables>>

\* POST /identity/decisions: refused once the task is resolved, as read.
AskDecision(a) ==
  /\ idnActors[a].at = "idle"
  /\ \E p \in {q \in Pairs : idnTasks[q] = "pending"}, verdict \in Verdicts :
       Ask(a, "decide", [pair |-> p, verdict |-> verdict])
  /\ UNCHANGED <<idnBook, idnRuns, idnDecisions, idnJobs, idnFaults, idnOverlap, tables>>

InsertDecision(a) ==
  /\ idnActors[a].at = "decide"
  /\ \E d \in DecisionIds :
       /\ idnDecisions[d] = None /\ \A e \in DecisionIds : idnDecisions[e] = None => d <= e
       /\ idnDecisions' = [idnDecisions EXCEPT ![d] = idnActors[a].what]
  /\ Answered(a)
  /\ UNCHANGED <<idnBook, idnRuns, idnJobs, idnFaults, idnOverlap, tables>>

(***************************************************************************)
(* Jobs: a second try follows a first that failed or died, or runs beside  *)
(* one that lost its lock.                                                 *)
(***************************************************************************)
Resting == [at |-> "none", pairs |-> {}, pair |-> None, decisions |-> {}, decision |-> None,
            groups |-> <<>>, count |-> 0, read |-> {}]
NoJob == [run |-> None, decisions |-> {}, config |-> None, tries |-> [n \in Tries |-> Resting]]
Move(j, n, try) == idnJobs' = [idnJobs EXCEPT ![j].tries[n] = try]
To(j, n, at) == Move(j, n, [Try(j, n) EXCEPT !.at = at])

\* POST /admin/jobs/enqueue: a run, or one decision, or all of them.
Enqueue(j) ==
  /\ ~Resolves(j) /\ ~Applies(j)
  /\ \E config \in IdnConfigs :
       \/ \E r \in IdnRuns :
            /\ idnRuns[r] # None
            /\ idnJobs' = [idnJobs EXCEPT ![j].run = r, ![j].config = config]
       \/ \E ds \in {DecisionIds} \cup {{d} : d \in DecisionIds} :
            /\ \E d \in ds : idnDecisions[d] # None
            /\ idnJobs' = [idnJobs EXCEPT ![j].decisions = ds, ![j].config = config]
  /\ UNCHANGED <<idnBook, idnRuns, idnDecisions, idnActors, idnFaults, idnOverlap, tables>>

Starts(j, n) ==
  /\ Try(j, n).at = "none"
  /\ n = 2 => Try(j, 1).at \notin {"none", "done"}
  /\ IF n = 2 /\ Going(j, 1) THEN idnFaults < MaxIdnFaults /\ idnFaults' = idnFaults + 1
     ELSE UNCHANGED idnFaults

Dies(j, n) ==
  /\ Going(j, n) /\ idnFaults < MaxIdnFaults
  /\ To(j, n, "dead") /\ idnFaults' = idnFaults + 1
  /\ UNCHANGED <<idnBook, idnRuns, idnDecisions, idnActors, idnOverlap, tables>>

\* What the tries of both kinds of job leave alone.
Others == UNCHANGED <<idnBook, idnDecisions, idnActors>>

(***************************************************************************)
(* identity.resolve                                                        *)
(***************************************************************************)
SetRun(j, status) == idnRuns' = [idnRuns EXCEPT ![Run(j)] = status]

BeginResolve(j, n) ==
  /\ Resolves(j) /\ Starts(j, n)
  /\ SetRun(j, "running") /\ To(j, n, "load")
  /\ Others /\ UNCHANGED <<idnOverlap, tables>>

\* Customers and suppressions, from which blocking and scores follow; pairs the
\* thresholds skip leave no trace.
Load(j, n) ==
  /\ Try(j, n).at = "load"
  /\ LET config == idnJobs[j].config
         scored == {[pair |-> p, as |-> Decide(p, config)] : p \in CandidatePairs(config)}
         pairs == {m \in scored : m.as # "skip"}
     IN Move(j, n, [Try(j, n) EXCEPT !.at = "next", !.pairs = pairs, !.read = pairs])
  /\ Others /\ UNCHANGED <<idnRuns, idnFaults, idnOverlap, tables>>

\* ON CONFLICT DO NOTHING: a pair that has a candidate keeps it, and the fresh id,
\* here the try's groups, is the id of no row.
InsertCandidate(j, n) ==
  /\ Try(j, n).at = "next" /\ Resolves(j)
  /\ \E m \in Try(j, n).pairs :
       LET p == m.pair
           merges == m.as = "auto_merge"
       IN
       /\ idnCandidates' =
            IF idnCandidates[p] # None THEN idnCandidates
            ELSE [idnCandidates EXCEPT ![p] = IF merges THEN "auto_merged" ELSE "pending"]
       /\ Move(j, n, [Try(j, n) EXCEPT
            !.at = IF merges THEN "insertGroup"
                   ELSE IF idnCandidates[p] = None THEN "insertTask" ELSE "fail",
            !.pair = p, !.pairs = @ \ {m}])
  /\ Others
  /\ UNCHANGED <<idnRuns, idnTasks, idnGroups, idnMembers, idnSuppressed, idnFaults, idnOverlap>>

InsertTask(j, n) ==
  /\ Try(j, n).at = "insertTask"
  /\ idnTasks' = [idnTasks EXCEPT ![Try(j, n).pair] = "pending"]
  /\ To(j, n, "next")
  /\ Others
  /\ UNCHANGED <<idnRuns, idnCandidates, idnGroups, idnMembers, idnSuppressed, idnFaults,
                 idnOverlap>>

\* Both processors: a group of two for a pair, whatever groups the two are in.
PairAt(j, n) ==
  IF Resolves(j) THEN Try(j, n).pair ELSE idnDecisions[Try(j, n).decision].pair

InsertGroup(j, n) ==
  /\ Try(j, n).at = "insertGroup"
  /\ \E g \in Groups :
       /\ idnGroups[g] = None /\ \A h \in Groups : idnGroups[h] = None => g <= h
       /\ idnGroups' = [idnGroups EXCEPT ![g] = 2]
       /\ Move(j, n, [Try(j, n) EXCEPT !.at = "insertMembers", !.groups = <<g>>])
  /\ Others
  /\ UNCHANGED <<idnRuns, idnCandidates, idnTasks, idnMembers, idnSuppressed, idnFaults,
                 idnOverlap>>

InsertMembers(j, n) ==
  /\ Try(j, n).at = "insertMembers"
  /\ LET g == Try(j, n).groups[1]
         p == PairAt(j, n)
     IN idnMembers' = [idnMembers EXCEPT ![<<g, p[1]>>] = g, ![<<g, p[2]>>] = g]
  /\ Move(j, n, [Try(j, n) EXCEPT !.at = IF Resolves(j) THEN "next" ELSE "setCandidate",
                                  !.groups = <<>>])
  /\ Others
  /\ UNCHANGED <<idnRuns, idnCandidates, idnTasks, idnGroups, idnSuppressed, idnFaults,
                 idnOverlap>>

Complete(j, n) ==
  /\ Try(j, n).at = "next" /\ Resolves(j) /\ Try(j, n).pairs = {}
  /\ SetRun(j, "completed")
  /\ Move(j, n, [Try(j, n) EXCEPT !.at = "done", !.pair = None])
  /\ Others /\ UNCHANGED <<idnFaults, idnOverlap, tables>>

\* The catch block; its update may fail as well.
FailRun(j, n) ==
  /\ Try(j, n).at = "fail"
  /\ \/ SetRun(j, "failed") /\ UNCHANGED idnFaults
     \/ idnFaults < MaxIdnFaults /\ idnFaults' = idnFaults + 1 /\ UNCHANGED idnRuns
  /\ Move(j, n, [Resting EXCEPT !.at = "failed"])
  /\ Others /\ UNCHANGED <<idnOverlap, tables>>

(***************************************************************************)
(* identity.apply                                                          *)
(***************************************************************************)
\* The decisions whose tasks are not resolved.
BeginApply(j, n) ==
  /\ Applies(j) /\ Starts(j, n)
  /\ LET pending == {d \in idnJobs[j].decisions :
                       idnDecisions[d] # None /\ idnTasks[idnDecisions[d].pair] # "resolved"}
     IN Move(j, n, [Resting EXCEPT !.at = "next", !.decisions = pending])
  /\ idnOverlap' = (idnOverlap \/ Applying # {})
  /\ Others /\ UNCHANGED <<idnRuns, tables>>

Verdict(j, n) == idnDecisions[Try(j, n).decision].verdict

StartDecision(j, n) ==
  /\ Try(j, n).at = "next" /\ Applies(j)
  /\ \E d \in Try(j, n).decisions :
       Move(j, n, [Try(j, n) EXCEPT
         !.at = CASE idnDecisions[d].verdict = "confirm" -> "insertGroup"
                  [] idnDecisions[d].verdict = "reject" -> "setCandidate"
                  [] OTHER -> "readMembers",
         !.decision = d, !.decisions = @ \ {d}])
  /\ Others /\ UNCHANGED <<idnRuns, idnFaults, idnOverlap, tables>>

\* A merge needs the two customers in two groups altogether; a split takes any row of
\* the second customer.
ReadMembers(j, n) ==
  /\ Try(j, n).at = "readMembers"
  /\ LET p == PairAt(j, n)
         both == GroupsOf(p[1]) \cup GroupsOf(p[2])
     IN \/ /\ Verdict(j, n) = "merge" /\ Cardinality(both) = 2
           /\ \E g, h \in both :
                g # h /\ Move(j, n, [Try(j, n) EXCEPT !.at = "move", !.groups = <<g, h>>])
        \/ /\ Verdict(j, n) = "split"
           /\ \E row \in RowsOf(p[2]) :
                Move(j, n, [Try(j, n) EXCEPT !.at = "deleteRow",
                                             !.groups = <<idnMembers[row], row[1]>>])
        \/ /\ IF Verdict(j, n) = "merge" THEN Cardinality(both) # 2 ELSE RowsOf(p[2]) = {}
           /\ To(j, n, "setCandidate")
  /\ Others /\ UNCHANGED <<idnRuns, idnFaults, idnOverlap, tables>>

\* The error of one decision is logged, and the next one taken.
NextDecision(j, n) ==
  Move(j, n, [Try(j, n) EXCEPT !.at = "next", !.decision = None, !.groups = <<>>, !.count = 0])

\* One row per group and customer, and a group that exists; else the update throws.
MoveRows(j, n) ==
  /\ Try(j, n).at = "move"
  /\ LET keep == Try(j, n).groups[1]
         rows == RowsIn(Try(j, n).groups[2])
     IN IF /\ rows # {} => idnGroups[keep] # Gone
           /\ {row[2] : row \in rows} \cap {row[2] : row \in RowsIn(keep)} = {}
        THEN /\ idnMembers' = [row \in DOMAIN idnMembers |->
                                 IF row \in rows THEN keep ELSE idnMembers[row]]
             /\ To(j, n, "count")
        ELSE UNCHANGED idnMembers /\ NextDecision(j, n)
  /\ Others
  /\ UNCHANGED <<idnRuns, idnCandidates, idnTasks, idnGroups, idnSuppressed, idnFaults,
                 idnOverlap>>

DeleteRow(j, n) ==
  /\ Try(j, n).at = "deleteRow"
  /\ idnMembers' = [idnMembers EXCEPT ![<<Try(j, n).groups[2], PairAt(j, n)[2]>>] = None]
  /\ To(j, n, "count")
  /\ Others
  /\ UNCHANGED <<idnRuns, idnCandidates, idnTasks, idnGroups, idnSuppressed, idnFaults,
                 idnOverlap>>

\* Of the group kept, or of the group split, which goes when one is left.
CountRows(j, n) ==
  /\ Try(j, n).at = "count"
  /\ LET count == Cardinality(RowsIn(Try(j, n).groups[1])) IN
     Move(j, n, [Try(j, n) EXCEPT
       !.count = count,
       !.at = IF Verdict(j, n) = "split" /\ count <= 1 THEN "deleteRows" ELSE "setCount"])
  /\ Others /\ UNCHANGED <<idnRuns, idnFaults, idnOverlap, tables>>

SetCount(j, n) ==
  /\ Try(j, n).at = "setCount"
  /\ LET g == Try(j, n).groups[1] IN
     idnGroups' = IF idnGroups[g] = Gone THEN idnGroups
                  ELSE [idnGroups EXCEPT ![g] = Try(j, n).count]
  /\ To(j, n, IF Verdict(j, n) = "merge" THEN "deleteGroup" ELSE "setCandidate")
  /\ Others
  /\ UNCHANGED <<idnRuns, idnCandidates, idnTasks, idnMembers, idnSuppressed, idnFaults,
                 idnOverlap>>

Emptied(g) ==
  [row \in DOMAIN idnMembers |-> IF idnMembers[row] = g THEN None ELSE idnMembers[row]]

DeleteRows(j, n) ==
  /\ Try(j, n).at = "deleteRows"
  /\ idnMembers' = Emptied(Try(j, n).groups[1])
  /\ To(j, n, "deleteGroup")
  /\ Others
  /\ UNCHANGED <<idnRuns, idnCandidates, idnTasks, idnGroups, idnSuppressed, idnFaults,
                 idnOverlap>>

\* With the rows that are in it by then (ON DELETE CASCADE).
DeleteGroup(j, n) ==
  /\ Try(j, n).at = "deleteGroup"
  /\ LET g == Try(j, n).groups[IF Verdict(j, n) = "merge" THEN 2 ELSE 1] IN
       idnGroups' = [idnGroups EXCEPT ![g] = Gone] /\ idnMembers' = Emptied(g)
  /\ To(j, n, "setCandidate")
  /\ Others
  /\ UNCHANGED <<idnRuns, idnCandidates, idnTasks, idnSuppressed, idnFaults, idnOverlap>>

SetCandidate(j, n) ==
  /\ Try(j, n).at = "setCandidate"
  /\ idnCandidates' = [idnCandidates EXCEPT ![PairAt(j, n)] =
       IF Verdict(j, n) \in {"confirm", "merge"} THEN "confirmed" ELSE "rejected"]
  /\ To(j, n, IF Verdict(j, n) = "reject" THEN "suppress" ELSE "resolve")
  /\ Others
  /\ UNCHANGED <<idnRuns, idnTasks, idnGroups, idnMembers, idnSuppressed, idnFaults, idnOverlap>>

Suppress(j, n) ==
  /\ Try(j, n).at = "suppress"
  /\ idnSuppressed' = idnSuppressed \cup {PairAt(j, n)}
  /\ To(j, n, "resolve")
  /\ Others
  /\ UNCHANGED <<idnRuns, idnCandidates, idnTasks, idnGroups, idnMembers, idnFaults, idnOverlap>>

ResolveTask(j, n) ==
  /\ Try(j, n).at = "resolve"
  /\ idnTasks' = [idnTasks EXCEPT ![PairAt(j, n)] = "resolved"]
  /\ NextDecision(j, n)
  /\ Others
  /\ UNCHANGED <<idnRuns, idnCandidates, idnGroups, idnMembers, idnSuppressed, idnFaults,
                 idnOverlap>>

EndApply(j, n) ==
  /\ Try(j, n).at = "next" /\ Applies(j) /\ Try(j, n).decisions = {}
  /\ Move(j, n, [Resting EXCEPT !.at = "done"])
  /\ Others /\ UNCHANGED <<idnRuns, idnFaults, idnOverlap, tables>>

\* A mutant of Throws: what failed is resolved all the same.
ThrowsResolved(j, n) ==
  /\ Going(j, n) /\ idnFaults < MaxIdnFaults /\ idnFaults' = idnFaults + 1
  /\ IF Resolves(j) THEN Try(j, n).at # "fail" /\ To(j, n, "fail") /\ UNCHANGED idnTasks
     ELSE /\ Try(j, n).at # "next"
          /\ idnTasks' = [idnTasks EXCEPT ![PairAt(j, n)] = "resolved"]
          /\ NextDecision(j, n)
  /\ Others
  /\ UNCHANGED <<idnRuns, idnCandidates, idnGroups, idnMembers, idnSuppressed, idnOverlap>>

\* A statement fails.
Throws(j, n) ==
  /\ Going(j, n) /\ idnFaults < MaxIdnFaults /\ idnFaults' = idnFaults + 1
  /\ IF Resolves(j) THEN Try(j, n).at # "fail" /\ To(j, n, "fail")
     ELSE Try(j, n).at # "next" /\ NextDecision(j, n)
  /\ Others /\ UNCHANGED <<idnRuns, idnOverlap, tables>>

Init ==
  /\ idnBook \in IdnBooks
  /\ idnRuns = [r \in IdnRuns |-> None]
  /\ idnCandidates = [p \in Pairs |-> None]
  /\ idnTasks = [p \in Pairs |-> None]
  /\ idnGroups = [g \in Groups |-> None]
  /\ idnMembers = [row \in Groups \X IdnCustomers |-> None]
  /\ idnDecisions = [d \in DecisionIds |-> None]
  /\ idnSuppressed = {}
  /\ idnActors = [a \in IdnActors |-> Idle]
  /\ idnJobs = [j \in IdnJobs |-> NoJob]
  /\ idnFaults = 0
  /\ idnOverlap = FALSE

Next ==
  \/ \E a \in IdnActors : AskTrigger(a) \/ InsertRun(a) \/ AskDecision(a) \/ InsertDecision(a)
  \/ \E j \in IdnJobs : Enqueue(j)
  \/ \E j \in IdnJobs, n \in Tries : BeginResolve(j, n) \/ BeginApply(j, n)
  \/ \E j \in IdnJobs : \E n \in {m \in Tries : Going(j, m)} :
       \/ Load(j, n) \/ InsertCandidate(j, n) \/ InsertTask(j, n) \/ InsertGroup(j, n)
       \/ InsertMembers(j, n) \/ Complete(j, n) \/ FailRun(j, n) \/ StartDecision(j, n)
       \/ ReadMembers(j, n) \/ MoveRows(j, n) \/ DeleteRow(j, n) \/ CountRows(j, n)
       \/ SetCount(j, n) \/ DeleteRows(j, n) \/ DeleteGroup(j, n) \/ SetCandidate(j, n)
       \/ Suppress(j, n) \/ ResolveTask(j, n) \/ EndApply(j, n) \/ Throws(j, n) \/ Dies(j, n)

Spec == Init /\ [][Next]_idnVars
=============================================================================
