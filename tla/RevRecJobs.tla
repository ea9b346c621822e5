----------------------------- MODULE RevRecJobs -----------------------------
(***************************************************************************)
(* The revenue recognition jobs (processors/revrec-compute.ts and          *)
(* revrec-reconcile.ts) and the routes that queue them (routes/revrec).    *)
(* Both loop over the contracts of a snapshot, catch what fails for one    *)
(* and go on with the next, so one contract is enough: its rows are those  *)
(* of the join with its versions, in no given order.  RevRec says what is  *)
(* computed; here it is NumObligations obligations with the rows that      *)
(* belong to each, written one statement after the other.                  *)
(***************************************************************************)
EXTENDS RevRecState

Versioned(o) == o[3]
Move(j, row) == revJobs' = [revJobs EXCEPT ![j] = row]
Goes(j, at) == Move(j, [revJobs[j] EXCEPT !.at = at])

\* The job as it is between two contracts.
Clear(j, at) ==
  [revJobs[j] EXCEPT !.at = at, !.version = NoVersion, !.number = 1, !.part = 1, !.ids = {}]
FirstObl(j) == [revJobs[j] EXCEPT !.at = "insertObl", !.number = 1]

(***************************************************************************)
(* Queueing and loading                                                    *)
(***************************************************************************)
\* POST /revrec/compute and /reconcile: every request adds a job, and nothing
\* asks whether one is queued or running.
Queue(j) ==
  /\ revJobs[j].at = "idle"
  /\ \E force \in BOOLEAN, kind \in {"compute", "reconcile"} :
       /\ kind = "reconcile" => ~force
       /\ Move(j, [revJobs[j] EXCEPT !.at = "load", !.kind = kind, !.force = force])
  /\ revFaults' = IF \E k \in RevJobs : BusyRev(k) THEN revFaults \cup {"overlap"} ELSE revFaults
  /\ UNCHANGED <<revObls, revParts, revRecs>>

\* loadContractsWithTerms: a row for each version.
Load(j) ==
  /\ revJobs[j].at = "load"
  /\ revJobs[j].kind = "compute"
  /\ Move(j, [revJobs[j] EXCEPT !.at = "row", !.left = Versions])
  /\ UNCHANGED <<revObls, revParts, revRecs, revFaults>>

NextRow(j) ==
  /\ revJobs[j].at = "row"
  /\ \E v \in revJobs[j].left :
       Move(j, [revJobs[j] EXCEPT !.at = IF revJobs[j].force THEN "ids" ELSE "check",
                                  !.version = v, !.left = revJobs[j].left \ {v}])
  /\ UNCHANGED <<revObls, revParts, revRecs, revFaults>>

EndCompute(j) ==
  /\ revJobs[j].at = "row"
  /\ revJobs[j].left = {}
  /\ Goes(j, "ended")
  /\ UNCHANGED <<revObls, revParts, revRecs, revFaults>>

(***************************************************************************)
(* One row of processRevRecComputeJob                                      *)
(***************************************************************************)
\* A mutant of CheckExisting: the rows of another version do not count.
CheckVersion(j) ==
  /\ revJobs[j].at = "check"
  /\ Move(j, IF \E o \in revObls : Versioned(o) = revJobs[j].version
             THEN Clear(j, "row") ELSE FirstObl(j))
  /\ UNCHANGED <<revObls, revParts, revRecs, revFaults>>

\* Without forceRecompute, any obligation of the contract means it is computed.
CheckExisting(j) ==
  /\ revJobs[j].at = "check"
  /\ Move(j, IF revObls # {} THEN Clear(j, "row") ELSE FirstObl(j))
  /\ UNCHANGED <<revObls, revParts, revRecs, revFaults>>

\* deleteExistingRevRecData: the ids first, then table by table.
ReadIds(j) ==
  /\ revJobs[j].at = "ids"
  /\ Move(j, IF revObls = {} THEN FirstObl(j)
             ELSE [revJobs[j] EXCEPT !.at = "deleteParts", !.ids = revObls, !.part = Len(Parts)])
  /\ UNCHANGED <<revObls, revParts, revRecs, revFaults>>

DeleteParts(j) ==
  /\ revJobs[j].at = "deleteParts"
  /\ revParts' = revParts \ (revJobs[j].ids \X {Parts[revJobs[j].part]})
  /\ Move(j, IF revJobs[j].part > 1 THEN [revJobs[j] EXCEPT !.part = @ - 1]
             ELSE [revJobs[j] EXCEPT !.at = "deleteObls"])
  /\ UNCHANGED <<revObls, revRecs, revFaults>>

\* The child tables refer to the obligations ON DELETE CASCADE.
DeleteObls(j) ==
  /\ revJobs[j].at = "deleteObls"
  /\ revObls' = revObls \ revJobs[j].ids
  /\ revParts' = {p \in revParts : p[1] \notin revJobs[j].ids}
  /\ Move(j, [revJobs[j] EXCEPT !.at = "deleteRecs", !.ids = {}])
  /\ UNCHANGED <<revRecs, revFaults>>

DeleteRecs(j) ==
  /\ revJobs[j].at = "deleteRecs"
  /\ revRecs' = {}
  /\ Move(j, FirstObl(j))
  /\ UNCHANGED <<revObls, revParts, revFaults>>

\* persistRevRecResults: an obligation and its rows, then the next obligation.
Current(j) == <<j, revJobs[j].run, revJobs[j].version, revJobs[j].number>>

InsertObl(j) ==
  /\ revJobs[j].at = "insertObl"
  /\ revObls' = revObls \cup {Current(j)}
  /\ Move(j, [revJobs[j] EXCEPT !.at = "insertPart", !.part = 1])
  /\ UNCHANGED <<revParts, revRecs, revFaults>>

\* The foreign key refuses the row of an obligation that is gone (see Fails).
InsertPart(j) ==
  /\ revJobs[j].at = "insertPart"
  /\ Current(j) \in revObls
  /\ revParts' = revParts \cup {<<Current(j), Parts[revJobs[j].part]>>}
  /\ Move(j, IF revJobs[j].part < Len(Parts) THEN [revJobs[j] EXCEPT !.part = @ + 1]
             ELSE IF revJobs[j].number < NumObligations
             THEN [revJobs[j] EXCEPT !.at = "insertObl", !.number = @ + 1]
             ELSE Clear(j, "row"))
  /\ UNCHANGED <<revObls, revRecs, revFaults>>

(***************************************************************************)
(* processRevRecReconcileJob                                               *)
(***************************************************************************)
LoadSchedules(j) ==
  /\ revJobs[j].at = "load"
  /\ revJobs[j].kind = "reconcile"
  /\ Move(j, [revJobs[j] EXCEPT !.at = "invoices",
                             !.ids = {o \in revObls : <<o, "schedules">> \in revParts}])
  /\ UNCHANGED <<revObls, revParts, revRecs, revFaults>>

\* Without schedules and invoices nothing is deleted or written.
LoadInvoices(j) ==
  /\ revJobs[j].at = "invoices"
  /\ \E invoiced \in SUBSET Periods :
       LET periods == IF revJobs[j].ids = {} THEN invoiced ELSE Periods
       IN  Move(j, [revJobs[j] EXCEPT !.at = IF periods = {} THEN "ended" ELSE "deletePeriod",
                                      !.left = periods, !.ids = {}])
  /\ UNCHANGED <<revObls, revParts, revRecs, revFaults>>

DeletePeriod(j) ==
  /\ revJobs[j].at = "deletePeriod"
  /\ revRecs' = {}
  /\ Goes(j, "insertRec")
  /\ UNCHANGED <<revObls, revParts, revFaults>>

InsertRec(j) ==
  /\ revJobs[j].at = "insertRec"
  /\ \E p \in revJobs[j].left :
       /\ revRecs' = revRecs \cup {<<j, revJobs[j].run, p>>}
       /\ Move(j, [revJobs[j] EXCEPT !.at = IF revJobs[j].left = {p} THEN "ended" ELSE "insertRec",
                                     !.left = revJobs[j].left \ {p}])
  /\ UNCHANGED <<revObls, revParts, revFaults>>

(***************************************************************************)
(* Failures                                                                *)
(***************************************************************************)
\* What fails is caught: the compute job goes on with the next row, the
\* reconciliation with the next contract.  Before the loop, the job ends.
Fails(j) ==
  /\ revJobs[j].at \notin {"idle", "row", "ended"}
  /\ Move(j, IF revJobs[j].kind = "compute" /\ revJobs[j].at # "load"
             THEN Clear(j, "row") ELSE [Clear(j, "ended") EXCEPT !.left = {}])
  /\ revFaults' = revFaults \cup {"failure"}
  /\ UNCHANGED <<revObls, revParts, revRecs>>

\* The worker dies; BullMQ gives the job to another, once.
Dies(j) ==
  /\ BusyRev(j)
  /\ Move(j, IF revJobs[j].run < MaxRuns
             THEN [Clear(j, "load") EXCEPT !.run = revJobs[j].run + 1, !.left = {}]
             ELSE [Clear(j, "ended") EXCEPT !.left = {}])
  /\ revFaults' = revFaults \cup {"death"}
  /\ UNCHANGED <<revObls, revParts, revRecs>>

Init ==
  /\ revObls = {} /\ revParts = {} /\ revRecs = {} /\ revFaults = {}
  /\ revJobs = [j \in RevJobs |->
       [at |-> "idle", kind |-> "compute", force |-> FALSE, run |-> 1, left |-> {},
        version |-> NoVersion, number |-> 1, part |-> 1, ids |-> {}]]

Compute(j) ==
  \/ Load(j) \/ NextRow(j) \/ EndCompute(j) \/ CheckExisting(j) \/ ReadIds(j)
  \/ DeleteParts(j) \/ DeleteObls(j) \/ DeleteRecs(j) \/ InsertObl(j) \/ InsertPart(j)
ReconcileSteps(j) == LoadSchedules(j) \/ LoadInvoices(j) \/ DeletePeriod(j) \/ InsertRec(j)

Next == \E j \in RevJobs :
  Queue(j) \/ Compute(j) \/ ReconcileSteps(j) \/ Fails(j) \/ Dies(j)

Spec == Init /\ [][Next]_revVars
=============================================================================
