---------------------------- MODULE RevRecState -----------------------------
(***************************************************************************)
(* What RevRecJobs keeps, and what it promises: the rows of one contract   *)
(* in revenue_obligations, its child tables and revrec_reconciliations,    *)
(* the compute and reconcile jobs at work on them, and the invariants.     *)
(***************************************************************************)
EXTENDS Naturals, FiniteSets, Sequences

CONSTANTS
  RevJobs,          \* jobs the routes may queue
  Versions, NoVersion,  \* contract_versions rows of the contract; no version
  NumObligations,   \* obligations computed of a version
  Parts,            \* the child tables, in the order persistRevRecResults fills them
  Periods,          \* periods the reconciliation compares
  MaxRuns           \* how often a job runs: once, and once more for a stall

ASSUME RevRecAssumption ==
  /\ NumObligations \in Nat \ {0} /\ MaxRuns \in Nat \ {0}
  /\ Parts \in Seq(STRING) /\ Parts # <<>>

VARIABLES
  revObls,     \* revenue_obligations rows
  revParts,    \* <<obligation, table>>: its rows in a child table
  revRecs,     \* revrec_reconciliations rows
  revJobs,     \* the jobs and where each stands
  revFaults    \* history: a statement failed, a worker died, two jobs overlapped

revVars == <<revObls, revParts, revRecs, revJobs, revFaults>>

\* An obligation is named by the run that inserted it, its version and its number.
Obligations == RevJobs \X (1..MaxRuns) \X Versions \X (1..NumObligations)
Tables == {Parts[i] : i \in 1..Len(Parts)}

AtRev(j) == revJobs[j].at
BusyRev(j) == AtRev(j) \notin {"idle", "ended"}

(***************************************************************************)
(* Properties                                                              *)
(***************************************************************************)
InRow == {"check", "ids", "deleteParts", "deleteObls", "deleteRecs", "insertObl", "insertPart"}
InReconcile == {"invoices", "deletePeriod", "insertRec"}
RevJob ==
  [at : {"idle", "load", "row", "ended"} \cup InRow \cup InReconcile,
   kind : {"compute", "reconcile"}, force : BOOLEAN, run : 1..MaxRuns,
   left : SUBSET (Versions \cup Periods), version : Versions \cup {NoVersion},
   number : 1..NumObligations, part : 1..Len(Parts), ids : SUBSET Obligations]

RevRecTypeOK ==
  /\ revObls \subseteq Obligations
  /\ revParts \subseteq Obligations \X Tables
  /\ revRecs \subseteq RevJobs \X (1..MaxRuns) \X Periods
  /\ revFaults \subseteq {"overlap", "failure", "death"}
  /\ revJobs \in [RevJobs -> RevJob]

\* Revenue of a contract is recognized once: of one version, by one run, unless
\* two jobs overlapped.  Neither a version more, nor recomputing, nor a failing
\* statement or a worker that dies and a job that runs again doubles it.
RecognizedOnce ==
  "overlap" \notin revFaults =>
    \A o, p \in revObls : o[1] = p[1] /\ o[2] = p[2] /\ o[3] = p[3]

\* What no job is working on is whole: NumObligations obligations, each with its
\* rows in every child table, unless a statement failed, a worker died or two
\* jobs overlapped.  (After those nothing repairs it: the next job skips the
\* contract for the obligations it finds, unless it is forced.)
WholeOrFailed ==
  revFaults = {} /\ (\A j \in RevJobs : ~BusyRev(j)) =>
    /\ Cardinality(revObls) \in {0, NumObligations}
    /\ revParts = revObls \X Tables

\* A period of a contract has one reconciliation, unless two jobs overlapped.
ReconciledOnce ==
  "overlap" \notin revFaults => \A r, s \in revRecs : r[3] = s[3] => r = s

\* Types; revenue of a contract is recognized once, what no job works on is
\* whole, and a period has one reconciliation (processRevRecComputeJob,
\* processRevRecReconcileJob).
RevenueInv == RevRecTypeOK /\ RecognizedOnce /\ WholeOrFailed /\ ReconciledOnce
=============================================================================
