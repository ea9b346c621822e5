------------------------------ MODULE MCQueues ------------------------------
(***************************************************************************)
(* JobQueue and Exports for TLC under fairness, in one run: a behaviour is *)
(* one of either module, as machine says, in which the other does not      *)
(* start.  Requests, jobs and the number of stalls are the same in both.   *)
(***************************************************************************)
EXTENDS MCJobQueue

CONSTANTS Exports, NoExport, Ticks

VARIABLES machine, exports, files, stored, audit, runs, job, expRun, actor

exportVars == <<exports, files, stored, audit, runs, job, expRun, actor>>

Export == INSTANCE Exports WITH run <- expRun

SumInit ==
  /\ machine \in {"queue", "export"}
  /\ Init /\ Export!Init

InQueue == machine = "queue" /\ UNCHANGED <<machine, exportVars>>
InExport == machine = "export" /\ UNCHANGED <<machine, vars>>

SumNext == (Next /\ InQueue) \/ (Export!Next /\ InExport)

sumVars == <<machine, vars, exportVars>>

\* The fairness of either module.
SumFairness ==
  /\ \A c \in Clients : WF_sumVars(RequestStep(c) /\ InQueue)
  /\ \A w \in Workers : WF_sumVars(HandlerStep(w) /\ InQueue)
  /\ \A j \in Jobs :
       /\ WF_sumVars((\E w \in Workers : Fetch(w, j)) /\ InQueue)
       /\ WF_sumVars(StalledCheck(j) /\ InQueue)
       /\ WF_sumVars(Export!Fetch(j) /\ InExport)
       /\ WF_sumVars(Export!StalledDead(j) /\ InExport)
       /\ \A n \in 1..(MaxStalls + 1) : WF_sumVars(Export!RunStep(j, n) /\ InExport)

SumSpec == SumInit /\ [][SumNext]_sumVars /\ SumFairness

\* An export whose job is queued gets a verdict, is cancelled or is deleted, unless
\* something of it fails for good (processExportJob, the exports queue).
ExportsSettle == Export!ExportsSettle
=============================================================================
