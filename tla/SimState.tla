------------------------------ MODULE SimState ------------------------------
(***************************************************************************)
(* What Simulations keeps, and what it promises: the rows of one           *)
(* simulation, its overrides and runs, the jobs and requests at work on    *)
(* them, and the invariants.                                               *)
(***************************************************************************)
EXTENDS Integers, FiniteSets, SequencesExt

CONSTANTS
  None,
  SimActors,      \* requests
  SimKinds,       \* what overrides do: "fine", "throws", "overflows"
  SimTemplate,    \* the overrides of a template, in order
  SimSeqs,        \* sequence numbers a request may give; 0 is the default
  MaxSimRows,     \* overrides inserted at most
  MaxSimRuns,
  MaxSimFaults

VARIABLES
  simStatus,      \* simulations.status, or None without a row
  simCreated,     \* it has been created
  simRows,        \* simRows[k]: the k-th simulation_overrides row inserted, or None
  simRuns,        \* simRuns[n]: the simulation_runs row of number n, its result and deltas
  simJobs,        \* simJobs[n][d]: where the d-th run of the job for n stands
  simActors,
  simLate,        \* history: a request wrote after the draft it had read was run
  simFaults       \* history: how many calls failed, workers died, locks were lost

simVars == <<simStatus, simCreated, simRows, simRuns, simJobs, simActors, simLate, simFaults>>

Numbers == 1..MaxSimRuns
Places == 1..MaxSimRows
Statuses == {"draft", "pending", "completed", "failed", "cancelled"}
Rows == {k \in Places : simRows[k] # None}

\* Where a job is in its try block, and in its catch block.
InCatch == {"fail run", "fail simulation"}
InTry == {"start", "load", "result", "deltas", "complete run", "complete simulation", "audit"}
Working(n, d) == simJobs[n][d].at \in InTry \cup InCatch

(***************************************************************************)
(* Properties                                                              *)
(***************************************************************************)
Row == [kind : SimKinds \cup ToSet(SimTemplate), seq : Nat]
Used == [place : Places, row : Row]
SimRun == [status : {"pending", "running", "completed", "failed"},
           result : Seq(Used) \cup {None}, deltas : Nat]
SimJob == [at : {"none", "ended", "dead"} \cup InTry \cup InCatch, read : Seq(Used) \cup {None}]

\* What a request holds between two calls.
Holds(a) ==
  LET what == simActors[a].what IN
  CASE simActors[a].at = "idle" -> what = None
    [] simActors[a].at = "copy" -> what \in 1..Len(SimTemplate)
    [] simActors[a].at = "insert override" -> what \in Row
    [] simActors[a].at = "delete override" -> what \in Places
    [] simActors[a].at = "update" -> what \in {"draft", "cancelled"}
    [] simActors[a].at \in {"insert run", "set pending", "enqueue"} -> what \in Numbers
    [] OTHER -> FALSE

SimTypeOK ==
  /\ simStatus \in Statuses \cup {None} /\ simCreated \in BOOLEAN
  /\ simRows \in [Places -> Row \cup {None}]
  /\ simRuns \in [Numbers -> SimRun \cup {None}]
  /\ simJobs \in [Numbers -> [1..2 -> SimJob]]
  /\ simActors = [a \in SimActors |-> [at |-> simActors[a].at, read |-> simActors[a].read,
                                      what |-> simActors[a].what]]
  /\ \A a \in SimActors : simActors[a].read \in Statuses \cup {None} /\ Holds(a)
  /\ simLate \in BOOLEAN /\ simFaults \in 0..MaxSimFaults

\* A run that says it is completed has its result and its deltas, once, whatever runs
\* of its job came before or beside it (processSimulationRunJob).
CompletedIsWhole ==
  \A n \in Numbers : simRuns[n] # None /\ simRuns[n].status = "completed" =>
    simRuns[n].result # None /\ simRuns[n].deltas = 1

\* The overrides the simulation has, in their sequence.
IsCurrent(used) ==
  /\ {used[i].place : i \in DOMAIN used} = Rows
  /\ \A i \in DOMAIN used : used[i].row = simRows[used[i].place]
  /\ \A i, j \in DOMAIN used : i < j => used[i].row.seq <= used[j].row.seq

\* The results of a simulation are those of the overrides it has, in their sequence,
\* unless a request went on from a draft that had meanwhile been run (the routes on
\* overrides, the processor).
ResultsAreCurrent ==
  ~simLate => \A n \in Numbers : simRuns[n] # None /\ simRuns[n].status = "completed" =>
    IsCurrent(simRuns[n].result)

\* A simulation that waits, and a run that is not over, wait for somebody, or some
\* call failed or some worker died (the run route, the processor).
WaitingHasACause ==
  (/\ \A a \in SimActors : simActors[a].at = "idle"
   /\ \A n \in Numbers, d \in 1..2 : ~Working(n, d)) /\ simFaults = 0
  => /\ simStatus # "pending"
     /\ \A n \in Numbers : simRuns[n] # None => simRuns[n].status \notin {"pending", "running"}

\* Types; a completed run is whole and its results are those of the overrides the
\* simulation has; what waits waits for somebody (the simulation routes,
\* processSimulationRunJob).
SimulationInv ==
  SimTypeOK /\ CompletedIsWhole /\ ResultsAreCurrent /\ WaitingHasACause

\* A missing row, and no result, are told apart from any; sequence numbers are such.
ASSUME SimAssumption ==
  /\ SimTemplate \in Seq(STRING) /\ SimSeqs \subseteq Nat
  /\ MaxSimRows \in Nat /\ MaxSimRuns \in Nat /\ MaxSimFaults \in Nat
  /\ None \notin Row /\ None \notin SimRun /\ None \notin Seq(Used) /\ None \notin Statuses
=============================================================================
