---------------------------- MODULE MCJobsIssues ----------------------------
(***************************************************************************)
(* JobQueue and Detection for TLC, in one run: a behaviour is one of       *)
(* either module, as machine says, in which the other does not start, so   *)
(* that the properties of both hold throughout.                            *)
(***************************************************************************)
EXTENDS MCJobQueue, DetectionState

VARIABLE machine

Detect == INSTANCE Detection

\* The jobs and requests of both modules are the same model values.
SumSymmetry == Symmetry \cup Permutations(DetKeys)

\* At most three detection jobs, requests about issues and deaths of workers
\* together.
FewActors ==
  Cardinality({j \in DetJobs : detJobs[j].at # "none"})
    + Cardinality({a \in DetActors : detActors[a].at # "idle"}) <= 3 - detDeaths

SumInit ==
  /\ Init /\ Detect!Init
  /\ \/ machine = "queue" /\ detFound = [f \in Configs |-> {}]
     \/ machine = "detection"

SumNext ==
  \/ machine = "queue" /\ Next /\ UNCHANGED <<machine, detVars>>
  \/ machine = "detection" /\ Detect!Next /\ UNCHANGED <<machine, vars>>

SumSpec == SumInit /\ [][SumNext]_<<machine, vars, detVars>>
=============================================================================
