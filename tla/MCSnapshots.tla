----------------------------- MODULE MCSnapshots -----------------------------
(***************************************************************************)
(* Ingestion, twice, and Identity for TLC, in one run: the attempts of     *)
(* MCIngestion, one after the other; two attempts that overlap, over a     *)
(* customer and its invoice; the customers of a snapshot and who they are. *)
(* A behaviour is one of them, as machine says, and leaves the variables   *)
(* of the others alone.                                                    *)
(***************************************************************************)
EXTENDS MCIngestion, IdentityState

VARIABLES machine, lapSnapshot, lapStaging, lapCanon, lapJob

lapVars == <<lapSnapshot, lapStaging, lapCanon, lapJob>>

Pair == {"cust", "inv"}
Overlap == INSTANCE Ingestion WITH
  Records <- Pair, Type <- [r \in Pair |-> MCType[r]],
  Refs <- [r \in Pair |-> MCRefs[r] \cap Pair],
  LinesOf <- [r \in Pair |-> IF r = "inv" THEN <<NoRecord>> ELSE <<>>],
  Mappable <- Pair, Batches <- {"b1"}, Contents <- [b \in {"b1"} |-> Pair],
  MayStall <- TRUE, NormalizeLimit <- 2, UpsertLimit <- 2,
  snapshot <- lapSnapshot, staging <- lapStaging, canon <- lapCanon, job <- lapJob

\* Customers whose pairs are at the thresholds: two merged pairs with a doubtful one
\* between them, a doubtful pair between two merged ones that share a customer, and two
\* doubtful pairs that share one.
Names == {"acme", "acne", "zeta"}
IdnSimilarity ==
  [n \in Names |-> [m \in Names |->
     IF n = m THEN 100 ELSE IF "zeta" \in {n, m} THEN 0 ELSE 87]]
IdnConfigs ==
  {[auto |-> 90, review |-> 70, keys |-> {"domain", "normalized_name"},
    weights |-> [name |-> 40, domain |-> 25, tax |-> 20, address |-> 10, external |-> 5]]}

Customer(name, domain, tax, address, source, external) ==
  [name |-> name, source |-> source, external |-> external, tax |-> tax, address |-> address,
   keys |-> [domain |-> domain, normalized_name |-> name, tax_id |-> tax,
             address |-> address]]
Apart == Customer("zeta", None, None, None, "stripe", 9)
IdnBooks ==
  {<<Customer("acme", "d1", "t1", "a0", "stripe", 1),
     Customer("acme", "d1", "t1", "a1", "salesforce", 1),
     Customer("acme", "d2", "t1", "a1", "stripe", 2),
     Customer("acme", "d2", "t1", "a2", "salesforce", 2)>>,
   <<Customer("acme", "d1", "t1", "a1", "stripe", 1),
     Customer("acme", "d1", "t1", "a1", "stripe", 2),
     Customer("acme", "d1", "t1", "a2", "salesforce", 2), Apart>>,
   <<Customer("acne", "d1", "t1", None, "stripe", 1),
     Customer("acme", "d1", "t1", "a1", "stripe", 2),
     Customer("acme", None, "t1", "a1", "stripe", 3), Apart>>}

Identities == INSTANCE Identity

\* Jobs are queued in the order of their numbers, each after the one before has begun;
\* then a run again with a fault, in the last book beside the first try, or two decisions
\* and a job, or a decision and two tries at once, or a fault while one is applied.
IdnTries == IdnJobs \X {1, 2}
Begun(try) == idnJobs[try[1]].tries[try[2]].at # "none"
IdnEnded == {"none", "done", "failed", "dead"}
RunTries == {try \in IdnTries : idnJobs[try[1]].run # None /\ Begun(try)}
Active == {try \in RunTries : idnJobs[try[1]].tries[try[2]].at \notin IdnEnded}
Whole == \A try \in RunTries : idnJobs[try[1]].tries[try[2]].at = "done"
Resolving == Cardinality(RunTries)
Applied == Cardinality({try \in IdnTries : idnJobs[try[1]].decisions # {} /\ Begun(try)})
Decided == Cardinality({d \in 1..MaxIdnDecisions : idnDecisions[d] # None})
Queued(j) == idnJobs[j].run # None \/ idnJobs[j].decisions # {}
IdentityBound ==
  machine = "identity" =>
    /\ \A j \in {2, 3} : Queued(j) => Queued(j - 1) /\ Begun(<<j - 1, 1>>)
    /\ idnActors[1].at = "decide" =>
         Decided + Applied + idnFaults <= 2 /\ (Applied = 0 \/ idnFaults = 0)
    /\ Cardinality(Active) > 1 => idnBook[1].name = "acne"
    /\ \/ Decided + Applied = 0 /\ Resolving <= 2 /\ Resolving + idnFaults <= 3
       \/ Resolving <= 1 /\ Active = {} /\ idnFaults = 0 /\ Applied + Decided <= 3
       \/ Decided <= 1 /\ Whole /\ Resolving <= 2 /\ Resolving + idnFaults + Applied <= 3
       \/ /\ Decided <= 1 /\ Active = {} /\ Resolving <= 1 /\ Resolving + idnFaults + Applied <= 4
          /\ \A j \in IdnJobs : Cardinality(idnJobs[j].decisions) <= 1

\* Of two attempts that overlap, statements of one fail.
OverlapBound ==
  machine = "overlap" => \E a \in Overlap!Attempts : lapJob[a].clean = "yes"

Bound == IdentityBound /\ OverlapBound

NoOverlap == lapSnapshot = None /\ lapStaging = None /\ lapCanon = None /\ lapJob = None
NoIdentity == idnBook = (CHOOSE b \in IdnBooks : TRUE) /\ Identities!Init

SumInit ==
  /\ Init
  /\ \/ machine = "retries" /\ NoOverlap /\ NoIdentity
     \/ machine = "overlap" /\ Overlap!Init /\ NoIdentity
     \/ machine = "identity" /\ NoOverlap /\ Identities!Init

SumNext ==
  \/ machine = "retries" /\ Next /\ UNCHANGED <<machine, lapVars, idnVars>>
  \/ machine = "overlap" /\ Overlap!Next /\ UNCHANGED <<machine, vars, idnVars>>
  \/ machine = "identity" /\ Identities!Next /\ UNCHANGED <<machine, vars, lapVars>>

SumSpec == SumInit /\ [][SumNext]_<<machine, vars, lapVars, idnVars>>

\* Types, and no line of an invoice is inserted twice, by attempts that overlap
\* (ingest.upsert).
OverlapInv == machine = "overlap" => Overlap!TypeOK /\ Overlap!LinesOnce
=============================================================================
