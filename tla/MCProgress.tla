----------------------------- MODULE MCProgress -----------------------------
(***************************************************************************)
(* What must come about, for TLC, in one run: a behaviour is one of        *)
(* Digests, of Review or of Ingestion, as machine says, and leaves the     *)
(* variables of the others alone.  Ingestion has a single attempt here,    *)
(* over one record of each type, one of which the mapper refuses.          *)
(***************************************************************************)
EXTENDS DigestState, ReviewState, Sequences

NoRecord == "no_record"
Types == <<"product", "customer", "contract", "invoice", "payment", "pricePlan">>
Batches == {"b1"}
Type == [prod |-> "product", cust |-> "customer", contr |-> "contract",
         inv |-> "invoice", pay |-> "payment", plan |-> "pricePlan"]
Records == DOMAIN Type
Refs == [prod |-> {}, cust |-> {}, contr |-> {"cust"}, inv |-> {"cust", "contr"},
         pay |-> {"inv", "cust"}, plan |-> {"prod"}]
LinesOf == [r \in Records |-> IF r = "inv" THEN <<"prod", NoRecord>> ELSE <<>>]
Mappable == Records \ {"contr"}
Contents == [b \in Batches |-> Records]
MaxAttempts == 1
MayStall == FALSE
NormalizeLimit == 2
UpsertLimit == 4
MaxFailed == 0

VARIABLES machine, snapshot, staging, canon, job

attemptVars == <<snapshot, staging, canon, job>>
allVars == <<machine, digVars, revwVars, attemptVars>>

Digest == INSTANCE Digests
Queue == INSTANCE Review
Attempt == INSTANCE Ingestion

InAttempt == machine = "attempt"
InDigest == machine = "digest"
InQueue == machine = "queue"

Init ==
  /\ Digest!Init /\ Queue!Init /\ Attempt!Init
  /\ machine \in {"digest", "queue", "attempt"}

Next ==
  \/ InDigest /\ Digest!Next /\ UNCHANGED <<machine, revwVars, attemptVars>>
  \/ InQueue /\ Queue!Next /\ UNCHANGED <<machine, digVars, attemptVars>>
  \/ InAttempt /\ Attempt!Next /\ UNCHANGED <<machine, digVars, revwVars>>

\* The fairness of the module that runs; a running attempt goes on, and BullMQ starts the
\* attempt it owes.
Fairness ==
  /\ \A a \in Actors :
       /\ WF_allVars(InDigest /\ Digest!CheckSubscription(a)
                      /\ UNCHANGED <<machine, revwVars, attemptVars>>)
       /\ WF_allVars(InDigest /\ Digest!Schedule(a) /\ UNCHANGED <<machine, revwVars, attemptVars>>)
  /\ \A r \in DigestRuns :
       WF_allVars(InDigest /\ Digest!Send(r) /\ UNCHANGED <<machine, revwVars, attemptVars>>)
  /\ \A s \in Sweeps :
       WF_allVars(InQueue /\ Queue!Sweep(s) /\ UNCHANGED <<machine, digVars, attemptVars>>)
  /\ \A i \in Items :
       WF_allVars(InQueue /\ Queue!Age(i) /\ UNCHANGED <<machine, digVars, attemptVars>>)
  /\ WF_allVars(InAttempt /\ Attempt!Start(1) /\ UNCHANGED <<machine, digVars, revwVars>>)
  /\ WF_allVars(InAttempt /\ Attempt!Step(1) /\ UNCHANGED <<machine, digVars, revwVars>>)

Spec == Init /\ [][Next]_allVars /\ Fairness

\* A digest that fails is tried again (checkDigestSubscriptions).
DigestsComplete ==
  [](InDigest /\ digSub = "active") => <>(InDigest => Completed # {})

\* Nobody keeps an item for ever (cleanupOrphanedReviewItems).
StuckItemsReturn == \A i \in Items :
  (InQueue /\ revwItems[i].status = "in_review") ~> (InQueue /\ revwItems[i].status # "in_review")

\* The normalize stage in pages of two over up to six records leaves behind what
\* its offset passes over and no more (ingest-normalize.ts).
LeftBehindIsBounded == Attempt!LeftBehindIsBounded

\* The page loops of the attempt end.
AttemptEnds ==
  (InAttempt /\ job[1].pc = "begin") ~> (InAttempt /\ job[1].pc \in {"returned", "dead"})
=============================================================================
