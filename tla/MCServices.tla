----------------------------- MODULE MCServices -----------------------------
(***************************************************************************)
(* RevRec, RevRecJobs, Rules, SimEngine and Simulations for TLC, in one    *)
(* run: a behaviour is one of a module, as machine says, and leaves the    *)
(* others' variables alone.  Months have three days in RevRec, and         *)
(* services up to six.                                                     *)
(***************************************************************************)
EXTENDS RevRecState, SimState, ScheduleState, WhatIfState, RulesState, TLC

INSTANCE MCRuleBooks

MCEndOfMonth(d) == ((d + 2) \div 3) * 3
MCBills == {[id |-> "b1", start |-> 2, end |-> 3, total |-> 5, date |-> 3],
          [id |-> "b2", start |-> 2, end |-> 3, total |-> 40, date |-> 2],
          [id |-> "b3", start |-> 5, end |-> 5, total |-> 7, date |-> 5]}

MCParts == <<"allocations", "schedules">>

\* A contract with revenue and one without, an invoice, an obligation.
MCSimBooks ==
  {[contracts |-> [c1 |-> [arr |-> 100, customer |-> "u1", start |-> 1, end |-> 5],
                   c2 |-> [arr |-> Null, customer |-> "u1", start |-> 1, end |-> Null]],
    invoices |-> [i1 |-> [total |-> 200]],
    obligations |-> [o1 |-> [price |-> 100, start |-> Null, end |-> 5]]]}
Override(type, on, id, field, op, by) ==
  {[type |-> type, on |-> on, id |-> id, field |-> field, op |-> op, by |-> by, seq |-> seq] :
     seq \in {0, 1}}
MCOverrides ==
  UNION {Override("contract_term", "contract", "c1", "arr", "set", 200),
         Override("contract_term", "contract", "c1", "arr", "set", -100),
         Override("contract_term", "contract", "c1", "end", "set", 9),
         Override("contract_term", "contract", "c1", "discount_rate", "null", 0),
         Override("contract_term", "contract", "c1", "owner", "set", 9),
         Override("price_change", "contract", "c1", Null, "pct", 50),
         Override("price_change", "contract", "c2", Null, "delta", 100),
         Override("price_change", "contract", "c3", Null, "set", 100),
         Override("price_change", "obligation", "o1", Null, "set", 300),
         Override("discount_change", "contract", "c1", Null, "pct", 50),
         Override("discount_change", "contract", "c2", Null, "amount", 10),
         Override("discount_change", "invoice", "i1", Null, "pct", 150),
         Override("discount_change", "contract", "c1", Null, "null", 0),
         Override("billing_adjustment", "invoice", "i1", Null, "amount", 50),
         Override("billing_adjustment", "line_item", "l1", Null, "amount", 50),
         Override("billing_adjustment", "line_item", "l1", Null, "null", 0),
         Override("timing_shift", "obligation", "o1", "end", "days", 10),
         Override("usage_adjustment", "contract", "c1", Null, "add", 0)}
MCTemplate == <<"fine", "throws">>

VARIABLE machine

Engine == INSTANCE RevRec
Workers == INSTANCE RevRecJobs
Rule == INSTANCE Rules
WhatIf == INSTANCE SimEngine
Simulation == INSTANCE Simulations

Symmetry == Permutations(RevJobs) \cup Permutations(Versions) \cup Permutations(Periods)
              \cup Permutations(SimActors)

NoRules ==
  rulBook = None /\ rulStep = None /\ rulFired = None /\ rulRaw = None /\ rulIssues = None
NoWhatIf ==
  /\ simBook = None /\ simGiven = None /\ simStage = None /\ simValid = None
  /\ simContext = None /\ simApplied = None /\ simSkipped = None /\ simDeltas = None
  /\ simSummary = None

\* Those with invariants of their own stay as they begin.
NoEngine == contract = (CHOOSE c \in Contract : TRUE) /\ Engine!Init
NoWorkers == Workers!Init
NoSimulation == Simulation!Init

Init ==
  \/ /\ machine = "engine" /\ Engine!Init
     /\ NoWorkers /\ NoRules /\ NoWhatIf /\ NoSimulation
  \/ /\ machine = "workers" /\ Workers!Init
     /\ NoEngine /\ NoRules /\ NoWhatIf /\ NoSimulation
  \/ /\ machine = "rules" /\ Rule!Init
     /\ NoEngine /\ NoWorkers /\ NoWhatIf /\ NoSimulation
  \/ /\ machine = "what if" /\ WhatIf!Init
     /\ NoEngine /\ NoWorkers /\ NoRules /\ NoSimulation
  \/ /\ machine = "simulation" /\ Simulation!Init
     /\ NoEngine /\ NoWorkers /\ NoRules /\ NoWhatIf

InEngine ==
  machine = "engine" /\ UNCHANGED <<machine, revVars, rulVars, whatIfVars, simVars>>
InWorkers ==
  machine = "workers" /\ UNCHANGED <<machine, scheduleVars, rulVars, whatIfVars, simVars>>
InRules ==
  machine = "rules" /\ UNCHANGED <<machine, scheduleVars, revVars, whatIfVars, simVars>>
InWhatIf ==
  machine = "what if" /\ UNCHANGED <<machine, scheduleVars, revVars, rulVars, simVars>>
InSimulation ==
  machine = "simulation" /\ UNCHANGED <<machine, scheduleVars, revVars, rulVars, whatIfVars>>

Next ==
  \/ InEngine /\ Engine!Next
  \/ InWorkers /\ Workers!Next
  \/ InRules /\ Rule!Next
  \/ InWhatIf /\ WhatIf!Next
  \/ InSimulation /\ Simulation!Next

Spec ==
  /\ Init
  /\ [][Next]_<<machine, scheduleVars, revVars, rulVars, whatIfVars, simVars>>

\* Overrides, a second run, a stall, a failure and a request between two calls while one
\* of them is there: not all of them together, and no failure once it is deleted.  Nothing
\* is claimed of computations that overlap but their types, so nothing fails in them.
Bound ==
  LET busy == Cardinality({a \in SimActors : simActors[a].at # "idle"}) IN
  /\ "overlap" \in revFaults => revFaults = {"overlap"}
  /\ simStatus = None => simFaults = 0
  /\ Cardinality(Rows) + simFaults
       + (IF simRuns[2] # None THEN 2 ELSE 0)
       + (IF \E n \in Numbers : simJobs[n][2].at # "none" THEN 1 ELSE 0)
       + (IF busy = 2 THEN 1 ELSE 0) <= 3

\* A leak is reported whatever else is wrong in the book, unless a rule threw, was
\* gated or gave way to a more specific one, and a contract that is billed as agreed is
\* not reported (runDetection, the rules).
LeaksInv == machine = "rules" => Rule!PlantedIsFound /\ Rule!CleanIsQuiet

\* A simulation computes the same whichever way round the database returns overrides
\* of one number, unless they are of one row (runSimulation).
OrderDoesNotMatter == machine = "what if" => WhatIf!OrderDoesNotMatter

RulesSpec == machine = "rules" /\ Spec

\* A billing period for which no invoice was made is reported (R001).
MissingIsFound == machine = "rules" => Rule!MissingIsFound
=============================================================================
