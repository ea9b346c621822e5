----------------------------- MODULE WhatIfState -----------------------------
(***************************************************************************)
(* What SimEngine keeps while it runs a simulation, and what it promises   *)
(* of the result.                                                          *)
(*                                                                         *)
(* A book has contracts, invoices and obligations by id.  Amounts and days *)
(* are integers, percentages are rounded down.                             *)
(***************************************************************************)
EXTENDS Integers, Sequences, FiniteSets, Functions

CONSTANTS
  Null,           \* a column without a value
  SimBooks,       \* the snapshots to simulate on
  Overrides,      \* the rows of simulation_overrides to choose from
  MaxOverrides

Targets ==
  [contract_term |-> {"contract"}, usage_adjustment |-> {"contract"},
   billing_adjustment |-> {"invoice", "line_item"},
   timing_shift |-> {"contract", "obligation"},
   discount_change |-> {"contract", "invoice", "line_item"},
   price_change |-> {"contract", "line_item", "obligation"}]

\* The rows of a snapshot, by the ids there are.
BookOf(contracts, invoices, obligations) ==
  [contracts : [contracts -> [arr : Int \cup {Null}, customer : STRING,
                              start : Int \cup {Null}, end : Int \cup {Null}]],
   invoices : [invoices -> [total : Int]],
   obligations : [obligations -> [price : Int, start : Int \cup {Null}, end : Int \cup {Null}]]]

ASSUME WhatIfAssumption ==
  /\ Null \notin Int /\ MaxOverrides \in Nat
  /\ \A b \in SimBooks :
       /\ b \in BookOf(DOMAIN b.contracts, DOMAIN b.invoices, DOMAIN b.obligations)
       /\ IsFiniteSet(DOMAIN b.contracts) /\ IsFiniteSet(DOMAIN b.obligations)
  /\ Overrides \subseteq [type : DOMAIN Targets, on : STRING, id : STRING,
                          field : STRING \cup {Null}, op : STRING, by : Int, seq : Int]
  /\ \A o \in Overrides : o.type = "timing_shift" => o.field \in {"start", "end"}

VARIABLES
  simBook,        \* the rows of the snapshot
  simGiven,       \* the overrides as the database returns them
  simStage,       \* the step of runSimulation that is next
  simValid,       \* valid overrides still to be applied, in order
  simContext,     \* the copy they are applied to
  simApplied,     \* overrides applied, in order
  simSkipped,     \* overrides found invalid
  simDeltas,      \* delta records
  simSummary      \* the summary of the result

whatIfVars ==
  <<simBook, simGiven, simStage, simValid, simContext, simApplied, simSkipped, simDeltas,
    simSummary>>

TargetExists(b, o) ==
  CASE o.on = "contract" -> o.id \in DOMAIN b.contracts
    [] o.on = "invoice" -> o.id \in DOMAIN b.invoices
    [] o.on = "obligation" -> o.id \in DOMAIN b.obligations
    [] o.on = "customer" -> \E c \in DOMAIN b.contracts : b.contracts[c].customer = o.id
    [] OTHER -> TRUE

\* What a term may name: the columns of a contract that validateContractTermOverride lists.
ContractFields ==
  {"arr", "discount_rate", "billing_frequency", "start", "end", "currency", "name"}

Valid(b, o) ==
  /\ TargetExists(b, o)
  /\ o.on \in Targets[o.type]
  /\ o.type = "contract_term" =>
       /\ o.field \in ContractFields \cup {Null}
       /\ o.field \in {"arr", "discount_rate"} => o.op # "null"
       /\ o.field = "arr" => o.by >= 0
  /\ o.type = "discount_change" /\ o.op = "pct" => o.by \in 0..100
  /\ o.type = "usage_adjustment" => o.op \in {"add", "remove", "modify"}

OfKind(deltas, kind) == {d \in deltas : d.kind = kind}
AmountOf(deltas) == SumFunction([d \in deltas |-> d.amount])

-----------------------------------------------------------------------------
\* The change of revenue is that of the contracts the deltas name, and each delta is
\* of a row that some override targets (computeDeltas, aggregateSummary).
DeltasAddUp ==
  simStage = "done" =>
    /\ simSummary.total = AmountOf(OfKind(simDeltas, "contract_impact"))
    /\ \A d \in simDeltas :
         d.kind # "revenue_total" => \E i \in DOMAIN simApplied : simApplied[i].id = d.id

\* The ARR that an override sets is the contract's in the end, unless one that does
\* not come before it in the sequence changes it again (validateOverrides,
\* applyOverrides).
LastSetStands ==
  simStage = "done" =>
    \A i \in DOMAIN simGiven :
      LET o == simGiven[i]
          Sets(p) == p.type = "contract_term" /\ p.field = "arr"
          Again(p) == /\ p.on = "contract" /\ p.id = o.id /\ p.seq >= o.seq
                      /\ Sets(p) \/ p.type \in {"price_change", "discount_change"} IN
      Sets(o) /\ Valid(simBook, o) /\ (\A j \in DOMAIN simGiven \ {i} : ~Again(simGiven[j])) =>
        simContext.contracts[o.id].arr = o.by

\* Deltas add up and name what was overridden, and overrides take effect in their
\* sequence (runSimulation).
WhatIfInv == DeltasAddUp /\ LastSetStands
=============================================================================
