----------------------------- MODULE SimEngine ------------------------------
(***************************************************************************)
(* The simulation engine (packages/utils/src/simulation): overrides are    *)
(* put in order and validated against the rows of a snapshot, applied to a *)
(* copy of them one after another, and what differs is summed up.          *)
(*                                                                         *)
(* An override of a field that no amount or date depends on (name,         *)
(* currency, billing frequency) changes nothing here.  No override touches *)
(* a schedule, so that periods never differ and are left out.              *)
(***************************************************************************)
EXTENDS WhatIfState, SequencesExt

-----------------------------------------------------------------------------
\* Validation

\* A mutant of Before: the rows as they come.
AsGiven(rows, i, j) == i < j

\* By sequence number; what has the same number keeps its place.
Before(rows, i, j) ==
  rows[i].seq < rows[j].seq \/ (rows[i].seq = rows[j].seq /\ i < j)

Sorted(rows, valid) ==
  CHOOSE f \in [1..Cardinality(valid) -> valid] :
    \A k, n \in DOMAIN f : k < n => Before(rows, f[k], f[n])

\* A mutant of InSequence: rows kept by their number, of which the last one stays.
InSequenceByNumber(b, rows) ==
  LET valid == {i \in DOMAIN rows : Valid(b, rows[i])}
      order == Sorted(rows, {i \in valid : ~\E j \in valid : j > i /\ rows[j].seq = rows[i].seq})
  IN [k \in DOMAIN order |-> rows[order[k]]]

\* The valid rows in that order.
InSequence(b, rows) ==
  LET order == Sorted(rows, {i \in DOMAIN rows : Valid(b, rows[i])})
  IN [k \in DOMAIN order |-> rows[order[k]]]

\* The value of an override may be null, whose members cannot be read: they are for all
\* but a term of a contract and the price of a line item, which is not applied.
ReadsNull(b, o) ==
  /\ o.op = "null" /\ TargetExists(b, o) /\ o.on \in Targets[o.type]
  /\ o.type # "contract_term"
  /\ o.on = "line_item" => o.type # "price_change"

-----------------------------------------------------------------------------
\* Application

Or0(amount) == IF amount = Null THEN 0 ELSE amount

Changed(amount, o) ==
  CASE o.op = "set" -> o.by
    [] o.op = "delta" -> Or0(amount) + o.by
    [] o.op = "pct" -> (Or0(amount) * (100 + o.by)) \div 100
    [] OTHER -> amount
Discounted(amount, o) ==
  IF o.op = "pct" THEN (amount * (100 - o.by)) \div 100 ELSE amount - o.by
Moved(day, o) ==
  CASE o.op = "set" -> o.by
    [] o.op = "days" /\ day # Null -> day + o.by
    [] OTHER -> day

\* No row is changed for usage, a line item, and a discount on a contract without ARR.
IsApplied(b, o) ==
  /\ o.type # "usage_adjustment" /\ o.on # "line_item"
  /\ o.type = "discount_change" /\ o.on = "contract" => b.contracts[o.id].arr \notin {Null, 0}

ApplyContractTerm(b, o) ==
  IF o.field \in {"arr", "start", "end"} THEN [b EXCEPT !.contracts[o.id][o.field] = o.by] ELSE b
ApplyPriceChange(b, o) ==
  IF o.on = "contract" THEN [b EXCEPT !.contracts[o.id].arr = Changed(@, o)]
  ELSE [b EXCEPT !.obligations[o.id].price = Changed(@, o)]
ApplyTimingShift(b, o) ==
  IF o.on = "contract" THEN [b EXCEPT !.contracts[o.id][o.field] = Moved(@, o)]
  ELSE [b EXCEPT !.obligations[o.id][o.field] = Moved(@, o)]
ApplyDiscount(b, o) ==
  IF o.on = "contract" THEN [b EXCEPT !.contracts[o.id].arr = Discounted(@, o)]
  ELSE [b EXCEPT !.invoices[o.id].total = Discounted(@, o)]
ApplyBilling(b, o) ==
  [b EXCEPT !.invoices[o.id].total =
     IF o.op = "pct" THEN (@ * (100 + o.by)) \div 100 ELSE @ + o.by]

Apply(b, o) ==
  CASE o.type = "contract_term" -> ApplyContractTerm(b, o)
    [] o.type = "price_change" -> ApplyPriceChange(b, o)
    [] o.type = "timing_shift" -> ApplyTimingShift(b, o)
    [] o.type = "discount_change" -> ApplyDiscount(b, o)
    [] o.type = "billing_adjustment" -> ApplyBilling(b, o)

-----------------------------------------------------------------------------
\* Deltas

Delta(kind, id, old, new) ==
  [kind |-> kind, id |-> id, baseline |-> old, simulated |-> new, amount |-> new - old]

ContractDeltas(b, m) ==
  {Delta("contract_impact", c, Or0(b.contracts[c].arr), Or0(m.contracts[c].arr)) :
     c \in {d \in DOMAIN m.contracts : Or0(b.contracts[d].arr) # Or0(m.contracts[d].arr)}}
ObligationDeltas(b, m) ==
  {Delta("obligation_impact", o, b.obligations[o].price, m.obligations[o].price) :
     o \in {p \in DOMAIN m.obligations : b.obligations[p].price # m.obligations[p].price}}

Revenue(b) == SumFunction([c \in DOMAIN b.contracts |-> Or0(b.contracts[c].arr)])
TotalDelta(b, m) ==
  IF Revenue(b) = Revenue(m) THEN {}
  ELSE {Delta("revenue_total", Null, Revenue(b), Revenue(m))}

Summary(deltas, applied, skipped) ==
  [total |-> AmountOf(OfKind(deltas, "revenue_total")),
   contracts |-> Cardinality(OfKind(deltas, "contract_impact")),
   obligations |-> Cardinality(OfKind(deltas, "obligation_impact")),
   applied |-> Len(applied), skipped |-> Cardinality(skipped)]

-----------------------------------------------------------------------------
\* runSimulation

Init ==
  /\ simBook \in SimBooks
  /\ simGiven \in UNION {[1..n -> Overrides] : n \in 1..MaxOverrides}
  /\ simStage = "validate"
  /\ simValid = <<>> /\ simContext = simBook
  /\ simApplied = <<>> /\ simSkipped = {} /\ simDeltas = {} /\ simSummary = Null

ValidateOverrides ==
  /\ simStage = "validate"
  /\ simValid' = InSequence(simBook, simGiven)
  /\ simSkipped' = {i \in DOMAIN simGiven : ~Valid(simBook, simGiven[i])}
  /\ simStage' = IF \E i \in DOMAIN simGiven : ReadsNull(simBook, simGiven[i])
                 THEN "threw" ELSE "apply"
  /\ UNCHANGED <<simBook, simGiven, simContext, simApplied, simDeltas, simSummary>>

ApplyOverride ==
  /\ simStage = "apply" /\ simValid # <<>>
  /\ LET o == Head(simValid) IN
       IF IsApplied(simContext, o)
       THEN /\ simContext' = Apply(simContext, o)
            /\ simApplied' = Append(simApplied, o)
       ELSE UNCHANGED <<simContext, simApplied>>
  /\ simValid' = Tail(simValid)
  /\ UNCHANGED <<simBook, simGiven, simStage, simSkipped, simDeltas, simSummary>>

ComputeDeltas ==
  /\ simStage = "apply" /\ simValid = <<>>
  /\ simDeltas' = ContractDeltas(simBook, simContext) \cup ObligationDeltas(simBook, simContext)
                    \cup TotalDelta(simBook, simContext)
  /\ simSummary' = Summary(simDeltas', simApplied, simSkipped)
  /\ simStage' = "done"
  /\ UNCHANGED <<simBook, simGiven, simValid, simContext, simApplied, simSkipped>>

Next == ValidateOverrides \/ ApplyOverride \/ ComputeDeltas

Spec == Init /\ [][Next]_whatIfVars

-----------------------------------------------------------------------------
\* The copy after all of the given rows.
Outcome(b, rows) ==
  FoldLeft(LAMBDA m, o : IF IsApplied(m, o) THEN Apply(m, o) ELSE m, b, InSequence(b, rows))

\* No two overrides of one row have one number.
NoTies(rows) ==
  \A i, j \in DOMAIN rows :
    rows[i].seq = rows[j].seq /\ rows[i].on = rows[j].on /\ rows[i].id = rows[j].id => i = j

\* The query orders overrides by their number alone, so that those of one number come
\* in any order.  What a simulation computes is the same from the rows the other way
\* round, unless two of one number are of one row (validateOverrides, applyOverrides).
OrderDoesNotMatter ==
  simStage = "done" /\ NoTies(simGiven) => simContext = Outcome(simBook, Reverse(simGiven))
=============================================================================
