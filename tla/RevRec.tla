------------------------------- MODULE RevRec -------------------------------
(***************************************************************************)
(* The revenue recognition of one contract (packages/revrec): obligations  *)
(* from its terms, the allocation of its price to them, their schedules,   *)
(* the recognition events of a day and the deferred balances, then the     *)
(* reconciliation of the schedules with invoices.                          *)
(***************************************************************************)
EXTENDS ScheduleState, FiniteSetsExt

\* Math.round(n / d), d > 0: halves go up.
Round(n, d) == (2 * n + d) \div (2 * d)

(***************************************************************************)
(* Obligations and allocation                                              *)
(***************************************************************************)
\* createObligationFromTerms: a contract_value term is one of the subscription.
Price(c, type) ==
  IF type = "subscription" /\ c.value # NoPrice THEN c.value ELSE c.arr

\* Terms without a price give no obligation: without an ARR, all but the contract_value
\* term, which is one of the subscription.  Without any obligation, the ARR gives one.
Identified(c) ==
  LET found == CASE c.arr # NoPrice /\ c.types # <<>> -> c.types
                 [] c.arr = NoPrice /\ c.value = NoPrice -> <<>>
                 [] OTHER -> <<"subscription">>
  IN  [i \in DOMAIN found |->
         [type |-> found[i], price |-> Price(c, found[i]), ssp |-> NoPrice]]

\* A mutant of Proportional: the last obligation's amount is rounded like the others'.
ProportionalRounded(weights, total) ==
  [i \in 1..Len(weights) |-> Round(weights[i] * total, SumFunction(weights))]

\* The last obligation gets what the rounded amounts of the others leave.
Proportional(weights, total) ==
  LET n == Len(weights)
      Share(i) == Round(weights[i] * total, SumFunction(weights))
  IN  [i \in 1..n |->
         IF i < n THEN Share(i) ELSE total - SumFunction([j \in 1..(n - 1) |-> Share(j)])]

Known(obs) == {i \in DOMAIN obs : obs[i].ssp # NoPrice}

\* What the known prices before the i-th leave.
Left(obs, total, i) ==
  LET before == SumFunction([j \in {k \in Known(obs) : k < i} |-> obs[j].ssp])
  IN  IF before >= total THEN 0 ELSE total - before

\* allocateByResidual: known prices as far as the total goes, then the rest in
\* equal parts, each rounded.
Residual(obs, total) ==
  LET rest == Left(obs, total, Len(obs) + 1)
      others == Cardinality(DOMAIN obs) - Cardinality(Known(obs))
  IN  [i \in DOMAIN obs |->
         IF i \in Known(obs)
         THEN (IF obs[i].ssp <= Left(obs, total, i) THEN obs[i].ssp ELSE Left(obs, total, i))
         ELSE Round(rest, others)]

\* allocatePrices
Allocated(obs, total) ==
  IF Len(obs) = 1 THEN <<obs[1].price>>
  ELSE IF \A i \in DOMAIN obs : obs[i].ssp # NoPrice
       THEN Proportional([i \in DOMAIN obs |-> obs[i].ssp], total)
  ELSE IF \E i \in DOMAIN obs : obs[i].ssp # NoPrice
       THEN Residual(obs, total)
  ELSE Proportional([i \in DOMAIN obs |-> obs[i].price], total)

(***************************************************************************)
(* Schedules, events and balances                                          *)
(***************************************************************************)
\* generateStraightLineSchedule cuts the service at the ends of months.
Starts(first, last) ==
  {first} \cup {EndOfMonth(d) + 1 : d \in {c \in first..last : EndOfMonth(c) < last}}

PeriodEnd(start, last) == IF EndOfMonth(start) > last THEN last ELSE EndOfMonth(start)

Period(start, end, amount, recognized, method) ==
  [start |-> start, end |-> end, scheduled |-> amount, recognized |-> recognized,
   method |-> method]

\* A mutant of StraightLine: the last period gets what its days come to.
StraightLineRounded(first, last, amount) ==
  {Period(s, PeriodEnd(s, last),
          Round(amount * (PeriodEnd(s, last) - s + 1), last - first),
          0, "straight_line") : s \in Starts(first, last)}

\* The rate divides by the days between the dates, the periods count both ends,
\* and the last period gets the rest.
StraightLine(first, last, amount) ==
  LET At(start) == Round(amount * (PeriodEnd(start, last) - start + 1), last - first)
      starts == Starts(first, last)
      final == CHOOSE s \in starts : PeriodEnd(s, last) = last
  IN  {Period(s, PeriodEnd(s, last),
              IF s = final THEN amount - SumFunction([t \in starts \ {final} |-> At(t)]) ELSE At(s),
              0, "straight_line") : s \in starts}

\* Placeholders; the loop ends before a period that would start on the last day.
UsageBased(first, last) ==
  {Period(s, PeriodEnd(s, last), 0, 0, "usage_based") :
     s \in {t \in Starts(first, last) : t < last}}

Schedule(c, obligation, amount) ==
  CASE Method[obligation.type] = "straight_line" -> StraightLine(c.start, c.end, amount)
    [] Method[obligation.type] = "usage_based" -> UsageBased(c.start, c.end)
    [] Method[obligation.type] = "milestone" ->
         {Period(c.start, c.end, amount, 0, "milestone")}
    [] OTHER -> {Period(c.start, c.start, amount, amount, "as_invoiced")}

\* createRecognitionEvents: a straight-line period is recognized on its last
\* day, an invoice at once, and a milestone when something says it is done.
Events(periods, day) ==
  {[day |-> p.end, amount |-> p.scheduled] :
     p \in {q \in periods : q.method = "straight_line" /\ q.end <= day}}
  \cup
  {[day |-> p.end, amount |-> p.recognized] :
     p \in {q \in periods : q.method \in {"as_invoiced", "usage_based"} /\ q.recognized > 0}}

\* computeDeferredBalances: one balance for each day a period ends, with the
\* events since the day before it.
RecognizedIn(evs, from, to) ==
  SumFunction([e \in {v \in evs : from < v.day /\ v.day <= to} |-> e.amount])

Balances(periods, evs, amount) ==
  LET ends == {p.end : p \in periods}
      Before(d) == {e \in ends : e < d}
      From(d) == IF Before(d) = {} THEN -1 ELSE Max(Before(d))
      Opening(d) == amount - SumFunction([e \in Before(d) |-> RecognizedIn(evs, From(e), e)])
  IN  {[end |-> d, opening |-> Opening(d), recognized |-> RecognizedIn(evs, From(d), d),
        closing |-> Opening(d) - RecognizedIn(evs, From(d), d)] : d \in ends}

(***************************************************************************)
(* Reconciliation                                                          *)
(***************************************************************************)
\* Two sides are compared where their periods are the same pair of days.
Key(x) == <<x.start, x.end>>
Side(xs, key) == {x \in xs : Key(x) = key}

\* checkTimingMismatch: amounts within a tenth, up to 30 days apart.
Shifted(periods, bills) ==
  \E p \in periods, b \in bills :
    /\ Magnitude(p.end - b.date) \in 1..30
    /\ p.scheduled = 0 \/ 10 * Magnitude(p.scheduled - b.total) < p.scheduled

\* determineReconciliationStatus, with the variance in percent to 4 places.
Status(periods, bills, scheduled, variance) ==
  LET percent == IF scheduled = 0 THEN 0 ELSE Round(1000000 * variance, scheduled)
  IN  CASE periods = {} -> "unmatched"
        [] periods # {} /\ bills = {} -> "missing_invoice"
        [] OTHER -> IF Magnitude(variance) <= Threshold \/ Magnitude(percent) <= 10000
                    THEN "matched"
                    ELSE IF Shifted(periods, bills) THEN "timing_variance"
                    ELSE "amount_variance"

Result(key, periods, bills) ==
  LET scheduled == SumFunction([p \in Side(periods, key) |-> p.scheduled])
      invoiced == SumFunction([b \in Side(bills, key) |-> b.total])
  IN  [key |-> key, scheduled |-> scheduled, invoiced |-> invoiced,
       status |-> Status(Side(periods, key), Side(bills, key), scheduled,
                         invoiced - scheduled)]

Reconciled(periods, bills) ==
  {Result(key, periods, bills) : key \in {Key(x) : x \in periods} \cup {Key(b) : b \in bills}}

(***************************************************************************)
(* computeRevRec, one step after the other                                 *)
(***************************************************************************)
Init ==
  /\ revStage = "identify"
  /\ contract \in Contract
  /\ obligations = <<>> /\ allocations = <<>> /\ schedules = <<>>
  /\ today = 0 /\ events = <<>> /\ balances = <<>>
  /\ invoices = {} /\ results = {}

Identify ==
  /\ revStage = "identify"
  /\ obligations' = Identified(contract)
  /\ revStage' = IF Identified(contract) = <<>> THEN "done" ELSE "allocate"
  /\ UNCHANGED <<contract, allocations, schedules, today, events, balances, invoices, results>>

\* The package's callers may give obligations of their own, with prices they know.
GiveObligations ==
  /\ revStage = "identify"
  /\ Identified(contract) # <<>>
  /\ \E ssps \in [DOMAIN Identified(contract) -> Amounts \cup {NoPrice}] :
       obligations' = [i \in DOMAIN ssps |->
                         [Identified(contract)[i] EXCEPT !.ssp = ssps[i]]]
  /\ revStage' = "allocate"
  /\ UNCHANGED <<contract, allocations, schedules, today, events, balances, invoices, results>>

Allocate ==
  /\ revStage = "allocate"
  /\ allocations' = Allocated(obligations, Total(contract, obligations))
  /\ revStage' = "schedule"
  /\ UNCHANGED <<contract, obligations, schedules, today, events, balances, invoices, results>>

Generate ==
  /\ revStage = "schedule"
  /\ schedules' = [i \in DOMAIN obligations |->
                     Schedule(contract, obligations[i], allocations[i])]
  /\ revStage' = "recognize"
  /\ UNCHANGED <<contract, obligations, allocations, today, events, balances, invoices, results>>

\* createRecognitionEvents as of some day, then the balances of that day.
Recognize ==
  /\ revStage = "recognize"
  /\ today' \in Days
  /\ events' = [i \in DOMAIN schedules |-> Events(schedules[i], today')]
  /\ balances' = [i \in DOMAIN schedules |->
                    Balances(schedules[i], Events(schedules[i], today'), allocations[i])]
  /\ revStage' = "reconcile"
  /\ UNCHANGED <<contract, obligations, allocations, schedules, invoices, results>>

Reconcile ==
  /\ revStage = "reconcile"
  /\ invoices' \in SUBSET InvoiceRows
  /\ results' = Reconciled(AllPeriods, invoices')
  /\ revStage' = "done"
  /\ UNCHANGED <<contract, obligations, allocations, schedules, today, events, balances>>

Next == Identify \/ GiveObligations \/ Allocate \/ Generate \/ Recognize \/ Reconcile

Spec == Init /\ [][Next]_scheduleVars
=============================================================================
