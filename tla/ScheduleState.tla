--------------------------- MODULE ScheduleState ---------------------------
(***************************************************************************)
(* What RevRec keeps while it computes the revenue of one contract and     *)
(* reconciles it, and what it promises of it.                              *)
(*                                                                         *)
(* Amounts are integers, in cents: round(x, 2) is Round, and the sums of   *)
(* binary floating point are exact.  Days are numbers, and EndOfMonth says *)
(* where months end, so that nothing depends on a calendar.                *)
(***************************************************************************)
EXTENDS Integers, FiniteSets, Sequences, Functions

CONSTANTS
  Amounts, NoPrice,     \* prices in cents, and a price that is null
  Days, EndOfMonth(_),  \* EndOfMonth(d): the last day of the month of d
  Types,                \* the kinds of obligation the terms may give
  MaxObligations,       \* how many obligations a contract has
  InvoiceRows,          \* invoices: an id, a period, an amount, the day they are dated
  Threshold             \* amountVarianceThreshold, in cents

Method == [subscription |-> "straight_line", support |-> "straight_line",
           usage |-> "usage_based", professional_services |-> "milestone",
           one_time |-> "as_invoiced"]

ASSUME ScheduleAssumption ==
  /\ Amounts \subseteq Nat \ {0} /\ NoPrice \notin Int
  /\ Types \subseteq DOMAIN Method /\ MaxObligations \in Nat
  /\ Days \subseteq Nat
  /\ \A first, last \in Days : \A d \in first..last :
       /\ EndOfMonth(d) \in Nat /\ d <= EndOfMonth(d)
       /\ \A c \in d..last : c <= EndOfMonth(d) => EndOfMonth(c) = EndOfMonth(d)
  /\ IsFiniteSet(InvoiceRows)
  /\ \A b \in InvoiceRows : b.start \in Nat /\ b.end \in Nat /\ b.total \in Int

VARIABLES
  revStage,      \* the step of computeRevRec that is next
  contract,      \* arr, the contract_value term, the terms' types, service days
  obligations,   \* identified obligations, in order
  allocations,   \* allocated amounts, in the same order
  schedules,     \* schedules[i]: the periods of obligation i
  today,         \* the day the events are created
  events,        \* events[i]: its recognition events as of that day
  balances,      \* balances[i]: its deferred balances
  invoices,      \* the invoices of the contract
  results        \* results of their reconciliation with the schedules

scheduleVars == <<revStage, contract, obligations, allocations, schedules, today, events,
                  balances, invoices, results>>

Contract ==
  {c \in [arr : Amounts \cup {NoPrice}, value : Amounts \cup {NoPrice},
          types : UNION {{s \in [1..n -> Types] : IsInjective(s)} : n \in 0..MaxObligations},
          start : Days, end : Days] :
     /\ c.start < c.end
     /\ c.value # NoPrice => \E i \in DOMAIN c.types : c.types[i] = "subscription"}
Obligation == [type : DOMAIN Method, price : Amounts, ssp : Amounts \cup {NoPrice}]

Total(c, obs) ==
  IF c.arr # NoPrice THEN c.arr ELSE SumFunction([i \in DOMAIN obs |-> obs[i].price])

\* Periods of several obligations are told apart by their obligation.
AllPeriods ==
  UNION {{[start |-> p.start, end |-> p.end, scheduled |-> p.scheduled, of |-> i] :
            p \in schedules[i]} : i \in DOMAIN schedules}

Magnitude(n) == IF n < 0 THEN -n ELSE n

(***************************************************************************)
(* Properties                                                              *)
(***************************************************************************)
ScheduleTypeOK ==
  /\ revStage \in {"identify", "allocate", "schedule", "recognize", "reconcile", "done"}
  /\ contract \in Contract
  /\ obligations \in Seq(Obligation)
  /\ allocations \in Seq(Int)
  /\ DOMAIN schedules \subseteq DOMAIN obligations
  /\ today \in Days \cup {0}

Weight(i) == IF obligations[i].ssp # NoPrice THEN obligations[i].ssp ELSE obligations[i].price

\* The allocated amounts add up to the price of the contract, but for half a cent
\* for each obligation that shares a residual (validateAllocations allows one
\* cent in all); by proportion, none is further from its share than half a cent,
\* the last than half a cent for each of the others.
AllocationAddsUp ==
  allocations # <<>> =>
    LET n == Len(allocations)
        total == IF n = 1 THEN obligations[1].price ELSE Total(contract, obligations)
        priced == {i \in DOMAIN obligations : obligations[i].ssp # NoPrice}
        unshared == IF n = 1 \/ priced = {} THEN 0 ELSE n - Cardinality(priced)
        weights == SumFunction([i \in 1..n |-> Weight(i)])
    IN  /\ 2 * Magnitude(SumFunction(allocations) - total) <= unshared
        /\ unshared = 0 /\ n > 1 => \A i \in 1..n :
             2 * Magnitude(allocations[i] * weights - Weight(i) * total)
               <= weights * (IF i = n THEN n - 1 ELSE 1)

\* The periods of a straight-line schedule are disjoint, and each day of the
\* service is in one of them, so that no day is recognized twice or never.
PeriodsTile ==
  \A i \in DOMAIN schedules : Method[obligations[i].type] = "straight_line" =>
    \A d \in contract.start..contract.end :
      Cardinality({p \in schedules[i] : p.start <= d /\ d <= p.end}) = 1

\* A straight-line schedule adds up to what its obligation is allocated, and each
\* period's amount is its days' share of it, up to one day's amount (the rate
\* divides by one day less than the periods have) and the cents of rounding.
ScheduleIsEven ==
  \A i \in DOMAIN schedules : Method[obligations[i].type] = "straight_line" =>
    LET days == contract.end - contract.start
        count == Cardinality(schedules[i])
    IN  /\ SumFunction([p \in schedules[i] |-> p.scheduled]) = allocations[i]
        /\ \A p \in schedules[i] :
             2 * Magnitude(p.scheduled * days - allocations[i] * (p.end - p.start + 1))
               <= 2 * Magnitude(allocations[i]) + count * days

\* The deferred balances of an obligation roll forward: the first opens with what
\* is allocated, each opens with what the one before closed with, the last closes
\* with what no event has recognized, and after the service nothing is deferred.
BalancesRollForward ==
  \A i \in DOMAIN balances :
    /\ \A b \in balances[i] :
         \/ \E a \in balances[i] : a.end < b.end /\ a.closing = b.opening
         \/ b.opening = allocations[i] /\ \A a \in balances[i] : b.end <= a.end
    /\ \A b \in balances[i] :
         /\ \A a \in balances[i] : a.end <= b.end
         /\ Method[obligations[i].type] = "straight_line"
         => b.closing = allocations[i]
                         - SumFunction([p \in {q \in schedules[i] : q.end <= today} |-> p.scheduled])

\* The reconciliation counts every scheduled cent and every invoiced cent once.
NothingLeftOut ==
  revStage = "done" =>
    /\ SumFunction([r \in results |-> r.scheduled])
         = SumFunction([p \in AllPeriods |-> p.scheduled])
    /\ SumFunction([r \in results |-> r.invoiced])
         = SumFunction([b \in invoices |-> b.total])

\* Types; the allocated amounts add up to the price of the contract, each day of the
\* service is in one period, a straight-line schedule is even and adds up, the
\* deferred balances roll forward, and the reconciliation counts every cent once
\* (allocatePrices, computeRevRec, reconcileContract).
ScheduleInv ==
  /\ ScheduleTypeOK /\ AllocationAddsUp /\ PeriodsTile /\ ScheduleIsEven
  /\ BalancesRollForward /\ NothingLeftOut
=============================================================================
