------------------------------- MODULE Rules -------------------------------
(***************************************************************************)
(* The rule engine of a detection run (packages/rules): the rules run one  *)
(* after another over the canonical rows of a snapshot, may be gated,      *)
(* suppressed by an earlier rule or throw, and what they raise is          *)
(* deduplicated and scored.                                                *)
(*                                                                         *)
(* A book is the input: contracts, their invoices, the prior issues, and   *)
(* what the data quality report says. Days are integers and every month    *)
(* has Month of them; amounts are whole. An amount read from a NUMERIC     *)
(* column is a string, so that adding two of them yields no number         *)
(* (Total). An impact that is undefined or not a number is Missing.           *)
(***************************************************************************)
EXTENDS RulesState, FiniteSetsExt, SequencesExt

Month == 30
Grace == 30     \* autoRenewal.renewalGraceDays
Late == 5       \* LATE_THRESHOLD_DAYS
HighImpact == 10000
CriticalImpact == 50000

\* The rank of a severity.
Low == 1
Medium == 2
High == 3
Critical == 4

-----------------------------------------------------------------------------
\* Arithmetic the rules share.

Abs(n) == IF n < 0 THEN -n ELSE n

\* reduce and sum start from the number 0 and append the string of each row: one
\* amount that is not negative is still read as a number, anything else is not.
Total(amounts) ==
  CASE Len(amounts) = 0 -> 0
    [] Len(amounts) = 1 /\ amounts[1] >= 0 -> amounts[1]
    [] OTHER -> Missing

Within(expected, actual, tolerance) ==
  /\ actual # Missing
  /\ \/ Abs(actual - expected) <= tolerance
     \/ expected # 0 /\ 100 * Abs(actual - expected) <= Abs(expected)

AmountsMatch(expected, actual) == Within(expected, actual, 100)
PricesMatch(expected, actual) == Within(expected, actual, 10)

MonthsPer(frequency) ==
  CASE frequency = "annually" -> 12 [] frequency = "quarterly" -> 3 [] OTHER -> 1

InvoiceExpected(c) == IF c.arr = Missing THEN 0 ELSE (c.arr * MonthsPer(c.freq)) \div 12

\* Mutant: a period that has started is expected to be billed already.
ExpectedPeriodsOpen(c) ==
  LET days == Month * MonthsPer(c.freq)
      Start(k) == c.start + (k - 1) * days IN
  [k \in {n \in 1..(1 + ((Today - c.start) \div days)) : c.end = Missing \/ Start(n) <= c.end}
     |-> [start |-> Start(k), end |-> Start(k) + days]]

\* The billing periods of a contract that are over by Today, in order. A period ends
\* on the day the next one starts.
ExpectedPeriods(c) ==
  LET days == Month * MonthsPer(c.freq)
      Start(k) == c.start + (k - 1) * days IN
  IF c.start = Missing THEN <<>>
  ELSE [k \in {n \in 1..((Today - c.start) \div days) : c.end = Missing \/ Start(n) <= c.end}
          |-> [start |-> Start(k), end |-> Start(k) + days]]

Active(c) ==
  /\ c.status \in {"active", "renewed"}
  /\ c.start = Missing \/ Today >= c.start
  /\ c.end = Missing \/ Today <= c.end

InvoicesOf(b, c) == {i \in b.invoices : i.contract = c.id}
Earlier(i, j) == i.date < j.date \/ (i.date = j.date /\ i.id < j.id)
InOrder(invoices) == SetToSortSeq(invoices, LAMBDA i, j : i.id < j.id)
TotalOf(invoices) == Total([k \in 1..Cardinality(invoices) |-> InOrder(invoices)[k].total])

Discounts(i) == {l \in i.lines : l.amount < 0}
Described(i) == {l \in i.lines : l.described \/ l.amount < 0}
Charges(i) == {l \in i.lines : l.amount > 0}
AmountOf(lines) ==
  LET s == SetToSortSeq(lines, LAMBDA l, m : l.id < m.id) IN
  Total([k \in 1..Len(s) |-> s[k].amount])

\* The percentage of the charges that is discounted; 0 when they are not a number.
DiscountPct(i) ==
  LET subtotal == AmountOf(Charges(i))
      discount == AmountOf(Discounts(i)) IN
  CASE subtotal = Missing -> 0
    [] subtotal = 0 -> 0
    [] discount = Missing -> Missing
    [] OTHER -> (100 * Abs(discount)) \div subtotal

FirstOf(terms, Test(_)) ==
  LET found == SelectSeq(terms, Test) IN IF found = <<>> THEN Missing ELSE found[1]

Named(t, product) == t.product = product /\ product # Missing

\* The first term of the product decides, even without a price.
ExpectedPrice(terms, product) ==
  LET exact == FirstOf(terms, LAMBDA t : Named(t, product))
      any == FirstOf(terms, LAMBDA t : /\ t.price # Missing
                                       /\ product = Missing \/ t.product = Missing) IN
  CASE exact # Missing -> exact.price
    [] any # Missing -> any.price
    [] OTHER -> Missing

ExpectedQuantity(terms, product) ==
  LET Matches(t) == t.product = product \/ product = Missing \/ t.product = Missing
      first == FirstOf(terms, Matches)
      any == FirstOf(terms, LAMBDA t : Matches(t) /\ t.quantity # Missing) IN
  IF any = Missing THEN Missing
  ELSE IF first.quantity # Missing THEN first.quantity ELSE any.quantity

-----------------------------------------------------------------------------
\* The issues of a rule.

Dimensions(contract, invoice, customer, period, rest) ==
  [contract |-> contract, invoice |-> invoice, customer |-> customer, period |-> period,
   rest |-> rest]
Dims(contract, invoice) == Dimensions(contract, invoice, Missing, Missing, Missing)

Issue(rule, severity, confidence, impact, contract, customer, invoice, dims) ==
  [rule |-> rule, severity |-> severity, confidence |-> confidence, impact |-> impact,
   contract |-> contract, customer |-> customer, invoice |-> invoice, dims |-> dims]

\* An issue for each contract and invoice of it that pass a test.
Flag(b, rule, severity, confidence, Test(_, _), Impact(_, _)) ==
  {Issue(rule, severity, confidence, Impact(q[1], q[2]), q[1].id, q[1].customer, q[2].id,
         Dims(q[1].id, q[2].id)) :
     q \in {p \in b.contracts \X b.invoices : p[2].contract = p[1].id /\ Test(p[1], p[2])}}

TotalImpact(c, i) == i.total
NoImpact(c, i) == Missing

\* A period is billed by an invoice dated in it, its last day included, or whose own
\* period overlaps it.
Bills(i, p) ==
  \/ i.date \in p.start..p.end
  \/ i.from # Missing /\ i.to # Missing /\ i.from <= p.end /\ i.to >= p.start

MissingInvoice(b) ==
  UNION {
    {Issue("R001", High, 100, InvoiceExpected(c), c.id, c.customer, Missing,
           Dimensions(c.id, Missing, Missing, p.start, p.end)) :
       p \in {q \in ToSet(ExpectedPeriods(c)) : \A i \in InvoicesOf(b, c) : ~Bills(i, q)}} :
    c \in {d \in b.contracts : Active(d) /\ ~d.hold /\ d.arr # Missing}}

Underbilling(b) ==
  Flag(b, "R002", High, 90,
       LAMBDA c, i : /\ c.arr # Missing /\ ~AmountsMatch(InvoiceExpected(c), i.total)
                     /\ i.total < InvoiceExpected(c),
       LAMBDA c, i : InvoiceExpected(c) - i.total)

Overbilling(b) ==
  Flag(b, "R003", High, 90,
       LAMBDA c, i : /\ c.arr # Missing /\ ~AmountsMatch(InvoiceExpected(c), i.total)
                     /\ i.total > InvoiceExpected(c),
       LAMBDA c, i : i.total - InvoiceExpected(c))

\* The issues of R004 and R005 are about a line of an invoice.
FlagLines(b, rule, Test(_, _), Impact(_, _)) ==
  UNION {
    {Issue(rule, High, 95, Impact(c, l), c.id, c.customer, i.id,
           Dimensions(c.id, i.id, Missing, Missing, l.id)) :
       l \in {m \in i.lines : i.contract = c.id /\ Test(c, m)}} :
    c \in b.contracts, i \in b.invoices}

PriceOf(c, l) ==
  ExpectedPrice(SelectSeq(c.terms, LAMBDA t : t.type \in {"unit_price", "pricing_model"}),
                l.product)
QuantityOf(c, l) ==
  ExpectedQuantity(SelectSeq(c.terms, LAMBDA t : t.type \in {"quantity", "seats", "licenses"}),
                   l.product)

WrongUnitPrice(b) ==
  FlagLines(b, "R004",
            LAMBDA c, l : /\ PriceOf(c, l) # Missing /\ l.price # Missing
                          /\ ~PricesMatch(PriceOf(c, l), l.price),
            LAMBDA c, l : (l.price - PriceOf(c, l)) * l.quantity)

WrongQuantity(b) ==
  FlagLines(b, "R005",
            LAMBDA c, l : QuantityOf(c, l) # Missing /\ QuantityOf(c, l) # l.quantity,
            LAMBDA c, l : IF l.price = Missing THEN 0
                          ELSE (l.quantity - QuantityOf(c, l)) * l.price)

-----------------------------------------------------------------------------
\* R006: invoices of one period, pairs of similar invoices near each other, and
\* invoices of one number, a set of invoices being flagged once.

Similar(invoices) ==
  LET totals == {i.total : i \in invoices} IN
  Max(totals) > 0 /\ 50 * (Max(totals) - Min(totals)) < Max(totals)

Groups(b, Field(_)) ==
  {g \in {{j \in b.invoices : j.contract = i.contract /\ Field(j) = Field(i)} :
            i \in {j \in b.invoices : j.contract # Missing}} : Cardinality(g) > 1}

SamePeriod(b) == {g \in Groups(b, LAMBDA i : i.from) : Similar(g)}

Overlap(i, j) ==
  /\ Missing \notin {i.from, i.to, j.from, j.to}
  /\ i.from <= j.to /\ j.from <= i.to
Near(i, j) ==
  \/ i.to # Missing /\ j.from # Missing /\ Abs(j.from - i.to) <= 1
  \/ Abs(j.date - i.date) <= 7 /\ i.total = j.total

ClosePairs(b) ==
  {p \in b.invoices \X b.invoices :
     /\ p[1].contract # Missing /\ p[1].contract = p[2].contract
     /\ Earlier(p[1], p[2])
     /\ {p[1], p[2]} \notin SamePeriod(b)
     /\ Similar({p[1], p[2]})
     /\ Overlap(p[1], p[2]) \/ Near(p[1], p[2])}

SameNumber(b) ==
  {g \in Groups(b, LAMBDA i : i.number) :
     /\ \A i \in g : i.number # Missing
     /\ g \notin SamePeriod(b) \cup {{p[1], p[2]} : p \in ClosePairs(b)}}

First(g) == CHOOSE i \in g : \A j \in g : i.id <= j.id
OfGroup(g, severity, confidence, period, number) ==
  Issue("R006", severity, confidence, TotalOf(g \ {First(g)}), First(g).contract,
        First(g).customer, Missing,
        Dimensions(First(g).contract, Missing, Missing, period, number))

DuplicateBilling(b) ==
    {OfGroup(g, High, 85, First(g).from, Missing) : g \in SamePeriod(b)}
  \cup
    {Issue("R006", High, IF Overlap(p[1], p[2]) THEN 90 ELSE 75, p[2].total, p[1].contract,
           p[1].customer, p[2].id, Dims(p[1].contract, p[2].id)) : p \in ClosePairs(b)}
  \cup
    {OfGroup(g, Critical, 95, Missing, First(g).number) : g \in SameNumber(b)}

-----------------------------------------------------------------------------
BillingBeyondTerm(b) ==
  Flag(b, "R007", Critical, 100, LAMBDA c, i : c.end # Missing /\ i.date > c.end, TotalImpact)

BillingBeforeStart(b) ==
  Flag(b, "R008", High, 100, LAMBDA c, i : c.start # Missing /\ i.date < c.start, TotalImpact)

CurrencyMismatch(b) ==
  Flag(b, "R009", Medium, 100, LAMBDA c, i : i.currency # c.currency, NoImpact)

\* The invoice before i, of the same contract.
Previous(b, i) ==
  {j \in b.invoices : /\ j.contract = i.contract /\ Earlier(j, i)
                      /\ ~\E k \in b.invoices : /\ k.contract = i.contract
                                                /\ Earlier(j, k) /\ Earlier(k, i)}

FrequencyMismatch(b) ==
  Flag(b, "R010", Medium, 80,
       LAMBDA c, i : /\ c.freq # Missing
                     /\ \E j \in Previous(b, i) :
                          Abs((i.date \div Month) - (j.date \div Month) - MonthsPer(c.freq)) > 1,
       NoImpact)

\* FREQUENCY_DAYS; a contract of another frequency is passed over.
Span ==
  "monthly" :> [days |-> 28..31, usual |-> 30] @@ "quarterly" :> [days |-> 89..92, usual |-> 91]
    @@ "annually" :> [days |-> 364..366, usual |-> 365]
    @@ "semi-annually" :> [days |-> 180..184, usual |-> 182]

PeriodSpanMismatch(b) ==
  LET Impact(c, i) ==
        Abs(InvoiceExpected(c) - (InvoiceExpected(c) * (i.to - i.from)) \div Span[c.freq].usual)
  IN Flag(b, "R017", Medium, 90,
          LAMBDA c, i : /\ c.freq \in DOMAIN Span /\ i.from # Missing /\ i.to # Missing
                        /\ i.to - i.from \notin Span[c.freq].days,
          LAMBDA c, i : IF Impact(c, i) > 100 THEN Impact(c, i) ELSE Missing)

\* The period an invoice is for: its own start decides, or else its date.
PeriodOf(c, i) ==
  FirstOf(ExpectedPeriods(c),
          LAMBDA p : IF i.from # Missing THEN i.from >= p.start /\ i.from < p.end
                     ELSE i.date \in p.start..p.end)

TimingVariance(b) ==
  Flag(b, "R018", Medium, 85,
       LAMBDA c, i : /\ c.freq # Missing /\ PeriodOf(c, i) # Missing
                     /\ i.date - PeriodOf(c, i).start > Late,
       NoImpact)

-----------------------------------------------------------------------------
\* An issue for each discount term of a contract and invoice of it that pass a test.
FlagTerms(b, rule, confidence, Test(_, _, _), Impact(_, _)) ==
  UNION {{Issue(rule, High, confidence, Impact(t, i), c.id, c.customer, i.id, Dims(c.id, i.id)) :
            t \in {u \in c.discounts : i.contract = c.id /\ Test(c, u, i)}} :
         c \in b.contracts, i \in b.invoices}

ExpiredDiscount(b) ==
  FlagTerms(b, "R011", 90,
            LAMBDA c, t, i : t.to # Missing /\ i.date > t.to /\ Described(i) # {},
            LAMBDA t, i : IF AmountOf(Described(i)) = Missing THEN Missing
                          ELSE Abs(AmountOf(Described(i))))

DiscountNotApplied(b) ==
  LET From(c, t) == IF t.from # Missing THEN t.from ELSE c.start
      To(c, t) == IF t.to # Missing THEN t.to ELSE c.end IN
  FlagTerms(b, "R012", 85,
            LAMBDA c, t, i : /\ t.percent # 0
                             /\ From(c, t) = Missing \/ i.date >= From(c, t)
                             /\ To(c, t) = Missing \/ i.date <= To(c, t)
                             /\ Described(i) = {},
            LAMBDA t, i : (i.total * t.percent) \div 100)

WrongDiscountRate(b) ==
  FlagTerms(b, "R013", 90,
            LAMBDA c, t, i : /\ t.percent # 0 /\ Discounts(i) # {}
                             /\ ~Within(t.percent, DiscountPct(i), 1),
            LAMBDA t, i : IF DiscountPct(i) = Missing \/ AmountOf(Charges(i)) = Missing
                          THEN Missing
                          ELSE (AmountOf(Charges(i)) * Abs(t.percent - DiscountPct(i))) \div 100)

DiscountExceedsMaximum(b) ==
  {Issue("R014", High, 95,
         Abs(AmountOf(Discounts(i))) - AmountOf(Charges(i)) \div 2, Missing, i.customer, i.id,
         Dims(Missing, i.id)) :
     i \in {j \in b.invoices : /\ Discounts(j) # {} /\ DiscountPct(j) # Missing
                               /\ DiscountPct(j) > 50}}

\* The step of a ramp that an invoice falls into; the first, if steps share their days.
RampSteps(c, i) ==
  {k \in DOMAIN c.ramp : /\ i.date >= c.ramp[k].from
                         /\ k < Len(c.ramp) => i.date < c.ramp[k + 1].from}
RampAmount(c, i) == c.ramp[Min(RampSteps(c, i))].amount

RampPricingMismatch(b) ==
  Flag(b, "R016", High, 85,
       LAMBDA c, i : RampSteps(c, i) # {} /\ ~AmountsMatch(RampAmount(c, i), i.total),
       LAMBDA c, i : Abs(i.total - RampAmount(c, i)))

-----------------------------------------------------------------------------
UnmatchedCredit(b) ==
  {Issue("R110", Medium, 85, Abs(i.total), i.contract, i.customer, i.id, Dims(Missing, i.id)) :
     i \in {j \in b.invoices :
              /\ j.total < 0
              /\ ~\E k \in b.invoices : /\ k.total >= 0 /\ k.contract = j.contract
                                        /\ k.customer = j.customer /\ k.date <= j.date}}

CreditsOf(g) == TotalOf({i \in g : i.total < 0})
ChargesOf(g) == TotalOf({i \in g : i.total >= 0})

Alike(b, i) == {j \in b.invoices : j.contract = i.contract /\ j.customer = i.customer}
Exceeds(g) ==
  /\ Missing \notin {CreditsOf(g), ChargesOf(g)}
  /\ Abs(CreditsOf(g)) > ChargesOf(g) /\ ChargesOf(g) > 0

CreditExceedsInvoice(b) ==
  {Issue("R111", High, 90, Abs(CreditsOf(Alike(b, i))) - ChargesOf(Alike(b, i)), i.contract,
         i.customer, Missing, Dimensions(i.contract, Missing, i.customer, Missing, Missing)) :
     i \in {j \in b.invoices : j.contract # Missing /\ Exceeds(Alike(b, j))}}

NetRevenueNegative(b) ==
  {Issue("R113", High, 100, Abs(TotalOf(InvoicesOf(b, c))), c.id, c.customer, Missing,
         Dims(c.id, Missing)) :
     c \in {d \in b.contracts : /\ TotalOf(InvoicesOf(b, d)) # Missing
                                /\ TotalOf(InvoicesOf(b, d)) < 0}}

-----------------------------------------------------------------------------
\* Whether the average stays what it was when the contract is amended; averages are
\* compared only when both are numbers.
Unadjusted(b, c) ==
  LET pre == {i \in InvoicesOf(b, c) : i.date < c.amended}
      post == InvoicesOf(b, c) \ pre IN
  /\ pre # {} /\ post # {} /\ Missing \notin {TotalOf(pre), TotalOf(post)}
  /\ Abs(TotalOf(pre) * Cardinality(post) - TotalOf(post) * Cardinality(pre))
       < Cardinality(pre) * Cardinality(post)

AmendedNoAdjustment(b) ==
  {Issue("R060", High, 70, Missing, c.id, c.customer, Missing,
         Dimensions(c.id, Missing, Missing, Missing, c.amended)) :
     c \in {d \in b.contracts : d.status = "active" /\ d.amended # Missing /\ Unadjusted(b, d)}}

CancelledStillBilling(b) ==
  LET Cancelled(c) == IF c.cancelled # Missing THEN c.cancelled ELSE c.end IN
  Flag(b, "R061", Critical, 100,
       LAMBDA c, i : c.status = "cancelled" /\ Cancelled(c) # Missing /\ i.date > Cancelled(c),
       TotalImpact)

ExpiredStillBilling(b) ==
  Flag(b, "R062", Critical, 90,
       LAMBDA c, i : /\ c.status \notin {"cancelled", "renewed"} /\ ~c.renew
                     /\ c.end # Missing /\ c.end < Today /\ i.date > c.end + Grace,
       TotalImpact)

RenewalNotReflected(b) ==
  {Issue("R064", Medium, 75, Missing, c.id, c.customer, Missing, Dims(c.id, Missing)) :
     c \in {d \in b.contracts : /\ d.renew /\ d.end # Missing /\ Today > d.end + Grace
                                /\ d.status # "renewed"}}

PausedStillBilling(b) ==
  Flag(b, "R160", High, 95,
       LAMBDA c, i : c.hold /\ (c.holdFrom = Missing \/ i.date >= c.holdFrom), TotalImpact)

-----------------------------------------------------------------------------
Run(rule, b) ==
  CASE rule = "R001" -> MissingInvoice(b)       [] rule = "R002" -> Underbilling(b)
    [] rule = "R003" -> Overbilling(b)          [] rule = "R004" -> WrongUnitPrice(b)
    [] rule = "R005" -> WrongQuantity(b)        [] rule = "R006" -> DuplicateBilling(b)
    [] rule = "R007" -> BillingBeyondTerm(b)    [] rule = "R008" -> BillingBeforeStart(b)
    [] rule = "R009" -> CurrencyMismatch(b)     [] rule = "R010" -> FrequencyMismatch(b)
    [] rule = "R011" -> ExpiredDiscount(b)      [] rule = "R012" -> DiscountNotApplied(b)
    [] rule = "R013" -> WrongDiscountRate(b)    [] rule = "R014" -> DiscountExceedsMaximum(b)
    [] rule = "R016" -> RampPricingMismatch(b)  [] rule = "R017" -> PeriodSpanMismatch(b)
    [] rule = "R018" -> TimingVariance(b)       [] rule = "R110" -> UnmatchedCredit(b)
    [] rule = "R111" -> CreditExceedsInvoice(b) [] rule = "R113" -> NetRevenueNegative(b)
    [] rule = "R060" -> AmendedNoAdjustment(b)  [] rule = "R061" -> CancelledStillBilling(b)
    [] rule = "R062" -> ExpiredStillBilling(b)  [] rule = "R064" -> RenewalNotReflected(b)
    [] rule = "R160" -> PausedStillBilling(b)

Gated(rule, b) == b.stale /\ rule \notin {"R006", "R014", "R110", "R111"}

-----------------------------------------------------------------------------
\* Of the issues of one key the most severe is kept, then the most confident; any of
\* equal ones stands for the first.
\* Mutant: of two issues of one severity the less certain one is kept.
OutranksDoubtful(x, y) ==
  x.severity > y.severity \/ (x.severity = y.severity /\ x.confidence < y.confidence)
Outranks(x, y) ==
  x.severity > y.severity \/ (x.severity = y.severity /\ x.confidence > y.confidence)

Best(issues) == CHOOSE x \in issues : ~\E y \in issues : Outranks(y, x)
Duplicates(issues, x) == {y \in issues : SameKey(y, x)}
RemoveDuplicates(issues) == {Best(Duplicates(issues, x)) : x \in issues}

MatchesEntity(x, y) ==
  IF x.contract # Missing /\ x.contract = y.contract
  THEN x.dims.period # Missing /\ y.dims.period # Missing => x.dims.period = y.dims.period
  ELSE \/ x.invoice # Missing /\ x.invoice = y.invoice
       \/ x.customer # Missing /\ x.customer = y.customer /\ x.dims.period = y.dims.period

\* Mutant: a more specific rule that fired anywhere suppresses.
ApplyHierarchyAnywhere(issues) == {x \in issues : ~\E y \in issues : y.rule \in Hierarchy(x.rule)}
ApplyHierarchy(issues) ==
  {x \in issues : ~\E y \in issues : y.rule \in Hierarchy(x.rule) /\ MatchesEntity(x, y)}

-----------------------------------------------------------------------------
\* Scoring.

Size(x) == IF x.impact = Missing THEN 0 ELSE Abs(x.impact)

\* R070: the contract is large, or the issue against it.
Weighty(x, b) ==
  \E c \in b.contracts :
    /\ c.id = x.contract /\ c.arr # Missing
    /\ c.arr >= 10 * CriticalImpact \/ (c.arr > 0 /\ Size(x) > 0 /\ 20 * Size(x) >= c.arr)

\* R071: two earlier issues of the rule, or one that was resolved. No issue names a
\* customer in its dimensions but R111's, so any two agree on it.
Recurs(x, b) ==
  LET before == {p \in b.prior : p.rule = x.rule
                                 /\ (p.contract = x.dims.contract \/ p.customer = x.dims.customer)}
  IN Cardinality(before) >= 2 \/ \E p \in before : p.status = "resolved"

Category(rule) ==
  CASE rule \in {"R011", "R012", "R013", "R014", "R016"} -> "discount"
    [] rule \in {"R110", "R111", "R113"} -> "credits"
    [] rule \in {"R060", "R061", "R062", "R064", "R160"} -> "lifecycle"
    [] OTHER -> "billing"

\* R072: three categories of issues about the contract, or a high impact together.
Correlated(x, issues) ==
  LET related == {y \in issues : y.contract = x.contract} IN
  /\ Cardinality(related) > 1
  /\ \/ Cardinality({Category(y.rule) : y \in related}) >= 3
     \/ MapThenSumSet(Size, related) >= CriticalImpact

ImpactSeverity(x) ==
  CASE Size(x) >= CriticalImpact -> Critical
    [] Size(x) >= HighImpact -> High
    [] Size(x) >= 1000 -> Medium
    [] OTHER -> Low

Reasons(x, b, issues) ==
  {r \in {"R070", "R071", "R072"} : \/ r = "R070" /\ Weighty(x, b)
                                    \/ r = "R071" /\ Recurs(x, b)
                                    \/ r = "R072" /\ Correlated(x, issues)}

\* Each reason raises the severity by a rank; a high impact raises it further.
ScoreIssue(x, b, issues) ==
  [x EXCEPT !.severity = Max({Min({x.severity + Cardinality(Reasons(x, b, issues)), Critical}),
                              ImpactSeverity(x)}),
            !.confidence = IF Capped(x, b) THEN Min({x.confidence, 30}) ELSE x.confidence]

-----------------------------------------------------------------------------
Init ==
  /\ rulBook \in Books
  /\ rulStep = 1 /\ rulFired = {} /\ rulRaw = {} /\ rulIssues = {}

Suppressed(rule) == Hierarchy(rule) \cap rulFired # {}

SkipRule ==
  /\ rulStep <= LastRule
  /\ Gated(Order[rulStep], rulBook) \/ Suppressed(Order[rulStep])
  /\ rulStep' = rulStep + 1
  /\ UNCHANGED <<rulBook, rulFired, rulRaw, rulIssues>>

\* A rule that throws on a row it cannot read leaves no issue, and the run goes on.
RuleThrows ==
  /\ rulStep <= LastRule
  /\ ~Gated(Order[rulStep], rulBook) /\ ~Suppressed(Order[rulStep])
  /\ rulBook.throws = Order[rulStep]
  /\ rulStep' = rulStep + 1
  /\ UNCHANGED <<rulBook, rulFired, rulRaw, rulIssues>>

RunRule ==
  /\ rulStep <= LastRule
  /\ ~Gated(Order[rulStep], rulBook) /\ ~Suppressed(Order[rulStep])
  /\ rulBook.throws # Order[rulStep]
  /\ LET raised == Run(Order[rulStep], rulBook) IN
       /\ rulRaw' = rulRaw \cup raised
       /\ rulFired' = IF raised = {} THEN rulFired ELSE rulFired \cup {Order[rulStep]}
  /\ rulStep' = rulStep + 1
  /\ UNCHANGED <<rulBook, rulIssues>>

Deduplicate ==
  /\ rulStep = LastRule + 1
  /\ rulIssues' = ApplyHierarchy(RemoveDuplicates(rulRaw))
  /\ rulStep' = rulStep + 1
  /\ UNCHANGED <<rulBook, rulFired, rulRaw>>

Score ==
  /\ rulStep = LastRule + 2
  /\ rulIssues' = {ScoreIssue(x, rulBook, rulIssues) : x \in rulIssues}
  /\ rulStep' = rulStep + 1
  /\ UNCHANGED <<rulBook, rulFired, rulRaw>>

Next == SkipRule \/ RuleThrows \/ RunRule \/ Deduplicate \/ Score

Spec == Init /\ [][Next]_rulVars
-----------------------------------------------------------------------------
Customers(id) == {c.customer : c \in {d \in rulBook.contracts : d.id = id}}

\* A leak in a contract is reported, whatever else is wrong in the book, unless the
\* rule threw, was gated, or a more specific rule is reported of the same contract or
\* customer (runDetection, deduplicateIssues).
PlantedIsFound ==
  Finished =>
    \A p \in rulBook.planted :
      \/ \E x \in rulIssues : x.rule = p.rule /\ x.contract = p.contract
      \/ rulBook.throws = p.rule
      \/ Gated(p.rule, rulBook)
      \/ Explained(p.rule, p.contract, Customers(p.contract))

\* A contract that is billed as agreed is reported by no rule but R006, which takes
\* the invoices of consecutive months for duplicates, whatever the other contracts
\* of the book, its customer's too, look like (the rules' run functions).
CleanIsQuiet ==
  Finished =>
    \A c \in rulBook.contracts :
      (\A p \in rulBook.planted : p.contract # c.id)
        => \A x \in rulIssues : x.contract = c.id => x.rule = "R006"

\* A period of an active contract for which no invoice was made, by its dates, is
\* reported (R001; docs/detection-rules.md:81).
MissingIsFound ==
  Finished /\ rulBook.throws # "R001" /\ ~Gated("R001", rulBook) =>
    \A c \in {d \in rulBook.contracts : Active(d) /\ ~d.hold} :
      \A p \in ToSet(ExpectedPeriods(c)) :
        \/ \E i \in InvoicesOf(rulBook, c) :
             {i.date, i.from} \cap (p.start..(p.end - 1)) # {}
        \/ \E x \in rulIssues : x.rule = "R001" /\ x.contract = c.id /\ x.dims.period = p.start
=============================================================================
