---------------------------- MODULE MCRuleBooks ----------------------------
(***************************************************************************)
(* The books Rules is checked on: two contracts with three monthly invoices *)
(* each, billed as agreed but for the leaks planted in them.               *)
(***************************************************************************)
EXTENDS Integers, FiniteSets

CONSTANT Missing

RuleToday == 90

Monthly(id) == IF id = 1 THEN 1000 ELSE 50000

\* A contract and its invoices, billed as agreed.
Agreed(id, customer) ==
  [contract |->
     [id |-> id, customer |-> customer, status |-> "active", start |-> 0, end |-> 330,
      arr |-> 12 * Monthly(id), freq |-> "monthly", currency |-> "USD", renew |-> FALSE,
      hold |-> FALSE, holdFrom |-> Missing, cancelled |-> Missing, amended |-> Missing,
      terms |-> <<[type |-> "unit_price", product |-> 1, price |-> Monthly(id) \div 10,
                   quantity |-> Missing],
                  [type |-> "seats", product |-> Missing, price |-> Missing, quantity |-> 10]>>,
      discounts |-> {}, ramp |-> <<>>, ready |-> TRUE],
   invoices |->
     [k \in 1..3 |->
       [id |-> 10 * id + k, contract |-> id, customer |-> customer, number |-> 10 * id + k,
        date |-> 30 * (k - 1), from |-> 30 * (k - 1), to |-> 30 * k - 1, total |-> Monthly(id),
        currency |-> "USD",
        lines |-> {[id |-> 1, product |-> 1, price |-> Monthly(id) \div 10, quantity |-> 10,
                    amount |-> Monthly(id), described |-> FALSE]}]]]

\* A line that takes an amount off, and says so.
Discount(amount) ==
  [id |-> 2, product |-> 2, price |-> Missing, quantity |-> 10, amount |-> -amount,
   described |-> TRUE]

\* The changes that plant a leak of a rule in an agreed contract.
Plant(rule, a) ==
  LET m == a.invoices[1].total
      c == a.contract
      Line(k, price, quantity) ==
        [a EXCEPT !.invoices[k].total = m \div 2,
                  !.invoices[k].lines = {[id |-> 1, product |-> 1, price |-> price,
                                          quantity |-> quantity, amount |-> m \div 2,
                                          described |-> FALSE]}]
      Discounted(k, amount, terms) ==
        [a EXCEPT !.invoices[k].lines = @ \cup {Discount(amount)},
                  !.contract.discounts = terms]
      Twenty(from, to) == {[percent |-> 20, from |-> from, to |-> to]}
      Only(S) == [a EXCEPT !.invoices = [k \in S |-> a.invoices[k]]]
      More(i) == [a EXCEPT !.invoices = [k \in 1..4 |-> IF k = 4 THEN i ELSE a.invoices[k]]] IN
  CASE rule = "R001" -> Only({1, 2})
    [] rule = "R002" -> [a EXCEPT !.invoices[2].total = m \div 2]
    [] rule = "R003" -> [a EXCEPT !.invoices[2].total = 2 * m]
    [] rule = "R004" -> Line(2, m \div 20, 10)
    [] rule = "R005" -> Line(2, m \div 10, 5)
    [] rule = "R006" -> More([a.invoices[3] EXCEPT !.id = @ + 1, !.date = 37, !.from = 62, !.to = 91])
    [] rule = "R007" -> [a EXCEPT !.contract.end = 45]
    [] rule = "R008" -> [a EXCEPT !.contract.start = 10]
    [] rule = "R009" -> [a EXCEPT !.invoices[2].currency = "EUR"]
    [] rule = "R010" -> [Only({1, 3}) EXCEPT !.invoices[3].date = 90]
    [] rule = "R011" -> Discounted(2, m \div 5, Twenty(Missing, 20))
    [] rule = "R012" -> [a EXCEPT !.contract.discounts = Twenty(Missing, Missing)]
    [] rule = "R013" -> Discounted(2, m \div 2, Twenty(Missing, Missing))
    [] rule = "R016" -> [a EXCEPT !.contract.ramp = <<[from |-> 0, amount |-> m],
                                                      [from |-> 60, amount |-> 2 * m]>>]
    [] rule = "R017" -> [a EXCEPT !.invoices[3].to = 104]
    [] rule = "R018" -> [a EXCEPT !.invoices[3].date = 70]
    [] rule = "R110" -> More([a.invoices[3] EXCEPT !.id = @ + 1, !.number = Missing,
                                                   !.customer = Missing, !.from = Missing,
                                                   !.to = Missing, !.total = -m])
    [] rule = "R060" -> [Only({2, 3}) EXCEPT !.contract.start = 30, !.contract.amended = 60]
    [] rule = "R061" -> [a EXCEPT !.contract.status = "cancelled", !.contract.cancelled = 20]
    [] rule = "R062" -> [a EXCEPT !.contract.end = 25]
    [] rule = "R064" -> [a EXCEPT !.contract.renew = TRUE, !.contract.end = 40]
    [] rule = "R160" -> [a EXCEPT !.contract.hold = TRUE, !.contract.holdFrom = 50]
    [] OTHER -> a

Leaks == {"R001", "R002", "R003", "R004", "R005", "R006", "R007", "R008", "R009", "R010", "R011",
          "R012", "R013", "R016", "R017", "R018", "R110", "R060", "R061", "R062", "R064", "R160"}

\* The book of two contracts with a leak each, or none.
Book(first, second, same) ==
  LET a == Plant(first, Agreed(1, 1))
      b == Plant(second, Agreed(2, IF same THEN 1 ELSE 2))
      Issued(s) == {s[k] : k \in DOMAIN s} IN
  [contracts |-> {a.contract, b.contract}, invoices |-> Issued(a.invoices) \cup Issued(b.invoices),
   planted |-> {p \in {[rule |-> first, contract |-> 1], [rule |-> second, contract |-> 2]} :
                  p.rule \in Leaks},
   throws |-> Missing, stale |-> FALSE, prior |-> {}]

\* A price that is wrong on the second invoice and another leak of the same contract.
Together(rule) ==
  LET a == Plant("R004", Plant(rule, Agreed(1, 1))) IN
  [Book("", "", TRUE) EXCEPT
     !.contracts = {a.contract, Agreed(2, 1).contract},
     !.invoices = {a.invoices[k] : k \in DOMAIN a.invoices}
                    \cup {Agreed(2, 1).invoices[k] : k \in 1..3},
     !.planted = {[rule |-> r, contract |-> 1] : r \in {rule, "R004"}}]

Prior(rule) == {[rule |-> rule, contract |-> 2, customer |-> Missing, status |-> s] :
                    s \in {"resolved"}}

\* One leak alone, with a rule that throws, stale contracts, an earlier issue of the
\* rule, or contracts that are not ready.
Variants(rule) ==
  LET b == Book(rule, "", FALSE) IN
  {[b EXCEPT !.throws = r] : r \in {rule, "R001"}}
    \cup {[b EXCEPT !.stale = TRUE], [b EXCEPT !.prior = Prior(rule)],
          [b EXCEPT !.contracts = {[c EXCEPT !.ready = FALSE] : c \in @}]}

RuleBooks ==
  {Book(p[1], p[2], p[3]) : p \in (Leaks \cup {""}) \X (Leaks \cup {""}) \X BOOLEAN}
    \cup {Together(r) : r \in {"R009", "R017", "R018", "R160", "R007", "R016"}}
    \cup UNION {Variants(r) : r \in Leaks}
=============================================================================
