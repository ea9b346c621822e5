----------------------------- MODULE MCIngestion -----------------------------
(* Small sets of records of Ingestion for TLC. *)
EXTENDS Ingestion

MCTypes == <<"product", "customer", "contract", "invoice", "payment", "pricePlan">>

\* A product, a customer with a contract and an invoice, the invoice's payment.
MCType ==
  [r \in Records |->
     CASE r = "prod" -> "product"   [] r = "cust" -> "customer"
       [] r = "contr" -> "contract" [] r = "inv" -> "invoice"
       [] r = "pay" -> "payment"    [] r = "plan" -> "pricePlan"]

MCRefs ==
  [r \in Records |->
     Records \cap CASE r = "contr" -> {"cust"} [] r = "inv" -> {"cust", "contr"}
                    [] r = "pay" -> {"inv", "cust"} [] r = "plan" -> {"prod"}
                    [] OTHER -> {}]

MCLinesOf ==
  [r \in Records |->
     IF r # "inv" THEN <<>>
     ELSE IF "prod" \in Records THEN <<"prod", NoRecord>> ELSE <<NoRecord, NoRecord>>]

\* One batch with everything, or a batch that repeats an object of another one.
OneBatch == [b \in Batches |-> Records]
Repeated == [b \in Batches |-> IF b = "b1" THEN {"cust"} ELSE Records]
=============================================================================
