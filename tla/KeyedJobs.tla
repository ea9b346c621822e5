------------------------------ MODULE KeyedJobs ------------------------------
(***************************************************************************)
(* What an idempotency key promises to the clients of the enqueue route,   *)
(* without queue, workers or failures: a key is bound to at most one job,  *)
(* for ever, and a client is told that its request is a duplicate only in  *)
(* the name of that job and only once the job has been processed.          *)
(***************************************************************************)
CONSTANTS Keys, Jobs

VARIABLES
  bound,      \* pairs <<key, job>>: the job created for a key
  processed,  \* the jobs whose processor has run to the end
  told        \* pairs <<key, job>>: the duplicates reported to clients

vars == <<bound, processed, told>>

Init == bound = {} /\ processed = {} /\ told = {}

\* A job is created for a key that has none.
Bind(k, j) ==
  /\ \A p \in bound : p[1] # k /\ p[2] # j
  /\ bound' = bound \cup {<<k, j>>}
  /\ UNCHANGED <<processed, told>>

Process(j) ==
  /\ processed' = processed \cup {j}
  /\ UNCHANGED <<bound, told>>

Tell(k, j) ==
  /\ <<k, j>> \in bound
  /\ j \in processed
  /\ told' = told \cup {<<k, j>>}
  /\ UNCHANGED <<bound, processed>>

Next ==
  \/ \E k \in Keys, j \in Jobs : Bind(k, j) \/ Tell(k, j)
  \/ \E j \in Jobs : Process(j)

Spec == Init /\ [][Next]_vars
=============================================================================
