------------------------------- MODULE Review -------------------------------
(***************************************************************************)
(* The review queue (routes/contracts/review.ts) and the scheduler's sweep *)
(* that gives stuck items back (cleanupOrphanedReviewItems, scheduler.ts). *)
(* A request reads an item and then updates it by id; a sweep selects at   *)
(* most Limit items and then updates them by id.  The table has no         *)
(* updated_at, so that the optimistic lock of resolve never compares, and  *)
(* no item has a term, so that nothing else is written.                    *)
(***************************************************************************)
EXTENDS ReviewState, FiniteSets

Set(i, row) == revwItems' = [revwItems EXCEPT ![i] = row]
Go(c, at) == revwReqs' = [revwReqs EXCEPT ![c].at = at]

(***************************************************************************)
(* Requests                                                                *)
(***************************************************************************)
\* PATCH /review/:id/assign asks for any status; resolve turns a resolved item down.
Read(c, i) ==
  /\ revwReqs[c].at = "idle"
  /\ \E ask \in {"assign", "release", "resolve"} :
       revwReqs' = [revwReqs EXCEPT ![c] =
         [at |-> IF ask = "resolve" /\ revwItems[i].status = "resolved"
                 THEN "refused" ELSE "write",
          ask |-> ask, item |-> i]]
  /\ UNCHANGED <<revwItems, revwSweeps, revwFailures>>

\* The update repeats no condition: it reopens or decides whatever it finds.
Assign(c) ==
  /\ revwReqs[c].at = "write"
  /\ revwReqs[c].ask \in {"assign", "release"}
  /\ Set(revwReqs[c].item,
         IF revwReqs[c].ask = "assign"
         THEN [revwItems[revwReqs[c].item] EXCEPT !.status = "in_review", !.holder = c]
         ELSE [revwItems[revwReqs[c].item] EXCEPT !.status = "pending", !.holder = Nobody])
  /\ Go(c, "done")
  /\ UNCHANGED <<revwSweeps, revwFailures>>

Resolve(c) ==
  /\ revwReqs[c].at = "write"
  /\ revwReqs[c].ask = "resolve"
  /\ Set(revwReqs[c].item, [revwItems[revwReqs[c].item] EXCEPT !.status = "resolved", !.decider = c])
  /\ Go(c, "done")
  /\ UNCHANGED <<revwSweeps, revwFailures>>

\* POST /review/:id/skip is one update, whatever the status was.
Skip(c, i) ==
  /\ revwReqs[c].at = "idle"
  /\ Set(i, [revwItems[i] EXCEPT !.status = "skipped", !.decider = c])
  /\ revwReqs' = [revwReqs EXCEPT ![c] = [at |-> "done", ask |-> "skip", item |-> i]]
  /\ UNCHANGED <<revwSweeps, revwFailures>>

RequestFails(c) ==
  /\ revwReqs[c].at = "write"
  /\ revwFailures < MaxFailures
  /\ Go(c, "refused")
  /\ revwFailures' = revwFailures + 1
  /\ UNCHANGED <<revwItems, revwSweeps>>

(***************************************************************************)
(* The sweep                                                               *)
(***************************************************************************)
Age(i) ==
  /\ ~revwItems[i].old
  /\ Set(i, [revwItems[i] EXCEPT !.old = TRUE])
  /\ UNCHANGED <<revwReqs, revwSweeps, revwFailures>>

\* A mutant of Stuck: the comparison of dates the other way round.
StuckYoung == {i \in Items : revwItems[i].status = "in_review" /\ ~revwItems[i].old}

\* By the age of the item, not of the assignment.
Stuck == {i \in Items : revwItems[i].status = "in_review" /\ revwItems[i].old}

Take(s, ids) ==
  revwSweeps' = [revwSweeps EXCEPT ![s] = [ids |-> ids, decided |-> {i \in ids : Decided(i)}]]

\* A mutant of Select: the status is not asked for.
SelectOld(s) ==
  /\ revwSweeps[s].ids = {}
  /\ \E ids \in SUBSET {i \in Items : revwItems[i].old} :
       ids # {} /\ Cardinality(ids) <= Limit /\ Take(s, ids)
  /\ UNCHANGED <<revwItems, revwReqs, revwFailures>>

Select(s) ==
  /\ revwSweeps[s].ids = {}
  /\ \E ids \in SUBSET Stuck :
       /\ Cardinality(ids) = IF Cardinality(Stuck) < Limit THEN Cardinality(Stuck) ELSE Limit
       /\ ids # {}
       /\ Take(s, ids)
  /\ UNCHANGED <<revwItems, revwReqs, revwFailures>>

\* A mutant of GiveBack: the holder stays.
GiveBackHeld(s) ==
  /\ revwSweeps[s].ids # {}
  /\ revwItems' = [i \in Items |-> IF i \in revwSweeps[s].ids
                     THEN [revwItems[i] EXCEPT !.status = "pending"] ELSE revwItems[i]]
  /\ Take(s, {})
  /\ UNCHANGED <<revwReqs, revwFailures>>

GiveBack(s) ==
  /\ revwSweeps[s].ids # {}
  /\ revwItems' = [i \in Items |-> IF i \in revwSweeps[s].ids
                     THEN [revwItems[i] EXCEPT !.status = "pending", !.holder = Nobody]
                     ELSE revwItems[i]]
  /\ Take(s, {})
  /\ UNCHANGED <<revwReqs, revwFailures>>

\* The catch block: the next tick tries again.
SweepFails(s) ==
  /\ revwSweeps[s].ids # {}
  /\ revwFailures < MaxFailures
  /\ Take(s, {})
  /\ revwFailures' = revwFailures + 1
  /\ UNCHANGED <<revwItems, revwReqs>>

Init ==
  /\ revwItems = [i \in Items |->
                    [status |-> "pending", holder |-> Nobody, decider |-> Nobody, old |-> FALSE]]
  /\ revwReqs = [c \in Reviewers |-> [at |-> "idle", ask |-> "skip", item |-> Nobody]]
  /\ revwSweeps = [s \in Sweeps |-> [ids |-> {}, decided |-> {}]]
  /\ revwFailures = 0

Sweep(s) == Select(s) \/ GiveBack(s)

Next ==
  \/ \E c \in Reviewers :
       \/ \E i \in Items : Read(c, i) \/ Skip(c, i)
       \/ Assign(c) \/ Resolve(c) \/ RequestFails(c)
  \/ \E i \in Items : Age(i)
  \/ \E s \in Sweeps : Sweep(s) \/ SweepFails(s)

\* A tick comes every minute and its calls go on; time passes.
Fairness == (\A s \in Sweeps : WF_revwVars(Sweep(s))) /\ \A i \in Items : WF_revwVars(Age(i))

Spec == Init /\ [][Next]_revwVars /\ Fairness

\* Nobody keeps an item for ever: one that is in review is decided, released or
\* given back, also when more are stuck than a sweep takes.
StuckItemsReturn == \A i \in Items :
  (revwItems[i].status = "in_review") ~> (revwItems[i].status # "in_review")
=============================================================================
