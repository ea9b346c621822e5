----------------------------- MODULE ReviewState -----------------------------
(***************************************************************************)
(* What Review keeps, and what it promises: the review_queue rows, the     *)
(* requests and the sweeps at work on them, and the invariants.            *)
(***************************************************************************)
EXTENDS Naturals

CONSTANTS
  Items,        \* review_queue rows
  Reviewers,    \* requests, each by a reviewer of its own
  Nobody,
  Sweeps,       \* scheduler ticks that may be under way at once
  Limit,        \* how many items a sweep takes (100)
  MaxFailures   \* bound on failing calls

ASSUME ReviewAssumption == Nobody \notin Reviewers /\ Limit \in Nat /\ MaxFailures \in Nat

VARIABLES
  revwItems,    \* the rows: status, holder, who decided, a day old or not
  revwReqs,     \* each request: where it is, what it asks, of which item
  revwSweeps,   \* each sweep: the items it selected, those decided by then
  revwFailures  \* history: how many calls failed

revwVars == <<revwItems, revwReqs, revwSweeps, revwFailures>>

ReviewStatuses == {"pending", "in_review", "resolved", "skipped"}
Decided(i) == revwItems[i].status \in {"resolved", "skipped"}

(***************************************************************************)
(* Properties                                                              *)
(***************************************************************************)
ReviewItem == [status : ReviewStatuses, holder : Reviewers \cup {Nobody},
               decider : Reviewers \cup {Nobody}, old : BOOLEAN]
ReviewRequest == [at : {"idle", "write", "done", "refused"},
                  ask : {"assign", "release", "resolve", "skip"},
                  item : Items \cup {Nobody}]

ReviewTypeOK ==
  /\ revwItems \in [Items -> ReviewItem]
  /\ revwReqs \in [Reviewers -> ReviewRequest]
  /\ revwSweeps \in [Sweeps -> [ids : SUBSET Items, decided : SUBSET Items]]
  /\ revwFailures \in 0..MaxFailures

\* However requests and sweeps overtake each other, an item in review is held by
\* somebody, a pending one by nobody, and a decided one says who decided it.
HeldByOne ==
  \A i \in Items :
    /\ revwItems[i].status = "in_review" => revwItems[i].holder # Nobody
    /\ revwItems[i].status = "pending" => revwItems[i].holder = Nobody
    /\ Decided(i) => revwItems[i].decider # Nobody

\* Types, and who holds and who decided an item (routes/contracts/review).
ReviewInv == ReviewTypeOK /\ HeldByOne

\* A decision is undone by a request that assigns or releases the item, or by a
\* sweep that selected it before it was decided (between the sweep's two
\* statements a decision is lost), never by a sweep that came after it.
DecisionsStay ==
  [][\A i \in Items : Decided(i) /\ revwItems'[i].status \in {"pending", "in_review"} =>
       \/ \E c \in Reviewers : /\ revwReqs[c].at = "write" /\ revwReqs[c].item = i
                               /\ revwReqs[c].ask \in {"assign", "release"}
       \/ \E s \in Sweeps : i \in revwSweeps[s].ids \ revwSweeps[s].decided]_revwVars
=============================================================================
