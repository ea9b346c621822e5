--------------------------- MODULE IdentityState ---------------------------
(***************************************************************************)
(* What Identity keeps, and what it promises: the candidates and tasks of  *)
(* the pairs of a snapshot's customers, the groups they are merged into,   *)
(* decisions, requests, and jobs with their tries; and the invariants.     *)
(*                                                                         *)
(* The row of a customer in a group that group g was inserted with is      *)
(* <<g, c>>: merging moves rows, splitting deletes one.                    *)
(***************************************************************************)
EXTENDS Integers, FiniteSets

CONSTANTS
  None, Gone,
  IdnCustomers,    \* numbers, in the order of their ids
  IdnRuns, IdnActors, IdnJobs,
  MaxIdnGroups,    \* rows of customer_identities, and of decisions, at most
  MaxIdnDecisions,
  MaxIdnFaults     \* calls that fail, workers that die, locks that are lost

VARIABLES
  idnBook,         \* the customers
  idnRuns,         \* idnRuns[r]: status of the identity_runs row, or None
  idnCandidates,   \* idnCandidates[p]: status of the candidate row of a pair, or None
  idnTasks,        \* idnTasks[p]: status of its task, or None
  idnGroups,       \* idnGroups[g]: member_count of the customer_identities row, None, or Gone
  idnMembers,      \* idnMembers[<<g, c>>]: the group the row is in now, or None
  idnDecisions,    \* idnDecisions[d]: pair and verdict, or None
  idnSuppressed,   \* pairs of identity_suppressions
  idnActors,       \* requests
  idnJobs,         \* idnJobs[j]: what the job is for, and where its two tries stand
  idnFaults,
  idnOverlap       \* history: two tries applied decisions at a time

idnVars == <<idnBook, idnRuns, idnCandidates, idnTasks, idnGroups, idnMembers, idnDecisions,
          idnSuppressed, idnActors, idnJobs, idnFaults, idnOverlap>>

Pairs == {p \in IdnCustomers \X IdnCustomers : p[1] < p[2]}
Groups == 1..MaxIdnGroups
DecisionIds == 1..MaxIdnDecisions
Verdicts == {"confirm", "reject", "merge", "split"}
Tries == 1..2

ASSUME IdentityAssumption ==
  /\ IsFiniteSet(IdnCustomers) /\ IdnCustomers \subseteq Int
  /\ MaxIdnGroups \in Nat /\ MaxIdnDecisions \in Nat /\ MaxIdnFaults \in Nat
  /\ None # Gone /\ None \notin Nat /\ Gone \notin Nat /\ None \notin IdnRuns
  /\ None \notin Pairs /\ None \notin [pair : Pairs, verdict : Verdicts]
  /\ None \notin {"pending", "running", "completed", "failed", "auto_merged", "confirmed",
                  "rejected", "resolved"}

Try(j, n) == idnJobs[j].tries[n]
Going(j, n) == Try(j, n).at \notin {"none", "done", "failed", "dead"}
Run(j) == idnJobs[j].run
Resolves(j) == Run(j) # None
Applies(j) == idnJobs[j].decisions # {}
Applying == {t \in IdnJobs \X Tries : Applies(t[1]) /\ Going(t[1], t[2])}

RowsOf(c) == {<<g, c>> : g \in {h \in Groups : idnMembers[<<h, c>>] # None}}
GroupsOf(c) == {idnMembers[row] : row \in RowsOf(c)}
RowsIn(g) == {row \in DOMAIN idnMembers : idnMembers[row] = g}

(***************************************************************************)
(* Properties                                                              *)
(***************************************************************************)
IdentityTypeOK ==
  /\ \A r \in IdnRuns : idnRuns[r] \in {None, "pending", "running", "completed", "failed"}
  /\ \A p \in Pairs :
       /\ idnCandidates[p] \in {None, "pending", "auto_merged", "confirmed", "rejected"}
       /\ idnTasks[p] \in {None, "pending", "resolved"}
  /\ idnSuppressed \subseteq Pairs
  /\ idnFaults \in 0..MaxIdnFaults

Together(p) == GroupsOf(p[1]) \cap GroupsOf(p[2]) # {}
AskedFor(p, verdicts) ==
  \E d \in DecisionIds :
    /\ idnDecisions[d] # None /\ idnDecisions[d].verdict \in verdicts
    /\ idnDecisions[d].pair = p

\* A reviewer asked to take one of them out of a group.
SplitAsked(p) == \E q \in Pairs : q[2] \in {p[1], p[2]} /\ AskedFor(q, {"split"})

\* A run that a try completed has merged every pair above the threshold and queued every
\* pair in between for review, and nothing takes the merged ones apart again but a
\* split somebody asked for, or two workers that apply decisions at a time
\* (processIdentityResolveJob, applyMergeDecision, applySplitDecision).
CompletedIsWhole ==
  \A j \in IdnJobs, n \in Tries :
    Resolves(j) /\ Try(j, n).at = "done" =>
      \A m \in Try(j, n).read :
        IF m.as = "review" THEN idnTasks[m.pair] # None
        ELSE idnOverlap \/ Together(m.pair) \/ SplitAsked(m.pair)

\* One decision has been taken on a pair, or several, none of them being applied nor cut
\* short.
Settled(p) ==
  LET on == {d \in DecisionIds : idnDecisions[d] # None /\ idnDecisions[d].pair = p} IN
  \/ Cardinality(on) = 1
  \/ idnFaults = 0 /\ \A t \in Applying : Try(t[1], t[2]).decision \notin on

\* A resolved task was decided, its candidate has the status of a decision on it, a
\* rejected pair is suppressed and a confirmed one is together
\* (processIdentityApplyJob).
ResolvedIsApplied ==
  \A p \in Pairs :
    idnTasks[p] = "resolved" /\ Settled(p) =>
      IF idnCandidates[p] = "confirmed"
      THEN \/ AskedFor(p, {"confirm"}) /\ (Together(p) \/ SplitAsked(p) \/ idnOverlap)
           \/ AskedFor(p, {"merge"})
      ELSE /\ idnCandidates[p] = "rejected"
           /\ AskedFor(p, {"split"}) \/ (AskedFor(p, {"reject"}) /\ p \in idnSuppressed)

\* Only pairs that a reviewer rejected are kept from being matched again.
SuppressedIsRejected == \A p \in idnSuppressed : AskedFor(p, {"reject"})

\* member_count is the number of members, at least two, unless a try is on it or was
\* cut short, or two applied decisions at a time (applyMergeDecision, applySplitDecision).
CountsAreTrue ==
  idnFaults = 0 /\ ~idnOverlap /\ ~(\E j \in IdnJobs, n \in Tries : Going(j, n)) =>
    \A g \in Groups : idnGroups[g] \notin {None, Gone} =>
      idnGroups[g] = Cardinality(RowsIn(g)) /\ idnGroups[g] >= 2

\* A run left 'running' has a try on it, or one that died or could not say it failed.
RunningHasACause ==
  \A r \in IdnRuns : idnRuns[r] = "running" =>
    \/ idnFaults > 0
    \/ \E j \in IdnJobs, n \in Tries : Resolves(j) /\ Run(j) = r /\ Going(j, n)

\* Types; a completed run has merged and queued what it should and nothing but a split
\* takes it apart, a resolved task was applied as decided, only rejected pairs are
\* suppressed, members are counted, a run left 'running' has a cause
\* (processIdentityResolveJob, processIdentityApplyJob).
IdentityInv ==
  /\ IdentityTypeOK /\ CompletedIsWhole /\ ResolvedIsApplied /\ SuppressedIsRejected
  /\ CountsAreTrue /\ RunningHasACause
=============================================================================
