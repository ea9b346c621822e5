--------------------------- MODULE Identity_proofs ---------------------------
(***************************************************************************)
(* Proofs about Identity and, in the second and third part, about Digests  *)
(* and Review.  Identity has any customers, matching, runs, requests, jobs *)
(* and bounds.                                                             *)
(* IdnInv adds to the properties where each try may be and what it holds   *)
(* there (Placed), that a group is its try's alone until its rows are in   *)
(* (Grouped), what an applying try that is alone knows of the groups it    *)
(* works on (Alone, Regrouped), that no other group is miscounted          *)
(* (Counted), what of its pairs a resolving try has done (Matched), and    *)
(* what the status of a candidate and of a task says (Told).               *)
(***************************************************************************)
EXTENDS Identity, DigestState, ReviewState, Sequences, FiniteSetTheorems, TLAPS

RunStatuses == {"pending", "running", "completed", "failed"}
CandidateStatuses == {"pending", "auto_merged", "confirmed", "rejected"}
Mark == [pair : Pairs, as : {"auto_merge", "review"}]
Decision == [pair : Pairs, verdict : Verdicts]

\* Where the tries of both kinds of job may be; on a decision, and on two groups of it.
ResolvePlaces == {"load", "next", "insertTask", "insertGroup", "insertMembers", "fail", "done",
                  "failed", "dead"}
Regrouping == {"move", "deleteRow", "count", "setCount", "deleteRows", "deleteGroup"}
Deciding == {"insertGroup", "insertMembers", "readMembers", "setCandidate", "suppress",
             "resolve"} \cup Regrouping
ApplyPlaces == {"next", "done", "dead"} \cup Deciding
IdnPlaces == {"none"} \cup ResolvePlaces \cup ApplyPlaces

IdnTry == [at : IdnPlaces, pairs : SUBSET Mark, pair : Pairs \cup {None},
           decisions : SUBSET DecisionIds, decision : DecisionIds \cup {None},
           groups : Seq(Groups), count : Nat, read : SUBSET Mark]
IdnJob == [run : IdnRuns \cup {None}, decisions : SUBSET DecisionIds,
           config : IdnConfigs \cup {None}, tries : [Tries -> IdnTry]]
IdnActor == [at : {"idle", "trigger", "decide"}, what : Decision \cup {None}]

Typed ==
  /\ idnRuns \in [IdnRuns -> RunStatuses \cup {None}]
  /\ idnCandidates \in [Pairs -> CandidateStatuses \cup {None}]
  /\ idnTasks \in [Pairs -> {"pending", "resolved", None}]
  /\ idnGroups \in [Groups -> Nat \cup {None, Gone}]
  /\ idnMembers \in [Groups \X IdnCustomers -> Groups \cup {None}]
  /\ idnDecisions \in [DecisionIds -> Decision \cup {None}]
  /\ idnSuppressed \subseteq Pairs
  /\ idnActors \in [IdnActors -> IdnActor]
  /\ \A a \in IdnActors : idnActors[a].at = "decide" => idnActors[a].what # None
  /\ idnJobs \in [IdnJobs -> IdnJob]
  /\ idnFaults \in 0..MaxIdnFaults /\ idnOverlap \in BOOLEAN

\* The verdicts of a decision that leads to a place.
VerdictsAt(at) ==
  CASE at \in {"insertGroup", "insertMembers"} -> {"confirm"}
    [] at \in {"readMembers", "count", "setCount", "deleteGroup"} -> {"merge", "split"}
    [] at = "move" -> {"merge"}
    [] at \in {"deleteRow", "deleteRows"} -> {"split"}
    [] at = "suppress" -> {"reject"}
    [] OTHER -> Verdicts

PlacedAt(j, n) ==
  /\ \/ Try(j, n).at = "none"
     \/ Resolves(j) /\ Try(j, n).at \in ResolvePlaces
     \/ Applies(j) /\ Try(j, n).at \in ApplyPlaces
  /\ \A d \in Try(j, n).decisions : idnDecisions[d] # None
  /\ Resolves(j) /\ Try(j, n).at \in {"insertTask", "insertGroup", "insertMembers"} =>
       Try(j, n).pair \in Pairs
  /\ Applies(j) /\ Try(j, n).at \in Deciding =>
       /\ Try(j, n).decision \in DecisionIds /\ idnDecisions[Try(j, n).decision] # None
       /\ Verdict(j, n) \in VerdictsAt(Try(j, n).at)
  /\ Try(j, n).at = "insertMembers" => Try(j, n).groups[1] \in Groups
  /\ Try(j, n).at \in Regrouping =>
       /\ Try(j, n).groups[1] \in Groups /\ Try(j, n).groups[2] \in Groups
       /\ Verdict(j, n) = "merge" => Try(j, n).groups[1] # Try(j, n).groups[2]

Placed ==
  /\ \A j \in IdnJobs : Resolves(j) => ~Applies(j)
  /\ \A j \in IdnJobs, n \in Tries : PlacedAt(j, n)

\* The groups a try has in hand.
Holds(j, n) ==
  IF Try(j, n).at = "insertMembers" THEN {Try(j, n).groups[1]}
  ELSE IF Try(j, n).at \in Regrouping THEN {Try(j, n).groups[1], Try(j, n).groups[2]}
  ELSE {}

\* A group that was inserted without its rows: no row is of it or in it, no other
\* try has it in hand.
Fresh(g) ==
  /\ idnGroups[g] = 2
  /\ \A row \in Groups \X IdnCustomers :
       idnMembers[row] # g /\ (row[1] = g => idnMembers[row] = None)
Owned(j, n) ==
  /\ Fresh(Try(j, n).groups[1])
  /\ \A k \in IdnJobs, m \in Tries : <<k, m>> # <<j, n>> => Try(j, n).groups[1] \notin Holds(k, m)

Grouped ==
  /\ \A row \in Groups \X IdnCustomers : idnMembers[row] # None =>
       idnGroups[row[1]] # None /\ idnGroups[idnMembers[row]] # None
  /\ \A j \in IdnJobs, n \in Tries :
       /\ \A g \in Holds(j, n) : idnGroups[g] # None
       /\ Try(j, n).at = "insertMembers" => Owned(j, n)

\* Unless two overlapped, one try applies decisions at a time.
Alone ==
  ~idnOverlap =>
    \A j, k \in IdnJobs, n, m \in Tries :
      Applies(j) /\ Going(j, n) /\ Applies(k) /\ Going(k, m) => j = k /\ n = m

\* What it then knows of its two groups.
Size(g) == Cardinality(RowsIn(g))
RegroupedAt(j, n) ==
  LET at == Try(j, n).at
      g == Try(j, n).groups[1]
      h == Try(j, n).groups[2]
      merges == Verdict(j, n) = "merge"
  IN
  /\ at = "deleteRow" => idnMembers[<<h, PairAt(j, n)[2]>>] = g
  /\ at = "deleteRows" => \A r, s \in RowsIn(g) : r = s
  /\ at = "deleteGroup" /\ ~merges => RowsIn(g) = {}
  /\ at \in {"count", "setCount", "deleteGroup"} /\ merges => RowsIn(h) = {}
  /\ at = "setCount" => Try(j, n).count = Size(g) /\ (~merges => Size(g) >= 2)
  /\ at \in {"count", "setCount"} /\ merges /\ idnFaults = 0 /\ idnGroups[g] # Gone => Size(g) >= 2
Regrouped ==
  ~idnOverlap => \A j \in IdnJobs, n \in Tries : Try(j, n).at \in Regrouping => RegroupedAt(j, n)

\* The groups whose count a try has still to make true.
Unsettled(j, n) ==
  LET at == Try(j, n).at
      g == Try(j, n).groups[1]
      h == Try(j, n).groups[2]
      merges == Verdict(j, n) = "merge"
  IN CASE at \in {"insertMembers", "deleteRows"} -> {g}
       [] at \in {"count", "setCount"} -> IF merges THEN {g, h} ELSE {g}
       [] at = "deleteGroup" -> IF merges THEN {h} ELSE {g}
       [] OTHER -> {}
Exact(g) == idnGroups[g] = Size(g) /\ Size(g) >= 2
Counted ==
  idnFaults = 0 /\ ~idnOverlap =>
    \A g \in Groups : idnGroups[g] \notin {None, Gone} =>
      Exact(g) \/ \E j \in IdnJobs, n \in Tries : g \in Unsettled(j, n)

\* Two customers that were put together, unless a split or an overlap took them apart.
Kept(p) == idnOverlap \/ Together(p) \/ SplitAsked(p)

\* What a resolving try has read and is not about to do is done.
Satisfied(m) == IF m.as = "review" THEN idnTasks[m.pair] # None ELSE Kept(m.pair)
InHand(j, n, m) ==
  /\ m.pair = Try(j, n).pair
  /\ \/ m.as = "review" /\ Try(j, n).at = "insertTask"
     \/ m.as = "auto_merge" /\ Try(j, n).at \in {"insertGroup", "insertMembers"}
MatchedAt(j, n) ==
  /\ \A m \in Try(j, n).read : m \in Try(j, n).pairs \/ Satisfied(m) \/ InHand(j, n, m)
  /\ Try(j, n).at = "done" => Try(j, n).pairs = {}
Matched ==
  \A j \in IdnJobs, n \in Tries :
    Resolves(j) /\ Try(j, n).at \in {"next", "insertTask", "insertGroup", "insertMembers", "done"}
      => MatchedAt(j, n)

\* A decision on a pair, and one that leaves nothing to suppress.
On(d, p) == idnDecisions[d] # None /\ idnDecisions[d].pair = p
Suppressing(p) ==
  \E j \in IdnJobs, n \in Tries :
    Applies(j) /\ Try(j, n).at = "suppress" /\ PairAt(j, n) = p
ToldOf(p) ==
  /\ idnTasks[p] = "resolved" =>
       /\ idnCandidates[p] \in {"confirmed", "rejected"}
       /\ \E d \in DecisionIds :
            On(d, p) /\ (idnDecisions[d].verdict = "reject" => p \in idnSuppressed)
  /\ idnCandidates[p] = "confirmed" =>
       (AskedFor(p, {"confirm"}) /\ Kept(p)) \/ AskedFor(p, {"merge"})
  /\ idnCandidates[p] = "rejected" =>
       \/ AskedFor(p, {"split"})
       \/ AskedFor(p, {"reject"}) /\ (p \in idnSuppressed \/ idnFaults > 0 \/ Suppressing(p))
  /\ p \in idnSuppressed => AskedFor(p, {"reject"})
ToldAt(j, n) ==
  /\ Try(j, n).at = "setCandidate" /\ Verdict(j, n) = "confirm" => Kept(PairAt(j, n))
  /\ Try(j, n).at \in {"suppress", "resolve"} =>
       idnCandidates[PairAt(j, n)] \in {"confirmed", "rejected"}
  /\ Try(j, n).at = "resolve" /\ Verdict(j, n) = "reject" => PairAt(j, n) \in idnSuppressed
Told ==
  /\ \A p \in Pairs : ToldOf(p)
  /\ \A j \in IdnJobs, n \in Tries : Applies(j) => ToldAt(j, n)

IdnInv ==
  /\ Typed /\ Placed /\ Grouped /\ Alone /\ Regrouped /\ Counted /\ Matched /\ Told
  /\ RunningHasACause

(***************************************************************************)
(* Frames                                                                  *)
(***************************************************************************)
LEMMA IdnNone ==
  /\ None \notin Groups /\ Gone \notin Groups /\ None \notin DecisionIds /\ None \notin Decision
  /\ None \notin RunStatuses /\ None \notin CandidateStatuses /\ None \notin Nat /\ Gone \notin Nat
  /\ None # Gone /\ None \notin {"pending", "resolved"} /\ None \notin IdnRuns
  /\ None \notin Pairs
BY IdentityAssumption
   DEF Groups, DecisionIds, Decision, RunStatuses, CandidateStatuses

\* Nothing that another try or what a job is for depends on is written.
Steps(j, n) ==
  /\ idnJobs' \in [IdnJobs -> IdnJob]
  /\ \A k \in IdnJobs :
       /\ idnJobs'[k].run = idnJobs[k].run /\ idnJobs'[k].decisions = idnJobs[k].decisions
       /\ idnJobs'[k].config = idnJobs[k].config
       /\ \A m \in Tries : <<k, m>> # <<j, n>> => idnJobs'[k].tries[m] = idnJobs[k].tries[m]

LEMMA MoveFrame ==
  ASSUME Typed, NEW j \in IdnJobs, NEW n \in Tries, NEW try \in IdnTry, Move(j, n, try)
  PROVE  Steps(j, n) /\ idnJobs'[j].tries[n] = try
<1> DEFINE tries == [idnJobs[j].tries EXCEPT ![n] = try]
           new == [idnJobs[j] EXCEPT !.tries = tries]
<1>1. idnJobs[j] \in IdnJob /\ idnJobs[j].tries \in [Tries -> IdnTry]
  BY DEF Typed, IdnJob
<1>2. /\ tries \in [Tries -> IdnTry] /\ tries[n] = try
      /\ \A m \in Tries : m # n => tries[m] = idnJobs[j].tries[m]
  BY <1>1
<1>3. idnJobs' = [idnJobs EXCEPT ![j] = new]
  BY DEF Move
<1> HIDE DEF tries
<1>4. /\ new \in IdnJob /\ new.run = idnJobs[j].run /\ new.decisions = idnJobs[j].decisions
      /\ new.config = idnJobs[j].config /\ new.tries = tries
  BY <1>1, <1>2 DEF IdnJob
<1> HIDE DEF new
<1>5. /\ idnJobs' \in [IdnJobs -> IdnJob] /\ idnJobs'[j] = new
      /\ \A k \in IdnJobs : k # j => idnJobs'[k] = idnJobs[k]
  BY <1>3, <1>4 DEF Typed
<1> QED
  BY <1>2, <1>4, <1>5 DEF Steps

LEMMA TryTyped ==
  ASSUME Typed, NEW j \in IdnJobs, NEW n \in Tries
  PROVE  Try(j, n) \in IdnTry
BY DEF Typed, IdnJob, Try

LEMMA ToFrame ==
  ASSUME Typed, NEW j \in IdnJobs, NEW n \in Tries, NEW at \in IdnPlaces, To(j, n, at)
  PROVE  /\ Steps(j, n) /\ Try(j, n)'.at = at /\ Try(j, n)'.pairs = Try(j, n).pairs
         /\ Try(j, n)'.pair = Try(j, n).pair /\ Try(j, n)'.decisions = Try(j, n).decisions
         /\ Try(j, n)'.decision = Try(j, n).decision /\ Try(j, n)'.groups = Try(j, n).groups
         /\ Try(j, n)'.count = Try(j, n).count /\ Try(j, n)'.read = Try(j, n).read
<1> DEFINE new == [Try(j, n) EXCEPT !.at = at]
<1>1. Try(j, n) \in IdnTry
  BY TryTyped
<1>2. /\ new \in IdnTry /\ new.at = at /\ new.pairs = Try(j, n).pairs
      /\ new.pair = Try(j, n).pair /\ new.decisions = Try(j, n).decisions
      /\ new.decision = Try(j, n).decision /\ new.groups = Try(j, n).groups
      /\ new.count = Try(j, n).count /\ new.read = Try(j, n).read
  BY <1>1 DEF IdnTry
<1>3. Move(j, n, new)
  BY DEF To
<1> HIDE DEF new
<1>4. Steps(j, n) /\ idnJobs'[j].tries[n] = new
  BY <1>2, <1>3, MoveFrame
<1> QED
  BY <1>2, <1>4 DEF Try

LEMMA RestingTyped == Resting \in IdnTry /\ Resting.at = "none"
<1>1. <<>> \in Seq(Groups) /\ "none" \in IdnPlaces
  BY DEF IdnPlaces
<1> QED
  BY <1>1 DEF Resting, IdnTry

LEMMA NextDecisionFrame ==
  ASSUME Typed, NEW j \in IdnJobs, NEW n \in Tries, NextDecision(j, n)
  PROVE  /\ Steps(j, n) /\ Try(j, n)'.at = "next" /\ Try(j, n)'.pairs = Try(j, n).pairs
         /\ Try(j, n)'.decisions = Try(j, n).decisions /\ Try(j, n)'.read = Try(j, n).read
<1> DEFINE new == [Try(j, n) EXCEPT !.at = "next", !.decision = None, !.groups = <<>>,
                                    !.count = 0]
<1>1. Try(j, n) \in IdnTry
  BY TryTyped
<1>2. <<>> \in Seq(Groups) /\ "next" \in IdnPlaces
  BY DEF IdnPlaces, ResolvePlaces
<1>3. /\ new \in IdnTry /\ new.at = "next" /\ new.pairs = Try(j, n).pairs
      /\ new.decisions = Try(j, n).decisions /\ new.read = Try(j, n).read
  BY <1>1, <1>2 DEF IdnTry
<1>4. Move(j, n, new)
  BY DEF NextDecision
<1> HIDE DEF new
<1>5. Steps(j, n) /\ idnJobs'[j].tries[n] = new
  BY <1>3, <1>4, MoveFrame
<1> QED
  BY <1>3, <1>5 DEF Try

LEMMA StepsFrame ==
  ASSUME NEW j \in IdnJobs, NEW n \in Tries, Steps(j, n), UNCHANGED idnDecisions,
         NEW k \in IdnJobs
  PROVE  /\ Run(k)' = Run(k) /\ Resolves(k)' = Resolves(k) /\ Applies(k)' = Applies(k)
         /\ \A m \in Tries : <<k, m>> # <<j, n>> =>
              /\ Try(k, m)' = Try(k, m) /\ Going(k, m)' = Going(k, m)
              /\ Holds(k, m)' = Holds(k, m) /\ Verdict(k, m)' = Verdict(k, m)
              /\ PairAt(k, m)' = PairAt(k, m) /\ Unsettled(k, m)' = Unsettled(k, m)
<1>1. Run(k)' = Run(k) /\ Resolves(k)' = Resolves(k) /\ Applies(k)' = Applies(k)
  BY DEF Steps, Run, Resolves, Applies
<1>2. ASSUME NEW m \in Tries, <<k, m>> # <<j, n>>
      PROVE  /\ Try(k, m)' = Try(k, m) /\ Going(k, m)' = Going(k, m)
             /\ Holds(k, m)' = Holds(k, m) /\ Verdict(k, m)' = Verdict(k, m)
             /\ PairAt(k, m)' = PairAt(k, m) /\ Unsettled(k, m)' = Unsettled(k, m)
  <2>1. Try(k, m)' = Try(k, m)
    BY <1>2 DEF Steps, Try
  <2>2. Verdict(k, m)' = Verdict(k, m) /\ PairAt(k, m)' = PairAt(k, m)
    BY <1>1, <2>1 DEF Verdict, PairAt
  <2>3. Going(k, m)' = Going(k, m) /\ Holds(k, m)' = Holds(k, m)
    BY <2>1 DEF Going, Holds
  <2> QED
    BY <2>1, <2>2, <2>3 DEF Unsettled
<1> QED
  BY <1>1, <1>2

\* The try that moved is where it may be: so are all.
LEMMA PlacedStep ==
  ASSUME Placed, NEW j \in IdnJobs, NEW n \in Tries, Steps(j, n), UNCHANGED idnDecisions,
         PlacedAt(j, n)'
  PROVE  Placed'
<1>1. ASSUME NEW k \in IdnJobs
      PROVE  (Resolves(k) => ~Applies(k))'
  BY StepsFrame DEF Placed
<1>2. ASSUME NEW k \in IdnJobs, NEW m \in Tries PROVE PlacedAt(k, m)'
  <2>1. CASE <<k, m>> = <<j, n>>
    BY <2>1
  <2>2. CASE <<k, m>> # <<j, n>>
    <3>1. /\ Resolves(k)' = Resolves(k) /\ Applies(k)' = Applies(k)
          /\ Try(k, m)' = Try(k, m) /\ Verdict(k, m)' = Verdict(k, m)
      BY <2>2, StepsFrame
    <3>2. PlacedAt(k, m)
      BY DEF Placed
    <3> QED
      BY <3>1, <3>2 DEF PlacedAt
  <2> QED
    BY <2>1, <2>2
<1> QED
  BY <1>1, <1>2 DEF Placed

\* Nothing but the places of tries changes the groups a try has in hand.
LEMMA GroupedStep ==
  ASSUME Grouped, NEW j \in IdnJobs, NEW n \in Tries, Steps(j, n),
         UNCHANGED <<idnDecisions, idnGroups, idnMembers>>,
         Holds(j, n)' \subseteq Holds(j, n), Try(j, n)'.at # "insertMembers"
  PROVE  Grouped'
<1>1. \A k \in IdnJobs, m \in Tries : Holds(k, m)' \subseteq Holds(k, m)
  BY StepsFrame
<1>2. ASSUME NEW k \in IdnJobs, NEW m \in Tries, Try(k, m)'.at = "insertMembers"
      PROVE  Owned(k, m)'
  <2>1. Try(k, m)' = Try(k, m)
    BY <1>2, StepsFrame
  <2>2. Owned(k, m)
    BY <1>2, <2>1 DEF Grouped
  <2> QED
    BY <1>1, <2>1, <2>2 DEF Owned, Fresh
<1> QED
  BY <1>1, <1>2 DEF Grouped

LEMMA AloneStep ==
  ASSUME Alone, NEW j \in IdnJobs, NEW n \in Tries, Steps(j, n), UNCHANGED idnDecisions,
         idnOverlap => idnOverlap', Applies(j) /\ Going(j, n)' => Going(j, n)
  PROVE  Alone'
<1>1. \A k \in IdnJobs, m \in Tries : Applies(k)' /\ Going(k, m)' => Applies(k) /\ Going(k, m)
  BY StepsFrame
<1> QED
  BY <1>1 DEF Alone

LEMMA RegroupedStep ==
  ASSUME Typed, Typed', Regrouped, NEW j \in IdnJobs, NEW n \in Tries, Steps(j, n),
         UNCHANGED <<idnDecisions, idnGroups, idnMembers>>,
         idnFaults <= idnFaults', idnOverlap => idnOverlap',
         Try(j, n)'.at \in Regrouping /\ ~idnOverlap' => RegroupedAt(j, n)'
  PROVE  Regrouped'
<1> SUFFICES ASSUME ~idnOverlap', NEW k \in IdnJobs, NEW m \in Tries,
                    Try(k, m)'.at \in Regrouping
             PROVE  RegroupedAt(k, m)'
  BY DEF Regrouped
<1>1. CASE <<k, m>> = <<j, n>>
  BY <1>1
<1>2. CASE <<k, m>> # <<j, n>>
  <2>1. /\ Try(k, m)' = Try(k, m) /\ Verdict(k, m)' = Verdict(k, m)
        /\ PairAt(k, m)' = PairAt(k, m)
    BY <1>2, StepsFrame
  <2>2. RegroupedAt(k, m)
    BY <2>1 DEF Regrouped
  <2>3. \A g : RowsIn(g)' = RowsIn(g) /\ Size(g)' = Size(g)
    BY DEF RowsIn, Size
  <2>4. idnFaults' = 0 => idnFaults = 0
    BY IdentityAssumption DEF Typed
  <2> HIDE DEF Regrouping
  <2> QED
    BY <2>1, <2>2, <2>3, <2>4 DEF RegroupedAt
<1> QED
  BY <1>1, <1>2

LEMMA CountedStep ==
  ASSUME Typed, Typed', Counted, NEW j \in IdnJobs, NEW n \in Tries, Steps(j, n),
         UNCHANGED <<idnDecisions, idnGroups, idnMembers>>,
         idnFaults <= idnFaults', idnOverlap => idnOverlap',
         idnFaults' = 0 => Unsettled(j, n) \subseteq Unsettled(j, n)'
  PROVE  Counted'
<1> SUFFICES ASSUME idnFaults' = 0, ~idnOverlap', NEW g \in Groups,
                    idnGroups[g] \notin {None, Gone}, ~Exact(g)'
             PROVE  \E k \in IdnJobs, m \in Tries : g \in Unsettled(k, m)'
  BY DEF Counted
<1>1. idnFaults = 0
  BY IdentityAssumption DEF Typed
<1>2. ~Exact(g)
  BY DEF Exact, Size, RowsIn
<1>3. PICK k \in IdnJobs, m \in Tries : g \in Unsettled(k, m)
  BY <1>1, <1>2 DEF Counted
<1>4. g \in Unsettled(k, m)'
  BY <1>3, StepsFrame
<1> QED
  BY <1>4

LEMMA AskedStays ==
  ASSUME \A d \in DecisionIds : idnDecisions[d] # None => idnDecisions'[d] = idnDecisions[d],
         NEW p, NEW verdicts, AskedFor(p, verdicts)
  PROVE  AskedFor(p, verdicts)'
BY DEF AskedFor

LEMMA KeptStays ==
  ASSUME \A d \in DecisionIds : idnDecisions[d] # None => idnDecisions'[d] = idnDecisions[d],
         idnOverlap => idnOverlap', NEW p \in Pairs, Kept(p),
         Together(p) => Together(p)' \/ SplitAsked(p) \/ idnOverlap'
  PROVE  Kept(p)'
<1>1. SplitAsked(p) => SplitAsked(p)'
  BY AskedStays DEF SplitAsked
<1> QED
  BY <1>1 DEF Kept

LEMMA DecisionAt ==
  ASSUME Typed, Placed, NEW j \in IdnJobs, NEW n \in Tries, Applies(j), Try(j, n).at \in Deciding
  PROVE  /\ ~Resolves(j) /\ Try(j, n).decision \in DecisionIds
         /\ idnDecisions[Try(j, n).decision] \in Decision /\ PairAt(j, n) \in Pairs
         /\ PairAt(j, n) = idnDecisions[Try(j, n).decision].pair
         /\ Verdict(j, n) = idnDecisions[Try(j, n).decision].verdict
         /\ AskedFor(PairAt(j, n), {Verdict(j, n)}) /\ Verdict(j, n) \in VerdictsAt(Try(j, n).at)
<1>1. /\ ~Resolves(j) /\ Try(j, n).decision \in DecisionIds
      /\ idnDecisions[Try(j, n).decision] # None /\ Verdict(j, n) \in VerdictsAt(Try(j, n).at)
  BY DEF Placed, PlacedAt
<1>2. idnDecisions[Try(j, n).decision] \in Decision
  BY <1>1 DEF Typed
<1>3. /\ PairAt(j, n) = idnDecisions[Try(j, n).decision].pair
      /\ Verdict(j, n) = idnDecisions[Try(j, n).decision].verdict
  BY <1>1 DEF PairAt, Verdict
<1> QED
  BY <1>1, <1>2, <1>3 DEF AskedFor, Decision

LEMMA MatchedStep ==
  ASSUME Typed, Matched, NEW j \in IdnJobs, NEW n \in Tries, Steps(j, n), UNCHANGED idnDecisions,
         \A p \in Pairs : idnTasks[p] # None => idnTasks'[p] # None,
         \A p \in Pairs : Kept(p) => Kept(p)',
         Resolves(j) /\ Try(j, n)'.at \in {"next", "insertTask", "insertGroup", "insertMembers",
                                           "done"} => MatchedAt(j, n)'
  PROVE  Matched'
<1> SUFFICES ASSUME NEW k \in IdnJobs, NEW m \in Tries, Resolves(k)',
                    Try(k, m)'.at \in {"next", "insertTask", "insertGroup", "insertMembers",
                                       "done"}
             PROVE  MatchedAt(k, m)'
  BY DEF Matched
<1>1. CASE <<k, m>> = <<j, n>>
  BY <1>1, StepsFrame
<1>2. CASE <<k, m>> # <<j, n>>
  <2>1. Try(k, m)' = Try(k, m) /\ Resolves(k)
    BY <1>2, StepsFrame
  <2>2. MatchedAt(k, m)
    BY <2>1 DEF Matched
  <2>3. ASSUME NEW x \in Try(k, m).read PROVE Satisfied(x) => Satisfied(x)'
    <3>1. x.pair \in Pairs
      BY TryTyped DEF IdnTry, Mark
    <3> QED
      BY <3>1 DEF Satisfied
  <2> QED
    BY <2>1, <2>2, <2>3 DEF MatchedAt, InHand
<1> QED
  BY <1>1, <1>2

LEMMA ToldTries ==
  ASSUME Typed, Placed, Told, NEW j \in IdnJobs, NEW n \in Tries, Steps(j, n),
         UNCHANGED idnDecisions,
         \A p \in Pairs : Kept(p) => Kept(p)',
         \A p \in Pairs : idnCandidates[p] \in {"confirmed", "rejected"} =>
           idnCandidates'[p] \in {"confirmed", "rejected"},
         idnSuppressed \subseteq idnSuppressed',
         Applies(j) => ToldAt(j, n)'
  PROVE  \A k \in IdnJobs, m \in Tries : Applies(k)' => ToldAt(k, m)'
<1> SUFFICES ASSUME NEW k \in IdnJobs, NEW m \in Tries, Applies(k)'
             PROVE  ToldAt(k, m)'
  OBVIOUS
<1>1. CASE <<k, m>> = <<j, n>>
  BY <1>1, StepsFrame
<1>2. CASE <<k, m>> # <<j, n>>
  <2>1. /\ Try(k, m)' = Try(k, m) /\ Applies(k) /\ Verdict(k, m)' = Verdict(k, m)
        /\ PairAt(k, m)' = PairAt(k, m)
    BY <1>2, StepsFrame
  <2>2. ToldAt(k, m)
    BY <2>1 DEF Told
  <2>3. Try(k, m).at \in {"setCandidate", "suppress", "resolve"} => PairAt(k, m) \in Pairs
    BY <2>1, DecisionAt DEF Deciding
  <2> QED
    BY <2>1, <2>2, <2>3 DEF ToldAt
<1> QED
  BY <1>1, <1>2

LEMMA SuppressingStep ==
  ASSUME NEW j \in IdnJobs, NEW n \in Tries, Steps(j, n), UNCHANGED idnDecisions,
         NEW p, ~Applies(j) \/ Try(j, n).at # "suppress" \/ PairAt(j, n) # p, Suppressing(p)
  PROVE  Suppressing(p)'
<1>1. PICK k \in IdnJobs, m \in Tries :
        Applies(k) /\ Try(k, m).at = "suppress" /\ PairAt(k, m) = p
  BY DEF Suppressing
<1>2. Applies(k)' /\ Try(k, m)'.at = "suppress" /\ PairAt(k, m)' = p
  BY <1>1, StepsFrame
<1> QED
  BY <1>2 DEF Suppressing

\* A pair whose candidate, task and suppression stay.
LEMMA ToldOfStep ==
  ASSUME Typed, Typed', NEW p \in Pairs, ToldOf(p),
         \A d \in DecisionIds : idnDecisions[d] # None => idnDecisions'[d] = idnDecisions[d],
         idnCandidates'[p] = idnCandidates[p], idnTasks'[p] = "resolved"
           => idnTasks[p] = "resolved",
         p \in idnSuppressed' <=> p \in idnSuppressed, Kept(p) => Kept(p)',
         idnFaults <= idnFaults', Suppressing(p) => Suppressing(p)' \/ idnFaults' > 0
  PROVE  ToldOf(p)'
<1>1. \A verdicts : AskedFor(p, verdicts) => AskedFor(p, verdicts)'
  BY AskedStays
<1>2. AskedFor(p, {"confirm"}) => AskedFor(p, {"confirm"})'
  BY <1>1
<1>3. AskedFor(p, {"merge"}) => AskedFor(p, {"merge"})'
  BY <1>1
<1>4. AskedFor(p, {"split"}) => AskedFor(p, {"split"})'
  BY <1>1
<1>5. AskedFor(p, {"reject"}) => AskedFor(p, {"reject"})'
  BY <1>1
<1>6. \A d \in DecisionIds : On(d, p) => On(d, p)' /\ idnDecisions'[d] = idnDecisions[d]
  BY DEF On
<1>7. idnFaults > 0 => idnFaults' > 0
  BY IdentityAssumption DEF Typed
<1> QED
  BY <1>2, <1>3, <1>4, <1>5, <1>6, <1>7 DEF ToldOf

LEMMA CausesStep ==
  ASSUME Typed, Typed', RunningHasACause, NEW j \in IdnJobs, NEW n \in Tries, Steps(j, n),
         UNCHANGED idnDecisions, idnFaults <= idnFaults',
         \A r \in IdnRuns : idnRuns'[r] = "running" =>
           \/ idnFaults' > 0 \/ (Run(j) = r /\ Resolves(j) /\ Going(j, n)')
           \/ idnRuns[r] = "running" /\ (Run(j) = r /\ Resolves(j) /\ Going(j, n) => Going(j, n)')
  PROVE  RunningHasACause'
<1> SUFFICES ASSUME NEW r \in IdnRuns, idnRuns'[r] = "running", ~(idnFaults' > 0)
             PROVE  \E k \in IdnJobs, m \in Tries : Resolves(k)' /\ Run(k)' = r /\ Going(k, m)'
  BY DEF RunningHasACause
<1>1. ~(idnFaults > 0)
  BY IdentityAssumption DEF Typed
<1>2. CASE Run(j) = r /\ Resolves(j) /\ Going(j, n)'
  <2>1. Resolves(j)' /\ Run(j)' = r /\ Going(j, n)'
    BY <1>2, StepsFrame
  <2> QED
    BY <2>1
<1>3. CASE idnRuns[r] = "running" /\ (Run(j) = r /\ Resolves(j) /\ Going(j, n) => Going(j, n)')
  <2>1. PICK k \in IdnJobs, m \in Tries : Resolves(k) /\ Run(k) = r /\ Going(k, m)
    BY <1>1, <1>3 DEF RunningHasACause
  <2>2. Resolves(k)' /\ Run(k)' = r /\ Going(k, m)'
    BY <1>3, <2>1, StepsFrame
  <2> QED
    BY <2>2
<1> QED
  BY <1>2, <1>3

\* A step of a try that is on no group, and goes to none.
Calm(j, n) ==
  /\ Steps(j, n) /\ UNCHANGED <<idnDecisions, idnGroups, idnMembers>>
  /\ idnFaults <= idnFaults' /\ (idnOverlap => idnOverlap')
  /\ Try(j, n)'.at \notin Regrouping \cup {"insertMembers"}
  /\ Unsettled(j, n) = {} \/ idnFaults' > 0

LEMMA CalmStep ==
  ASSUME IdnInv, Typed', NEW j \in IdnJobs, NEW n \in Tries, Calm(j, n), PlacedAt(j, n)'
  PROVE  /\ Placed' /\ Grouped' /\ Regrouped' /\ Counted'
         /\ \A p \in Pairs : Kept(p) => Kept(p)'
<1>1. /\ Typed /\ Placed /\ Grouped /\ Regrouped /\ Counted
      /\ Steps(j, n) /\ UNCHANGED <<idnDecisions, idnGroups, idnMembers>>
      /\ idnFaults <= idnFaults' /\ (idnOverlap => idnOverlap')
      /\ Try(j, n)'.at \notin Regrouping /\ Try(j, n)'.at # "insertMembers"
      /\ Unsettled(j, n) = {} \/ idnFaults' > 0
  BY DEF IdnInv, Calm
<1>2. Placed'
  BY <1>1, PlacedStep
<1>3. Grouped'
  <2>1. Holds(j, n)' = {}
    BY <1>1 DEF Holds
  <2> QED
    BY <1>1, <2>1, GroupedStep
<1>4. Regrouped'
  BY <1>1, RegroupedStep
<1>5. Counted'
  <2>1. idnFaults' = 0 => Unsettled(j, n) \subseteq Unsettled(j, n)'
    BY <1>1
  <2> QED
    BY <1>1, <2>1, CountedStep
<1>6. ASSUME NEW p \in Pairs, Kept(p) PROVE Kept(p)'
  <2>1. Together(p) => Together(p)'
    BY <1>1 DEF Together, GroupsOf, RowsOf
  <2> QED
    BY <1>1, <1>6, <2>1, KeptStays
<1> QED
  BY <1>2, <1>3, <1>4, <1>5, <1>6

(***************************************************************************)
(* Requests and the queue                                                  *)
(***************************************************************************)
\* A step that moves no try and changes no table that a try writes.
Still ==
  /\ \A d \in DecisionIds : idnDecisions[d] # None => idnDecisions'[d] = idnDecisions[d]
  /\ UNCHANGED <<tables, idnFaults, idnOverlap>>
  /\ \A k \in IdnJobs, m \in Tries :
       /\ idnJobs'[k].tries[m] = idnJobs[k].tries[m]
       /\ idnJobs[k].tries[m].at # "none" =>
            idnJobs'[k].run = idnJobs[k].run /\ idnJobs'[k].decisions = idnJobs[k].decisions
  /\ \A k \in IdnJobs : idnJobs'[k].run # None => idnJobs'[k].decisions = {}
  /\ \A r \in IdnRuns : idnRuns'[r] = "running" => idnRuns[r] = "running"

LEMMA StillStep ==
  ASSUME IdnInv, Typed', Still
  PROVE  IdnInv'
<1>0. /\ Typed /\ Placed /\ Grouped /\ Alone /\ Regrouped /\ Counted /\ Matched /\ Told
      /\ RunningHasACause
  BY DEF IdnInv
<1>1. /\ UNCHANGED <<idnCandidates, idnTasks, idnGroups, idnMembers, idnSuppressed, idnFaults,
                     idnOverlap>>
      /\ \A d \in DecisionIds : idnDecisions[d] # None => idnDecisions'[d] = idnDecisions[d]
      /\ \A r \in IdnRuns : idnRuns'[r] = "running" => idnRuns[r] = "running"
  BY DEF Still, tables
<1>2. ASSUME NEW k \in IdnJobs, NEW m \in Tries
      PROVE  /\ Try(k, m)' = Try(k, m) /\ Going(k, m)' = Going(k, m)
             /\ Holds(k, m)' = Holds(k, m)
             /\ Try(k, m).at # "none" =>
                  /\ Run(k)' = Run(k) /\ Resolves(k)' = Resolves(k) /\ Applies(k)' = Applies(k)
  BY <1>2 DEF Still, Try, Going, Holds, Run, Resolves, Applies
<1>3. ASSUME NEW k \in IdnJobs, NEW m \in Tries, Applies(k), Try(k, m).at \in Deciding
      PROVE  /\ Verdict(k, m)' = Verdict(k, m) /\ PairAt(k, m)' = PairAt(k, m)
             /\ ~Resolves(k)' /\ Applies(k)' /\ PairAt(k, m) \in Pairs
  <2>1. Try(k, m).at # "none"
    BY <1>3 DEF Deciding, Regrouping
  <2>2. /\ Try(k, m)' = Try(k, m) /\ Resolves(k)' = Resolves(k) /\ Applies(k)' = Applies(k)
    BY <1>2, <2>1
  <2>3. /\ ~Resolves(k) /\ Try(k, m).decision \in DecisionIds
        /\ idnDecisions[Try(k, m).decision] # None /\ PairAt(k, m) \in Pairs
    BY <1>0, <1>3, DecisionAt, IdnNone
  <2>4. idnDecisions'[Try(k, m).decision] = idnDecisions[Try(k, m).decision]
    BY <1>1, <2>3
  <2> QED
    BY <1>3, <2>2, <2>3, <2>4 DEF Verdict, PairAt
<1>4. ASSUME NEW k \in IdnJobs, NEW m \in Tries, Try(k, m).at \in Regrouping
      PROVE  Applies(k) /\ Try(k, m).at \in Deciding
  BY <1>0, <1>4 DEF Placed, PlacedAt, Regrouping, Deciding, ResolvePlaces
<1>5. ASSUME NEW k \in IdnJobs, NEW m \in Tries PROVE Unsettled(k, m)' = Unsettled(k, m)
  <2>1. CASE Try(k, m).at \in Regrouping
    BY <1>2, <1>3, <1>4, <2>1 DEF Unsettled
  <2>2. CASE Try(k, m).at \notin Regrouping
    BY <1>2, <2>2 DEF Unsettled, Regrouping
  <2> QED
    BY <2>1, <2>2
<1>6. Placed'
  <2>1. ASSUME NEW k \in IdnJobs PROVE (Resolves(k) => ~Applies(k))'
    BY DEF Still, Resolves, Applies, Run
  <2>2. ASSUME NEW k \in IdnJobs, NEW m \in Tries PROVE PlacedAt(k, m)'
    <3>0. PlacedAt(k, m) /\ Try(k, m)' = Try(k, m) /\ Try(k, m) \in IdnTry
      BY <1>0, <1>2, TryTyped DEF Placed
    <3>1. \A d \in Try(k, m).decisions : idnDecisions'[d] # None
      BY <1>1, <3>0 DEF PlacedAt, IdnTry
    <3>2. CASE Try(k, m).at = "none"
      BY <3>0, <3>1, <3>2 DEF PlacedAt, Deciding, Regrouping
    <3>3. CASE Try(k, m).at # "none"
      <4>1. Resolves(k)' = Resolves(k) /\ Applies(k)' = Applies(k)
        BY <1>2, <3>3
      <4>2. /\ \/ Resolves(k) /\ Try(k, m).at \in ResolvePlaces
               \/ Applies(k) /\ Try(k, m).at \in ApplyPlaces
            /\ Resolves(k) /\ Try(k, m).at \in {"insertTask", "insertGroup", "insertMembers"} =>
                 Try(k, m).pair \in Pairs
            /\ Try(k, m).at = "insertMembers" => Try(k, m).groups[1] \in Groups
        BY <3>0, <3>3 DEF PlacedAt
      <4>3. Applies(k) /\ Try(k, m).at \in Deciding =>
              /\ Try(k, m).decision \in DecisionIds /\ idnDecisions'[Try(k, m).decision] # None
              /\ Verdict(k, m)' \in VerdictsAt(Try(k, m).at)
        BY <1>1, <1>3, <3>0 DEF PlacedAt
      <4>4. Try(k, m).at \in Regrouping =>
              /\ Try(k, m).groups[1] \in Groups /\ Try(k, m).groups[2] \in Groups
              /\ Verdict(k, m)' = "merge" => Try(k, m).groups[1] # Try(k, m).groups[2]
        BY <1>3, <1>4, <3>0 DEF PlacedAt
      <4> QED
        BY <3>0, <3>1, <4>1, <4>2, <4>3, <4>4 DEF PlacedAt
    <3> QED
      BY <3>2, <3>3
  <2> QED
    BY <2>1, <2>2 DEF Placed
<1>7. Grouped'
  <2>1. \A k \in IdnJobs, m \in Tries : Owned(k, m) => Owned(k, m)'
    BY <1>1, <1>2 DEF Owned, Fresh
  <2> QED
    BY <1>0, <1>1, <1>2, <2>1 DEF Grouped
<1>8. Alone'
  BY <1>0, <1>1, <1>2 DEF Alone, Going
<1>9. Regrouped'
  <2>1. \A g : RowsIn(g)' = RowsIn(g) /\ Size(g)' = Size(g)
    BY <1>1 DEF RowsIn, Size
  <2>2. ASSUME NEW k \in IdnJobs, NEW m \in Tries, Try(k, m)'.at \in Regrouping, RegroupedAt(k, m)
        PROVE  RegroupedAt(k, m)'
    <3>1. /\ Try(k, m)' = Try(k, m) /\ Verdict(k, m)' = Verdict(k, m)
          /\ PairAt(k, m)' = PairAt(k, m)
      BY <1>2, <1>3, <1>4, <2>2
    <3> QED
      BY <1>1, <2>1, <2>2, <3>1 DEF RegroupedAt
  <2> QED
    BY <1>0, <1>1, <1>2, <2>2 DEF Regrouped
<1>10. Counted'
  <2>1. \A g : Exact(g)' <=> Exact(g)
    BY <1>1 DEF Exact, Size, RowsIn
  <2> QED
    BY <1>0, <1>1, <1>5, <2>1 DEF Counted
<1>11. ASSUME NEW p \in Pairs, Kept(p) PROVE Kept(p)'
  <2>1. Together(p) => Together(p)'
    <3>1. UNCHANGED idnMembers
      BY <1>1
    <3> QED
      BY <3>1 DEF Together, GroupsOf, RowsOf
  <2> QED
    BY <1>1, <1>11, <2>1, KeptStays
<1>12. Matched'
  <2> SUFFICES ASSUME NEW k \in IdnJobs, NEW m \in Tries, Resolves(k)',
                      Try(k, m)'.at \in {"next", "insertTask", "insertGroup", "insertMembers",
                                         "done"}
               PROVE  MatchedAt(k, m)'
    BY DEF Matched
  <2>1. Try(k, m)' = Try(k, m) /\ Resolves(k)
    BY <1>2
  <2>2. MatchedAt(k, m)
    BY <1>0, <2>1 DEF Matched
  <2>3. ASSUME NEW x \in Try(k, m).read PROVE Satisfied(x) => Satisfied(x)'
    <3>1. x.pair \in Pairs
      BY <1>0, TryTyped DEF IdnTry, Mark
    <3> QED
      BY <1>1, <1>11, <3>1 DEF Satisfied
  <2> QED
    BY <2>1, <2>2, <2>3 DEF MatchedAt, InHand
<1>13. Told'
  <2>1. ASSUME NEW k \in IdnJobs, NEW m \in Tries, Applies(k)' PROVE ToldAt(k, m)'
    <3>1. CASE Try(k, m).at \notin {"setCandidate", "suppress", "resolve"}
      BY <1>2, <3>1 DEF ToldAt
    <3>2. CASE Try(k, m).at \in {"setCandidate", "suppress", "resolve"}
      <4>1. Try(k, m)' = Try(k, m) /\ Applies(k)
        BY <1>2, <2>1, <3>2
      <4>2. /\ Verdict(k, m)' = Verdict(k, m) /\ PairAt(k, m)' = PairAt(k, m)
            /\ PairAt(k, m) \in Pairs
        BY <1>3, <3>2, <4>1 DEF Deciding
      <4>3. ToldAt(k, m)
        BY <1>0, <4>1 DEF Told
      <4> QED
        BY <1>1, <1>11, <4>1, <4>2, <4>3 DEF ToldAt
    <3> QED
      BY <3>1, <3>2
  <2>2. ASSUME NEW p \in Pairs PROVE ToldOf(p)'
    <3>1. Suppressing(p) => Suppressing(p)'
      <4> SUFFICES ASSUME Suppressing(p) PROVE Suppressing(p)'
        OBVIOUS
      <4>1. PICK k \in IdnJobs, m \in Tries :
              Applies(k) /\ Try(k, m).at = "suppress" /\ PairAt(k, m) = p
        BY DEF Suppressing
      <4>2. Applies(k)' /\ Try(k, m)'.at = "suppress" /\ PairAt(k, m)' = p
        BY <1>2, <1>3, <4>1 DEF Deciding
      <4> QED
        BY <4>2 DEF Suppressing
    <3>2. ToldOf(p)
      BY <1>0 DEF Told
    <3>3. idnFaults <= idnFaults'
      BY <1>0, <1>1 DEF Typed
    <3> QED
      BY <1>0, <1>1, <1>11, <3>1, <3>2, <3>3, ToldOfStep
  <2> QED
    BY <2>1, <2>2 DEF Told
<1>14. RunningHasACause'
  <2> SUFFICES ASSUME NEW r \in IdnRuns, idnRuns'[r] = "running", ~(idnFaults' > 0)
               PROVE  \E k \in IdnJobs, m \in Tries :
                        Resolves(k)' /\ Run(k)' = r /\ Going(k, m)'
    BY DEF RunningHasACause
  <2>1. PICK k \in IdnJobs, m \in Tries : Resolves(k) /\ Run(k) = r /\ Going(k, m)
    BY <1>0, <1>1 DEF RunningHasACause
  <2>2. Try(k, m).at # "none"
    BY <2>1 DEF Going
  <2> QED
    BY <1>2, <2>1, <2>2
<1> QED
  BY <1>6, <1>7, <1>8, <1>9, <1>10, <1>12, <1>13, <1>14 DEF IdnInv

LEMMA RequestSteps ==
  ASSUME IdnInv, NEW a \in IdnActors,
         AskTrigger(a) \/ InsertRun(a) \/ AskDecision(a) \/ InsertDecision(a)
  PROVE  IdnInv'
<1>0. Typed /\ Placed
  BY DEF IdnInv
<1>1. ASSUME NEW at \in {"idle", "trigger", "decide"}, NEW what \in Decision \cup {None},
             at = "decide" => what # None,
             idnActors' = [idnActors EXCEPT ![a] = [at |-> at, what |-> what]]
      PROVE  /\ idnActors' \in [IdnActors -> IdnActor]
             /\ \A b \in IdnActors : idnActors'[b].at = "decide" => idnActors'[b].what # None
  <2> DEFINE new == [at |-> at, what |-> what]
  <2>1. new \in IdnActor /\ (new.at = "decide" => new.what # None)
    BY <1>1 DEF IdnActor
  <2> HIDE DEF new
  <2>2. idnActors' = [idnActors EXCEPT ![a] = new]
    BY <1>1 DEF new
  <2> QED
    BY <1>0, <2>1, <2>2 DEF Typed
<1>2. /\ Answered(a) => /\ idnActors' \in [IdnActors -> IdnActor]
                        /\ \A b \in IdnActors : idnActors'[b].at = "decide"
                             => idnActors'[b].what # None
  BY <1>1 DEF Answered, Idle
<1>3. \A k \in IdnJobs : idnJobs[k].run # None => idnJobs[k].decisions = {}
  BY <1>0 DEF Placed, Resolves, Applies, Run
<1>4. CASE AskTrigger(a)
  <2>1. /\ idnActors' \in [IdnActors -> IdnActor]
        /\ \A b \in IdnActors : idnActors'[b].at = "decide" => idnActors'[b].what # None
    BY <1>1, <1>4 DEF AskTrigger, Ask
  <2>2. UNCHANGED <<idnBook, idnRuns, idnDecisions, idnJobs, idnFaults, idnOverlap, tables>>
    BY <1>4 DEF AskTrigger
  <2>3. Typed' /\ Still
    BY <1>0, <1>3, <2>1, <2>2 DEF Typed, Still, tables
  <2> QED
    BY <2>3, StillStep
<1>5. CASE InsertRun(a)
  <2>1. /\ idnActors' \in [IdnActors -> IdnActor]
        /\ \A b \in IdnActors : idnActors'[b].at = "decide" => idnActors'[b].what # None
    BY <1>2, <1>5 DEF InsertRun
  <2>2. UNCHANGED <<idnBook, idnDecisions, idnJobs, idnFaults, idnOverlap, tables>>
    BY <1>5 DEF InsertRun
  <2>3. PICK r \in IdnRuns : idnRuns' = [idnRuns EXCEPT ![r] = "pending"]
    BY <1>5 DEF InsertRun
  <2>4. idnRuns' \in [IdnRuns -> RunStatuses \cup {None}]
    BY <1>0, <2>3 DEF Typed, RunStatuses
  <2>5. \A s \in IdnRuns : idnRuns'[s] = "running" => idnRuns[s] = "running"
    BY <1>0, <2>3 DEF Typed
  <2>6. Typed' /\ Still
    BY <1>0, <1>3, <2>1, <2>2, <2>4, <2>5 DEF Typed, Still, tables
  <2> QED
    BY <2>6, StillStep
<1>6. CASE AskDecision(a)
  <2>0. PICK p \in Pairs, verdict \in Verdicts :
          Ask(a, "decide", [pair |-> p, verdict |-> verdict])
    BY <1>6 DEF AskDecision
  <2>1. /\ idnActors' \in [IdnActors -> IdnActor]
        /\ \A b \in IdnActors : idnActors'[b].at = "decide" => idnActors'[b].what # None
    <3>1. [pair |-> p, verdict |-> verdict] \in Decision
      BY DEF Decision
    <3> QED
      BY <1>1, <2>0, <3>1, IdnNone DEF Ask
  <2>2. UNCHANGED <<idnBook, idnRuns, idnDecisions, idnJobs, idnFaults, idnOverlap, tables>>
    BY <1>6 DEF AskDecision
  <2>3. Typed' /\ Still
    BY <1>0, <1>3, <2>1, <2>2 DEF Typed, Still, tables
  <2> QED
    BY <2>3, StillStep
<1>7. CASE InsertDecision(a)
  <2>1. /\ idnActors' \in [IdnActors -> IdnActor]
        /\ \A b \in IdnActors : idnActors'[b].at = "decide" => idnActors'[b].what # None
    BY <1>2, <1>7 DEF InsertDecision
  <2>2. UNCHANGED <<idnBook, idnRuns, idnJobs, idnFaults, idnOverlap, tables>>
    BY <1>7 DEF InsertDecision
  <2>3. PICK d \in DecisionIds : /\ idnDecisions[d] = None
                                 /\ idnDecisions' = [idnDecisions EXCEPT ![d] = idnActors[a].what]
    BY <1>7 DEF InsertDecision
  <2>4. idnActors[a].what \in Decision \cup {None}
    BY <1>0 DEF Typed, IdnActor
  <2>5. /\ idnDecisions' \in [DecisionIds -> Decision \cup {None}]
        /\ \A e \in DecisionIds : idnDecisions[e] # None => idnDecisions'[e] = idnDecisions[e]
    BY <1>0, <2>3, <2>4 DEF Typed
  <2>6. Typed' /\ Still
    BY <1>0, <1>3, <2>1, <2>2, <2>5 DEF Typed, Still, tables
  <2> QED
    BY <2>6, StillStep
<1> QED
  BY <1>4, <1>5, <1>6, <1>7

LEMMA EnqueueStep ==
  ASSUME IdnInv, NEW j \in IdnJobs, Enqueue(j)
  PROVE  IdnInv'
<1>0. Typed /\ Placed
  BY DEF IdnInv
<1>1. /\ ~Resolves(j) /\ ~Applies(j)
      /\ UNCHANGED <<idnBook, idnRuns, idnDecisions, idnActors, idnFaults, idnOverlap, tables>>
  BY DEF Enqueue
<1>2. PICK config \in IdnConfigs :
        \/ \E r \in IdnRuns : idnJobs' = [idnJobs EXCEPT ![j].run = r, ![j].config = config]
        \/ \E ds \in {DecisionIds} \cup {{d} : d \in DecisionIds} :
             idnJobs' = [idnJobs EXCEPT ![j].decisions = ds, ![j].config = config]
  BY DEF Enqueue
<1>3. idnJobs[j] \in IdnJob /\ idnJobs[j].run = None /\ idnJobs[j].decisions = {}
  BY <1>0, <1>1 DEF Typed, Resolves, Applies, Run
<1>4. \E new \in IdnJob : /\ idnJobs' = [idnJobs EXCEPT ![j] = new]
                          /\ new.tries = idnJobs[j].tries
                          /\ new.run = None \/ new.decisions = {}
  <2>1. ASSUME NEW r \in IdnRuns, idnJobs' = [idnJobs EXCEPT ![j].run = r, ![j].config = config]
        PROVE  \E new \in IdnJob : /\ idnJobs' = [idnJobs EXCEPT ![j] = new]
                                   /\ new.tries = idnJobs[j].tries
                                   /\ new.run = None \/ new.decisions = {}
    <3> DEFINE new == [idnJobs[j] EXCEPT !.run = r, !.config = config]
    <3>1. /\ new \in IdnJob /\ new.tries = idnJobs[j].tries /\ new.decisions = {}
      BY <1>3 DEF IdnJob
    <3>2. idnJobs' = [idnJobs EXCEPT ![j] = new]
      BY <1>0, <2>1 DEF Typed
    <3> QED
      BY <3>1, <3>2
  <2>2. ASSUME NEW ds \in {DecisionIds} \cup {{d} : d \in DecisionIds},
               idnJobs' = [idnJobs EXCEPT ![j].decisions = ds, ![j].config = config]
        PROVE  \E new \in IdnJob : /\ idnJobs' = [idnJobs EXCEPT ![j] = new]
                                   /\ new.tries = idnJobs[j].tries
                                   /\ new.run = None \/ new.decisions = {}
    <3> DEFINE new == [idnJobs[j] EXCEPT !.decisions = ds, !.config = config]
    <3>0. ds \in SUBSET DecisionIds
      OBVIOUS
    <3>1. /\ new \in IdnJob /\ new.tries = idnJobs[j].tries /\ new.run = None
      BY <1>3, <3>0 DEF IdnJob
    <3>2. idnJobs' = [idnJobs EXCEPT ![j] = new]
      BY <1>0, <2>2 DEF Typed
    <3> QED
      BY <3>1, <3>2
  <2> QED
    BY <1>2, <2>1, <2>2
<1>5. PICK new \in IdnJob : /\ idnJobs' = [idnJobs EXCEPT ![j] = new]
                            /\ new.tries = idnJobs[j].tries
                            /\ new.run = None \/ new.decisions = {}
  BY <1>4
<1>6. /\ idnJobs' \in [IdnJobs -> IdnJob] /\ idnJobs'[j] = new
      /\ \A k \in IdnJobs : k # j => idnJobs'[k] = idnJobs[k]
  BY <1>0, <1>5 DEF Typed
<1>7. \A m \in Tries : idnJobs[j].tries[m].at = "none"
  BY <1>0, <1>1 DEF Placed, PlacedAt, Try
<1>8. \A k \in IdnJobs : idnJobs[k].run # None => idnJobs[k].decisions = {}
  BY <1>0 DEF Placed, Resolves, Applies, Run
<1>9. Still
  <2>1. ASSUME NEW k \in IdnJobs
        PROVE  /\ \A m \in Tries :
                    /\ idnJobs'[k].tries[m] = idnJobs[k].tries[m]
                    /\ idnJobs[k].tries[m].at # "none" =>
                         /\ idnJobs'[k].run = idnJobs[k].run
                         /\ idnJobs'[k].decisions = idnJobs[k].decisions
               /\ idnJobs'[k].run # None => idnJobs'[k].decisions = {}
    <3>1. CASE k = j
      BY <1>5, <1>6, <1>7, <3>1
    <3>2. CASE k # j
      BY <1>6, <1>8, <3>2
    <3> QED
      BY <3>1, <3>2
  <2> QED
    BY <1>1, <2>1 DEF Still
<1>10. Typed'
  BY <1>0, <1>1, <1>6 DEF Typed, tables
<1> QED
  BY <1>9, <1>10, StillStep

(***************************************************************************)
(* Tries that are on no group                                              *)
(***************************************************************************)
LEMMA StartsFrame ==
  ASSUME Typed, NEW j \in IdnJobs, NEW n \in Tries, Starts(j, n)
  PROVE  /\ Try(j, n).at = "none"
         /\ idnFaults' \in 0..MaxIdnFaults /\ idnFaults <= idnFaults'
<1>1. CASE idnFaults < MaxIdnFaults /\ idnFaults' = idnFaults + 1
  BY <1>1, IdentityAssumption DEF Typed, Starts
<1>2. CASE UNCHANGED idnFaults
  BY <1>2, IdentityAssumption DEF Typed, Starts
<1> QED
  BY <1>1, <1>2 DEF Starts

LEMMA FaultFrame ==
  ASSUME Typed, idnFaults < MaxIdnFaults, idnFaults' = idnFaults + 1
  PROVE  idnFaults' \in 0..MaxIdnFaults /\ idnFaults <= idnFaults' /\ idnFaults' > 0
BY IdentityAssumption DEF Typed

LEMMA FaultsStay ==
  ASSUME Typed, UNCHANGED idnFaults
  PROVE  idnFaults' \in 0..MaxIdnFaults /\ idnFaults <= idnFaults'
BY IdentityAssumption DEF Typed

\* Candidates, tasks and suppressions of the decided pairs stay.
LEMMA ToldCalm ==
  ASSUME IdnInv, Typed', NEW j \in IdnJobs, NEW n \in Tries, Steps(j, n),
         UNCHANGED <<idnDecisions, idnSuppressed>>, idnFaults <= idnFaults',
         \A p \in Pairs : Kept(p) => Kept(p)',
         \A p \in Pairs :
           \/ idnCandidates'[p] = idnCandidates[p]
           \/ idnCandidates[p] = None /\ idnCandidates'[p] \notin {"confirmed", "rejected"},
         \A p \in Pairs : idnTasks'[p] = "resolved" => idnTasks[p] = "resolved",
         Applies(j) /\ Try(j, n).at = "suppress" => idnFaults' > 0,
         Applies(j) => ToldAt(j, n)'
  PROVE  Told'
<1>0. Typed /\ Placed /\ Told
  BY DEF IdnInv
<1>1. \A p \in Pairs : idnCandidates[p] \in {"confirmed", "rejected"} =>
        idnCandidates'[p] \in {"confirmed", "rejected"}
  BY IdnNone DEF CandidateStatuses
<1>2. \A k \in IdnJobs, m \in Tries : Applies(k)' => ToldAt(k, m)'
  BY <1>0, <1>1, ToldTries
<1>3. ASSUME NEW p \in Pairs PROVE ToldOf(p)'
  <2>0. ToldOf(p)
    BY <1>0 DEF Told
  <2>1. Suppressing(p) => Suppressing(p)' \/ idnFaults' > 0
    BY SuppressingStep
  <2>2. CASE idnCandidates'[p] = idnCandidates[p]
    BY <1>0, <2>0, <2>1, <2>2, ToldOfStep
  <2>3. CASE idnCandidates[p] = None /\ idnCandidates'[p] \notin {"confirmed", "rejected"}
    <3>1. idnCandidates[p] \notin {"confirmed", "rejected"}
      BY <2>3, IdnNone DEF CandidateStatuses
    <3>2. idnTasks'[p] # "resolved"
      BY <2>0, <3>1 DEF ToldOf
    <3>3. p \in idnSuppressed' => AskedFor(p, {"reject"})'
      BY <2>0, AskedStays DEF ToldOf
    <3> QED
      BY <2>3, <3>2, <3>3 DEF ToldOf
  <2> QED
    BY <2>2, <2>3
<1> QED
  BY <1>2, <1>3 DEF Told

\* All of it, for a step of a resolving try.
LEMMA ResolvingCalm ==
  ASSUME IdnInv, Typed', NEW j \in IdnJobs, NEW n \in Tries, Calm(j, n), PlacedAt(j, n)',
         Resolves(j), UNCHANGED <<idnSuppressed, idnOverlap>>,
         \A p \in Pairs :
           \/ idnCandidates'[p] = idnCandidates[p]
           \/ idnCandidates[p] = None /\ idnCandidates'[p] \notin {"confirmed", "rejected"},
         \A p \in Pairs :
           /\ idnTasks'[p] = "resolved" => idnTasks[p] = "resolved"
           /\ idnTasks[p] # None => idnTasks'[p] # None,
         Try(j, n)'.at \in {"next", "insertTask", "insertGroup", "done"} => MatchedAt(j, n)',
         \A r \in IdnRuns : idnRuns'[r] = "running" =>
           \/ idnFaults' > 0 \/ (Run(j) = r /\ Going(j, n)')
           \/ idnRuns[r] = "running" /\ (Run(j) = r /\ Going(j, n) => Going(j, n)')
  PROVE  IdnInv'
<1>0. /\ Typed /\ Placed /\ Alone /\ Matched /\ RunningHasACause
  BY DEF IdnInv
<1>1. /\ Steps(j, n) /\ UNCHANGED idnDecisions /\ idnFaults <= idnFaults'
      /\ Try(j, n)'.at # "insertMembers" /\ ~Applies(j)
  BY <1>0 DEF Calm, Placed
<1>2. /\ Placed' /\ Grouped' /\ Regrouped' /\ Counted' /\ \A p \in Pairs : Kept(p) => Kept(p)'
  BY CalmStep
<1>3. Alone'
  BY <1>0, <1>1, AloneStep
<1>4. Matched'
  BY <1>0, <1>1, <1>2, MatchedStep
<1>5. Told'
  BY <1>1, <1>2, ToldCalm
<1>6. RunningHasACause'
  BY <1>0, <1>1, CausesStep
<1> QED
  BY <1>2, <1>3, <1>4, <1>5, <1>6 DEF IdnInv

LEMMA RunFrame ==
  ASSUME Typed, NEW j \in IdnJobs, Resolves(j), NEW status \in RunStatuses, SetRun(j, status)
  PROVE  /\ Run(j) \in IdnRuns /\ idnRuns' \in [IdnRuns -> RunStatuses \cup {None}]
         /\ idnRuns'[Run(j)] = status
         /\ \A r \in IdnRuns : r # Run(j) => idnRuns'[r] = idnRuns[r]
<1>1. Run(j) \in IdnRuns
  BY DEF Typed, IdnJob, Run, Resolves
<1> QED
  BY <1>1 DEF Typed, SetRun

LEMMA BeginResolveStep ==
  ASSUME IdnInv, NEW j \in IdnJobs, NEW n \in Tries, BeginResolve(j, n)
  PROVE  IdnInv'
<1>0. Typed /\ Placed /\ Resolves(j)
  BY DEF IdnInv, BeginResolve
<1>1. /\ Try(j, n).at = "none"
      /\ idnFaults' \in 0..MaxIdnFaults /\ idnFaults <= idnFaults'
  BY <1>0, StartsFrame DEF BeginResolve
<1>2. /\ UNCHANGED <<idnBook, idnDecisions, idnActors, idnOverlap, idnCandidates, idnTasks,
                     idnGroups, idnMembers, idnSuppressed>>
  BY DEF BeginResolve, Others, tables
<1>3. /\ Run(j) \in IdnRuns /\ idnRuns' \in [IdnRuns -> RunStatuses \cup {None}]
      /\ \A r \in IdnRuns : r # Run(j) => idnRuns'[r] = idnRuns[r]
  BY <1>0, RunFrame DEF BeginResolve, RunStatuses
<1>4. /\ Steps(j, n) /\ Try(j, n)'.at = "load" /\ Try(j, n)'.decisions = Try(j, n).decisions
  BY <1>0, ToFrame DEF BeginResolve, IdnPlaces, ResolvePlaces
<1>5. Typed'
  BY <1>0, <1>1, <1>2, <1>3, <1>4 DEF Typed, Steps
<1>6. PlacedAt(j, n)'
  <2>1. PlacedAt(j, n) /\ Resolves(j)' /\ ~Applies(j)'
    BY <1>0, <1>2, <1>4, StepsFrame DEF Placed
  <2> QED
    BY <1>2, <1>4, <2>1 DEF PlacedAt, ResolvePlaces, Regrouping
<1>7. Calm(j, n)
  <2>1. Unsettled(j, n) = {}
    BY <1>1 DEF Unsettled
  <2> QED
    BY <1>1, <1>2, <1>4, <2>1 DEF Calm, Regrouping
<1>8. Going(j, n)'
  BY <1>4 DEF Going
<1> QED
  BY <1>0, <1>2, <1>3, <1>4, <1>5, <1>6, <1>7, <1>8, ResolvingCalm

\* The tries that none but a resolving job makes.
LEMMA ResolvingAt ==
  ASSUME Typed, Placed, NEW j \in IdnJobs, NEW n \in Tries,
         Try(j, n).at \in {"load", "insertTask", "fail"}
  PROVE  Resolves(j) /\ ~Applies(j) /\ PlacedAt(j, n)
BY DEF Placed, PlacedAt, ApplyPlaces, Deciding, Regrouping

\* Where a resolving try goes once it has scored the pairs.
LEMMA ResolvingPlaced ==
  ASSUME Typed, Placed, NEW j \in IdnJobs, NEW n \in Tries, Resolves(j), Steps(j, n),
         UNCHANGED idnDecisions, Try(j, n)'.at \in ResolvePlaces \ {"insertMembers"},
         Try(j, n)'.decisions = Try(j, n).decisions \/ Try(j, n)'.decisions = {},
         Try(j, n)'.at \in {"insertTask", "insertGroup"} => Try(j, n)'.pair \in Pairs
  PROVE  PlacedAt(j, n)'
<1>1. PlacedAt(j, n) /\ Resolves(j)' /\ ~Applies(j)'
  BY StepsFrame DEF Placed
<1> QED
  BY <1>1 DEF PlacedAt, ResolvePlaces, Regrouping

LEMMA LoadStep ==
  ASSUME IdnInv, NEW j \in IdnJobs, NEW n \in Tries, Load(j, n)
  PROVE  IdnInv'
<1>0. Typed /\ Placed /\ Resolves(j) /\ Try(j, n) \in IdnTry
  BY ResolvingAt, TryTyped DEF IdnInv, Load
<1> DEFINE config == idnJobs[j].config
           scored == {[pair |-> p, as |-> Decide(p, config)] : p \in CandidatePairs(config)}
           pairs == {m \in scored : m.as # "skip"}
           try == [Try(j, n) EXCEPT !.at = "next", !.pairs = pairs, !.read = pairs]
<1>1. /\ Try(j, n).at = "load" /\ Move(j, n, try)
      /\ UNCHANGED <<idnBook, idnDecisions, idnActors, idnRuns, idnFaults, idnOverlap,
                     idnCandidates, idnTasks, idnGroups, idnMembers, idnSuppressed>>
  BY DEF Load, Others, tables
<1>2. pairs \subseteq Mark
  <2> SUFFICES ASSUME NEW p \in CandidatePairs(config), Decide(p, config) # "skip"
               PROVE  [pair |-> p, as |-> Decide(p, config)] \in Mark
    OBVIOUS
  <2>1. p \in Pairs
    BY DEF CandidatePairs
  <2>2. Decide(p, config) \in {"auto_merge", "review"}
    BY DEF Decide
  <2> QED
    BY <2>1, <2>2 DEF Mark
<1> HIDE DEF pairs
<1>3. /\ try \in IdnTry /\ try.at = "next" /\ try.pairs = pairs /\ try.read = pairs
      /\ try.decisions = Try(j, n).decisions
  BY <1>0, <1>2 DEF IdnTry, IdnPlaces, ResolvePlaces
<1> HIDE DEF try
<1>4. Steps(j, n) /\ Try(j, n)' = try
  BY <1>0, <1>1, <1>3, MoveFrame DEF Try
<1>5. idnFaults' \in 0..MaxIdnFaults /\ idnFaults <= idnFaults'
  BY <1>0, <1>1, FaultsStay
<1>6. Typed'
  BY <1>0, <1>1, <1>4, <1>5 DEF Typed, Steps
<1>7. PlacedAt(j, n)'
  BY <1>0, <1>1, <1>3, <1>4, ResolvingPlaced DEF ResolvePlaces
<1>8. Calm(j, n)
  <2>1. Unsettled(j, n) = {}
    BY <1>1 DEF Unsettled
  <2> QED
    BY <1>1, <1>3, <1>4, <1>5, <2>1 DEF Calm, Regrouping
<1>9. MatchedAt(j, n)' /\ Going(j, n)'
  BY <1>3, <1>4 DEF MatchedAt, Going
<1> QED
  BY <1>0, <1>1, <1>6, <1>7, <1>8, <1>9, ResolvingCalm

LEMMA InsertCandidateStep ==
  ASSUME IdnInv, NEW j \in IdnJobs, NEW n \in Tries, InsertCandidate(j, n)
  PROVE  IdnInv'
<1>0. /\ Typed /\ Placed /\ Matched /\ Resolves(j) /\ Try(j, n).at = "next"
      /\ Try(j, n) \in IdnTry
  BY TryTyped DEF IdnInv, InsertCandidate
<1>1. UNCHANGED <<idnBook, idnDecisions, idnActors, idnRuns, idnTasks, idnGroups, idnMembers,
                  idnSuppressed, idnFaults, idnOverlap>>
  BY DEF InsertCandidate, Others
<1>2. PICK m \in Try(j, n).pairs :
        /\ idnCandidates' =
             IF idnCandidates[m.pair] # None THEN idnCandidates
             ELSE [idnCandidates EXCEPT ![m.pair] = IF m.as = "auto_merge" THEN "auto_merged"
                                                    ELSE "pending"]
        /\ Move(j, n, [Try(j, n) EXCEPT
             !.at = IF m.as = "auto_merge" THEN "insertGroup"
                    ELSE IF idnCandidates[m.pair] = None THEN "insertTask" ELSE "fail",
             !.pair = m.pair, !.pairs = @ \ {m}])
  BY DEF InsertCandidate
<1>3. m \in Mark /\ m.pair \in Pairs /\ m.as \in {"auto_merge", "review"}
  BY <1>0 DEF IdnTry, Mark
<1>4. PICK at \in {"insertGroup", "insertTask", "fail"} :
        /\ at = IF m.as = "auto_merge" THEN "insertGroup"
                ELSE IF idnCandidates[m.pair] = None THEN "insertTask" ELSE "fail"
  OBVIOUS
<1> DEFINE try == [Try(j, n) EXCEPT !.at = at, !.pair = m.pair, !.pairs = @ \ {m}]
<1>5. /\ try \in IdnTry /\ try.at = at /\ try.pairs = Try(j, n).pairs \ {m}
      /\ try.read = Try(j, n).read /\ try.pair = m.pair /\ try.decisions = Try(j, n).decisions
  BY <1>0, <1>3 DEF IdnTry, IdnPlaces, ResolvePlaces
<1>6. Move(j, n, try)
  BY <1>2, <1>4
<1> HIDE DEF try
<1>7. Steps(j, n) /\ Try(j, n)' = try
  BY <1>0, <1>5, <1>6, MoveFrame DEF Try
<1>8. idnFaults' \in 0..MaxIdnFaults /\ idnFaults <= idnFaults'
  BY <1>0, <1>1, FaultsStay
<1>9. /\ idnCandidates' \in [Pairs -> CandidateStatuses \cup {None}]
      /\ \A p \in Pairs :
           \/ idnCandidates'[p] = idnCandidates[p]
           \/ idnCandidates[p] = None /\ idnCandidates'[p] \notin {"confirmed", "rejected"}
  BY <1>0, <1>2, <1>3 DEF Typed, CandidateStatuses
<1>10. Typed'
  BY <1>0, <1>1, <1>7, <1>8, <1>9 DEF Typed, Steps
<1>11. PlacedAt(j, n)'
  BY <1>0, <1>1, <1>3, <1>5, <1>7, ResolvingPlaced DEF ResolvePlaces
<1>12. Calm(j, n)
  <2>1. Unsettled(j, n) = {}
    BY <1>0 DEF Unsettled
  <2> QED
    BY <1>1, <1>5, <1>7, <1>8, <2>1 DEF Calm, Regrouping
<1>13. Try(j, n)'.at # "fail" => MatchedAt(j, n)'
  <2> SUFFICES ASSUME at # "fail" PROVE MatchedAt(j, n)'
    BY <1>5, <1>7
  <2>1. MatchedAt(j, n)
    BY <1>0 DEF Matched
  <2>2. ASSUME NEW x \in Try(j, n).read
        PROVE  x \in Try(j, n)'.pairs \/ Satisfied(x)' \/ InHand(j, n, x)'
    <3>1. CASE x = m
      BY <1>3, <1>4, <1>5, <1>7, <3>1 DEF InHand
    <3>2. CASE x # m /\ x \in Try(j, n).pairs
      BY <1>5, <1>7, <3>2
    <3>3. CASE Satisfied(x)
      <4>1. x.pair \in Pairs
        BY <1>0 DEF IdnTry, Mark
      <4>2. Kept(x.pair) => Kept(x.pair)'
        BY <1>10, <1>11, <1>12, <4>1, CalmStep
      <4> QED
        BY <1>1, <3>3, <4>2 DEF Satisfied
    <3>4. ~InHand(j, n, x)
      BY <1>0 DEF InHand
    <3> QED
      BY <2>1, <3>1, <3>2, <3>3, <3>4 DEF MatchedAt
  <2> QED
    BY <1>5, <1>7, <2>2 DEF MatchedAt
<1>14. Going(j, n)'
  BY <1>5, <1>7 DEF Going
<1>15. Try(j, n)'.at \notin {"next", "done"}
  BY <1>5, <1>7
<1> QED
  BY <1>0, <1>1, <1>9, <1>10, <1>11, <1>12, <1>13, <1>14, <1>15, ResolvingCalm

LEMMA InsertTaskStep ==
  ASSUME IdnInv, NEW j \in IdnJobs, NEW n \in Tries, InsertTask(j, n)
  PROVE  IdnInv'
<1>0. /\ Typed /\ Placed /\ Matched /\ Resolves(j) /\ Try(j, n).at = "insertTask"
      /\ Try(j, n) \in IdnTry /\ Try(j, n).pair \in Pairs
  BY ResolvingAt, TryTyped DEF IdnInv, InsertTask, PlacedAt
<1>1. /\ UNCHANGED <<idnBook, idnDecisions, idnActors, idnRuns, idnCandidates, idnGroups,
                     idnMembers, idnSuppressed, idnFaults, idnOverlap>>
      /\ idnTasks' = [idnTasks EXCEPT ![Try(j, n).pair] = "pending"]
  BY DEF InsertTask, Others
<1>2. /\ Steps(j, n) /\ Try(j, n)'.at = "next" /\ Try(j, n)'.decisions = Try(j, n).decisions
      /\ Try(j, n)'.pairs = Try(j, n).pairs /\ Try(j, n)'.read = Try(j, n).read
  BY <1>0, ToFrame DEF InsertTask, IdnPlaces, ResolvePlaces
<1>3. idnFaults' \in 0..MaxIdnFaults /\ idnFaults <= idnFaults'
  BY <1>0, <1>1, FaultsStay
<1>4. /\ idnTasks' \in [Pairs -> {"pending", "resolved", None}]
      /\ idnTasks'[Try(j, n).pair] # None
      /\ \A p \in Pairs : /\ idnTasks'[p] = "resolved" => idnTasks[p] = "resolved"
                          /\ idnTasks[p] # None => idnTasks'[p] # None
  BY <1>0, <1>1, IdnNone DEF Typed
<1>5. Typed'
  BY <1>0, <1>1, <1>2, <1>3, <1>4 DEF Typed, Steps
<1>6. PlacedAt(j, n)'
  BY <1>0, <1>1, <1>2, ResolvingPlaced DEF ResolvePlaces
<1>7. Calm(j, n)
  <2>1. Unsettled(j, n) = {}
    BY <1>0 DEF Unsettled
  <2> QED
    BY <1>1, <1>2, <1>3, <2>1 DEF Calm, Regrouping
<1>8. MatchedAt(j, n)'
  <2>1. MatchedAt(j, n)
    BY <1>0 DEF Matched
  <2>2. ASSUME NEW x \in Try(j, n).read PROVE x \in Try(j, n)'.pairs \/ Satisfied(x)'
    <3>1. CASE x \in Try(j, n).pairs
      BY <1>2, <3>1
    <3>2. CASE Satisfied(x)
      <4>1. x.pair \in Pairs
        BY <1>0 DEF IdnTry, Mark
      <4>2. Kept(x.pair) => Kept(x.pair)'
        BY <1>5, <1>6, <1>7, <4>1, CalmStep
      <4> QED
        BY <1>4, <3>2, <4>1, <4>2 DEF Satisfied
    <3>3. CASE InHand(j, n, x)
      BY <1>0, <1>4, <3>3 DEF InHand, Satisfied
    <3> QED
      BY <2>1, <3>1, <3>2, <3>3 DEF MatchedAt
  <2> QED
    BY <1>2, <2>2 DEF MatchedAt
<1>9. Going(j, n)'
  BY <1>2 DEF Going
<1> QED
  BY <1>0, <1>1, <1>4, <1>5, <1>6, <1>7, <1>8, <1>9, ResolvingCalm

LEMMA CompleteStep ==
  ASSUME IdnInv, NEW j \in IdnJobs, NEW n \in Tries, Complete(j, n)
  PROVE  IdnInv'
<1>0. /\ Typed /\ Placed /\ Matched /\ Resolves(j) /\ Try(j, n).at = "next"
      /\ Try(j, n).pairs = {} /\ Try(j, n) \in IdnTry
  BY TryTyped DEF IdnInv, Complete
<1> DEFINE try == [Try(j, n) EXCEPT !.at = "done", !.pair = None]
<1>1. /\ UNCHANGED <<idnBook, idnDecisions, idnActors, idnCandidates, idnTasks, idnGroups,
                     idnMembers, idnSuppressed, idnFaults, idnOverlap>>
      /\ Move(j, n, try) /\ SetRun(j, "completed")
  BY DEF Complete, Others, tables
<1>2. /\ try \in IdnTry /\ try.at = "done" /\ try.pairs = {} /\ try.read = Try(j, n).read
      /\ try.decisions = Try(j, n).decisions
  BY <1>0 DEF IdnTry, IdnPlaces, ResolvePlaces
<1> HIDE DEF try
<1>3. Steps(j, n) /\ Try(j, n)' = try
  BY <1>0, <1>1, <1>2, MoveFrame DEF Try
<1>4. idnFaults' \in 0..MaxIdnFaults /\ idnFaults <= idnFaults'
  BY <1>0, <1>1, FaultsStay
<1>5. /\ Run(j) \in IdnRuns /\ idnRuns' \in [IdnRuns -> RunStatuses \cup {None}]
      /\ idnRuns'[Run(j)] = "completed"
      /\ \A r \in IdnRuns : r # Run(j) => idnRuns'[r] = idnRuns[r]
  BY <1>0, <1>1, RunFrame DEF RunStatuses
<1>6. Typed'
  BY <1>0, <1>1, <1>3, <1>4, <1>5 DEF Typed, Steps
<1>7. PlacedAt(j, n)'
  BY <1>0, <1>1, <1>2, <1>3, ResolvingPlaced DEF ResolvePlaces
<1>8. Calm(j, n)
  <2>1. Unsettled(j, n) = {}
    BY <1>0 DEF Unsettled
  <2> QED
    BY <1>1, <1>2, <1>3, <1>4, <2>1 DEF Calm, Regrouping
<1>9. MatchedAt(j, n)'
  <2>1. MatchedAt(j, n)
    BY <1>0 DEF Matched
  <2>2. ASSUME NEW x \in Try(j, n).read PROVE Satisfied(x)'
    <3>1. Satisfied(x)
      BY <1>0, <2>1 DEF MatchedAt, InHand
    <3>2. x.pair \in Pairs
      BY <1>0 DEF IdnTry, Mark
    <3>3. Kept(x.pair) => Kept(x.pair)'
      BY <1>6, <1>7, <1>8, <3>2, CalmStep
    <3> QED
      BY <1>1, <3>1, <3>3 DEF Satisfied
  <2> QED
    BY <1>2, <1>3, <2>2 DEF MatchedAt
<1>10. \A r \in IdnRuns : idnRuns'[r] = "running" => idnRuns[r] = "running" /\ Run(j) # r
  BY <1>5
<1> QED
  BY <1>0, <1>1, <1>6, <1>7, <1>8, <1>9, <1>10, ResolvingCalm

LEMMA FailRunStep ==
  ASSUME IdnInv, NEW j \in IdnJobs, NEW n \in Tries, FailRun(j, n)
  PROVE  IdnInv'
<1>0. /\ Typed /\ Placed /\ Resolves(j) /\ Try(j, n).at = "fail"
  BY ResolvingAt DEF IdnInv, FailRun
<1> DEFINE try == [Resting EXCEPT !.at = "failed"]
<1>1. /\ UNCHANGED <<idnBook, idnDecisions, idnActors, idnCandidates, idnTasks, idnGroups,
                     idnMembers, idnSuppressed, idnOverlap>>
      /\ Move(j, n, try)
      /\ \/ SetRun(j, "failed") /\ UNCHANGED idnFaults
         \/ idnFaults < MaxIdnFaults /\ idnFaults' = idnFaults + 1 /\ UNCHANGED idnRuns
  BY DEF FailRun, Others, tables
<1>2. try \in IdnTry /\ try.at = "failed" /\ try.decisions = {}
  <2>1. "failed" \in IdnPlaces
    BY DEF IdnPlaces, ResolvePlaces
  <2> QED
    BY <2>1, RestingTyped DEF IdnTry, Resting
<1> HIDE DEF try
<1>3. Steps(j, n) /\ Try(j, n)' = try
  BY <1>0, <1>1, <1>2, MoveFrame DEF Try
<1>4. /\ idnFaults' \in 0..MaxIdnFaults /\ idnFaults <= idnFaults'
      /\ idnRuns' \in [IdnRuns -> RunStatuses \cup {None}]
      /\ \A r \in IdnRuns : idnRuns'[r] = "running" =>
           idnFaults' > 0 \/ (idnRuns[r] = "running" /\ Run(j) # r)
  <2>1. CASE SetRun(j, "failed") /\ UNCHANGED idnFaults
    BY <1>0, <2>1, FaultsStay, RunFrame DEF RunStatuses
  <2>2. CASE idnFaults < MaxIdnFaults /\ idnFaults' = idnFaults + 1 /\ UNCHANGED idnRuns
    <3>1. idnRuns' \in [IdnRuns -> RunStatuses \cup {None}]
      BY <1>0, <2>2 DEF Typed
    <3> QED
      BY <1>0, <2>2, <3>1, FaultFrame
  <2> QED
    BY <1>1, <2>1, <2>2
<1>5. Typed'
  BY <1>0, <1>1, <1>3, <1>4 DEF Typed, Steps
<1>6. PlacedAt(j, n)'
  BY <1>0, <1>1, <1>2, <1>3, ResolvingPlaced DEF ResolvePlaces
<1>7. Calm(j, n)
  <2>1. Unsettled(j, n) = {}
    BY <1>0 DEF Unsettled
  <2> QED
    BY <1>1, <1>2, <1>3, <1>4, <2>1 DEF Calm, Regrouping
<1>8. Try(j, n)'.at \notin {"next", "insertTask", "insertGroup", "done"}
  BY <1>2, <1>3
<1> QED
  BY <1>0, <1>1, <1>4, <1>5, <1>6, <1>7, <1>8, ResolvingCalm

\* All but the candidates' and tasks' tale, for a step of an applying try.
LEMMA ApplyingCalm ==
  ASSUME IdnInv, Typed', NEW j \in IdnJobs, NEW n \in Tries, Calm(j, n), PlacedAt(j, n)',
         Applies(j), UNCHANGED idnRuns,
         \A p \in Pairs : idnTasks[p] # None => idnTasks'[p] # None
  PROVE  /\ Placed' /\ Grouped' /\ Regrouped' /\ Counted' /\ Matched' /\ RunningHasACause'
         /\ \A p \in Pairs : Kept(p) => Kept(p)'
<1>0. /\ Typed /\ Placed /\ Alone /\ Matched /\ RunningHasACause
  BY DEF IdnInv
<1>1. /\ Steps(j, n) /\ UNCHANGED idnDecisions /\ idnFaults <= idnFaults' /\ ~Resolves(j)
  BY <1>0 DEF Calm, Placed
<1>2. /\ Placed' /\ Grouped' /\ Regrouped' /\ Counted' /\ \A p \in Pairs : Kept(p) => Kept(p)'
  BY CalmStep
<1>3. Matched'
  BY <1>0, <1>1, <1>2, MatchedStep
<1>4. RunningHasACause'
  BY <1>0, <1>1, CausesStep
<1> QED
  BY <1>2, <1>3, <1>4

\* The tries that none but an applying job makes.
LEMMA ApplyingAt ==
  ASSUME Typed, Placed, NEW j \in IdnJobs, NEW n \in Tries,
         Try(j, n).at \in {"readMembers", "setCandidate", "suppress", "resolve"} \cup Regrouping
  PROVE  /\ Applies(j) /\ ~Resolves(j) /\ Try(j, n).at \in Deciding /\ Going(j, n)
         /\ PlacedAt(j, n)
BY DEF Placed, PlacedAt, ResolvePlaces, Deciding, Regrouping, Going

LEMMA BeginApplyStep ==
  ASSUME IdnInv, NEW j \in IdnJobs, NEW n \in Tries, BeginApply(j, n)
  PROVE  IdnInv'
<1>0. Typed /\ Placed /\ Alone /\ Applies(j) /\ ~Resolves(j)
  BY DEF IdnInv, BeginApply, Placed
<1>1. /\ Try(j, n).at = "none" /\ idnFaults' \in 0..MaxIdnFaults /\ idnFaults <= idnFaults'
  BY <1>0, StartsFrame DEF BeginApply
<1> DEFINE pending == {d \in idnJobs[j].decisions :
                         idnDecisions[d] # None /\ idnTasks[idnDecisions[d].pair] # "resolved"}
           try == [Resting EXCEPT !.at = "next", !.decisions = pending]
<1>2. /\ UNCHANGED <<idnBook, idnDecisions, idnActors, idnRuns, idnCandidates, idnTasks,
                     idnGroups, idnMembers, idnSuppressed>>
      /\ Move(j, n, try) /\ idnOverlap' = (idnOverlap \/ Applying # {})
  BY DEF BeginApply, Others, tables
<1>3. /\ pending \subseteq DecisionIds /\ \A d \in pending : idnDecisions[d] # None
  BY <1>0 DEF Typed, IdnJob
<1> HIDE DEF pending
<1>4. try \in IdnTry /\ try.at = "next" /\ try.decisions = pending
  <2>1. "next" \in IdnPlaces
    BY DEF IdnPlaces, ResolvePlaces
  <2> QED
    BY <1>3, <2>1, RestingTyped DEF IdnTry, Resting
<1> HIDE DEF try
<1>5. Steps(j, n) /\ Try(j, n)' = try
  BY <1>0, <1>2, <1>4, MoveFrame DEF Try
<1>6. idnOverlap' \in BOOLEAN /\ (idnOverlap => idnOverlap')
  BY <1>0, <1>2 DEF Typed
<1>7. Typed'
  BY <1>0, <1>1, <1>2, <1>5, <1>6 DEF Typed, Steps
<1>8. PlacedAt(j, n)'
  <2>1. Resolves(j)' = Resolves(j) /\ Applies(j)' = Applies(j)
    BY <1>2, <1>5, StepsFrame
  <2> QED
    BY <1>0, <1>2, <1>3, <1>4, <1>5, <2>1 DEF PlacedAt, ApplyPlaces, Deciding, Regrouping
<1>9. Calm(j, n)
  <2>1. Unsettled(j, n) = {}
    BY <1>1 DEF Unsettled
  <2> QED
    BY <1>1, <1>2, <1>4, <1>5, <1>6, <2>1 DEF Calm, Regrouping
<1>10. /\ Placed' /\ Grouped' /\ Regrouped' /\ Counted' /\ Matched' /\ RunningHasACause'
       /\ \A p \in Pairs : Kept(p) => Kept(p)'
  BY <1>0, <1>2, <1>7, <1>8, <1>9, ApplyingCalm
<1>11. Alone'
  <2> SUFFICES ASSUME ~idnOverlap', NEW k \in IdnJobs, NEW m \in Tries, Applies(k)', Going(k, m)'
               PROVE  k = j /\ m = n
    BY DEF Alone
  <2>1. <<k, m>> \notin Applying
    BY <1>2
  <2>2. ~(Applies(k) /\ Going(k, m))
    BY <2>1 DEF Applying
  <2>3. <<k, m>> = <<j, n>>
    BY <1>2, <1>5, <2>2, StepsFrame
  <2> QED
    BY <2>3
<1>12. Told'
  <2>1. ToldAt(j, n)'
    BY <1>4, <1>5 DEF ToldAt
  <2> QED
    BY <1>1, <1>2, <1>5, <1>7, <1>10, <2>1, ToldCalm
<1> QED
  BY <1>7, <1>10, <1>11, <1>12 DEF IdnInv

LEMMA StartDecisionStep ==
  ASSUME IdnInv, NEW j \in IdnJobs, NEW n \in Tries, StartDecision(j, n)
  PROVE  IdnInv'
<1>0. /\ Typed /\ Placed /\ Alone /\ Applies(j) /\ ~Resolves(j) /\ PlacedAt(j, n)
      /\ Try(j, n).at = "next" /\ Try(j, n) \in IdnTry
  BY TryTyped DEF IdnInv, StartDecision, Placed
<1>1. UNCHANGED <<idnBook, idnDecisions, idnActors, idnRuns, idnFaults, idnOverlap,
                  idnCandidates, idnTasks, idnGroups, idnMembers, idnSuppressed>>
  BY DEF StartDecision, Others, tables
<1>2. PICK d \in Try(j, n).decisions :
        Move(j, n, [Try(j, n) EXCEPT
          !.at = CASE idnDecisions[d].verdict = "confirm" -> "insertGroup"
                   [] idnDecisions[d].verdict = "reject" -> "setCandidate"
                   [] OTHER -> "readMembers",
          !.decision = d, !.decisions = @ \ {d}])
  BY DEF StartDecision
<1>3. d \in DecisionIds /\ idnDecisions[d] # None /\ idnDecisions[d] \in Decision
  BY <1>0 DEF IdnTry, PlacedAt, Typed
<1>4. PICK at \in {"insertGroup", "setCandidate", "readMembers"} :
        at = CASE idnDecisions[d].verdict = "confirm" -> "insertGroup"
               [] idnDecisions[d].verdict = "reject" -> "setCandidate"
               [] OTHER -> "readMembers"
  OBVIOUS
<1>5. idnDecisions[d].verdict \in VerdictsAt(at)
        /\ (at = "setCandidate" => idnDecisions[d].verdict # "confirm")
  BY <1>3, <1>4 DEF Decision, Verdicts, VerdictsAt
<1> DEFINE try == [Try(j, n) EXCEPT !.at = at, !.decision = d, !.decisions = @ \ {d}]
<1>6. /\ try \in IdnTry /\ try.at = at /\ try.decision = d
      /\ try.decisions = Try(j, n).decisions \ {d}
  BY <1>0, <1>3 DEF IdnTry, IdnPlaces, ApplyPlaces, Deciding
<1>7. Move(j, n, try)
  BY <1>2, <1>4
<1> HIDE DEF try
<1>8. Steps(j, n) /\ Try(j, n)' = try
  BY <1>0, <1>6, <1>7, MoveFrame DEF Try
<1>9. idnFaults' \in 0..MaxIdnFaults /\ idnFaults <= idnFaults'
  BY <1>0, <1>1, FaultsStay
<1>10. Typed'
  BY <1>0, <1>1, <1>8, <1>9 DEF Typed, Steps
<1>11. Verdict(j, n)' = idnDecisions[d].verdict
  BY <1>1, <1>6, <1>8 DEF Verdict
<1>12. PlacedAt(j, n)'
  <2>1. Resolves(j)' = Resolves(j) /\ Applies(j)' = Applies(j)
    BY <1>1, <1>8, StepsFrame
  <2> QED
    BY <1>0, <1>1, <1>3, <1>5, <1>6, <1>8, <1>11, <2>1
       DEF PlacedAt, ApplyPlaces, Deciding, Regrouping
<1>13. Calm(j, n)
  <2>1. Unsettled(j, n) = {}
    BY <1>0 DEF Unsettled
  <2> QED
    BY <1>1, <1>6, <1>8, <1>9, <2>1 DEF Calm, Regrouping
<1>14. /\ Placed' /\ Grouped' /\ Regrouped' /\ Counted' /\ Matched' /\ RunningHasACause'
       /\ \A p \in Pairs : Kept(p) => Kept(p)'
  BY <1>0, <1>1, <1>10, <1>12, <1>13, ApplyingCalm
<1>15. Alone'
  BY <1>0, <1>1, <1>8, AloneStep DEF Going
<1>16. Told'
  <2>1. ToldAt(j, n)'
    BY <1>5, <1>6, <1>8, <1>11 DEF ToldAt
  <2> QED
    BY <1>0, <1>1, <1>8, <1>9, <1>10, <1>14, <2>1, ToldCalm
<1> QED
  BY <1>10, <1>14, <1>15, <1>16 DEF IdnInv

LEMMA EndApplyStep ==
  ASSUME IdnInv, NEW j \in IdnJobs, NEW n \in Tries, EndApply(j, n)
  PROVE  IdnInv'
<1>0. /\ Typed /\ Placed /\ Alone /\ Applies(j) /\ ~Resolves(j) /\ Try(j, n).at = "next"
  BY DEF IdnInv, EndApply, Placed
<1> DEFINE try == [Resting EXCEPT !.at = "done"]
<1>1. /\ UNCHANGED <<idnBook, idnDecisions, idnActors, idnRuns, idnFaults, idnOverlap,
                     idnCandidates, idnTasks, idnGroups, idnMembers, idnSuppressed>>
      /\ Move(j, n, try)
  BY DEF EndApply, Others, tables
<1>2. try \in IdnTry /\ try.at = "done" /\ try.decisions = {}
  <2>1. "done" \in IdnPlaces
    BY DEF IdnPlaces, ResolvePlaces
  <2> QED
    BY <2>1, RestingTyped DEF IdnTry, Resting
<1> HIDE DEF try
<1>3. Steps(j, n) /\ Try(j, n)' = try
  BY <1>0, <1>1, <1>2, MoveFrame DEF Try
<1>4. idnFaults' \in 0..MaxIdnFaults /\ idnFaults <= idnFaults'
  BY <1>0, <1>1, FaultsStay
<1>5. Typed'
  BY <1>0, <1>1, <1>3, <1>4 DEF Typed, Steps
<1>6. PlacedAt(j, n)'
  <2>1. Resolves(j)' = Resolves(j) /\ Applies(j)' = Applies(j)
    BY <1>1, <1>3, StepsFrame
  <2> QED
    BY <1>0, <1>2, <1>3, <2>1 DEF PlacedAt, ApplyPlaces, Deciding, Regrouping
<1>7. Calm(j, n)
  <2>1. Unsettled(j, n) = {}
    BY <1>0 DEF Unsettled
  <2> QED
    BY <1>1, <1>2, <1>3, <1>4, <2>1 DEF Calm, Regrouping
<1>8. /\ Placed' /\ Grouped' /\ Regrouped' /\ Counted' /\ Matched' /\ RunningHasACause'
      /\ \A p \in Pairs : Kept(p) => Kept(p)'
  BY <1>0, <1>1, <1>5, <1>6, <1>7, ApplyingCalm
<1>9. Alone'
  BY <1>0, <1>1, <1>3, AloneStep DEF Going
<1>10. Told'
  <2>1. ToldAt(j, n)'
    BY <1>2, <1>3 DEF ToldAt
  <2> QED
    BY <1>0, <1>1, <1>3, <1>4, <1>5, <1>8, <2>1, ToldCalm
<1> QED
  BY <1>5, <1>8, <1>9, <1>10 DEF IdnInv

\* A try goes on with its decision, on no group.
LEMMA ApplyTo ==
  ASSUME Typed, Placed, NEW j \in IdnJobs, NEW n \in Tries, Applies(j), Try(j, n).at \in Deciding,
         NEW at \in {"readMembers", "setCandidate", "suppress", "resolve"}, To(j, n, at),
         UNCHANGED idnDecisions, Verdict(j, n) \in VerdictsAt(at)
  PROVE  /\ Steps(j, n) /\ Try(j, n)'.at = at /\ PlacedAt(j, n)'
         /\ Verdict(j, n)' = Verdict(j, n) /\ PairAt(j, n)' = PairAt(j, n)
<1>1. /\ Steps(j, n) /\ Try(j, n)'.at = at /\ Try(j, n)'.decisions = Try(j, n).decisions
      /\ Try(j, n)'.decision = Try(j, n).decision
  BY ToFrame DEF IdnPlaces, ApplyPlaces, Deciding
<1>2. Resolves(j)' = Resolves(j) /\ Applies(j)' = Applies(j)
  BY <1>1, StepsFrame
<1>3. PlacedAt(j, n) /\ ~Resolves(j)
  BY DEF Placed
<1>4. Verdict(j, n)' = Verdict(j, n) /\ PairAt(j, n)' = PairAt(j, n)
  BY <1>1, <1>2, <1>3 DEF Verdict, PairAt
<1>5. at \in Deciding /\ at \notin Regrouping /\ at # "insertMembers" /\ at \in ApplyPlaces
  BY DEF Deciding, Regrouping, ApplyPlaces
<1>6. /\ Try(j, n).decision \in DecisionIds /\ idnDecisions[Try(j, n).decision] # None
      /\ \A d \in Try(j, n).decisions : idnDecisions[d] # None
  BY <1>3 DEF PlacedAt
<1>7. PlacedAt(j, n)'
  BY <1>1, <1>2, <1>3, <1>4, <1>5, <1>6 DEF PlacedAt
<1> QED
  BY <1>1, <1>4, <1>7

LEMMA NoneUnsettled ==
  ASSUME NEW j \in IdnJobs, NEW n \in Tries,
         Try(j, n).at \notin Regrouping \cup {"insertMembers"}
           \/ Try(j, n).at \in {"move", "deleteRow"}
  PROVE  Unsettled(j, n) = {}
BY DEF Unsettled, Regrouping

LEMMA SetCandidateStep ==
  ASSUME IdnInv, NEW j \in IdnJobs, NEW n \in Tries, SetCandidate(j, n)
  PROVE  IdnInv'
<1>0. /\ Typed /\ Placed /\ Alone /\ Told /\ Try(j, n).at = "setCandidate"
      /\ Applies(j) /\ ~Resolves(j) /\ Try(j, n).at \in Deciding /\ Going(j, n)
  BY ApplyingAt DEF IdnInv, SetCandidate
<1>a. PICK p \in Pairs : p = PairAt(j, n)
  BY <1>0, DecisionAt
<1> DEFINE status == IF Verdict(j, n) \in {"confirm", "merge"} THEN "confirmed" ELSE "rejected"
           at == IF Verdict(j, n) = "reject" THEN "suppress" ELSE "resolve"
<1>1. /\ UNCHANGED <<idnBook, idnDecisions, idnActors, idnRuns, idnTasks, idnGroups, idnMembers,
                     idnSuppressed, idnFaults, idnOverlap>>
      /\ idnCandidates' = [idnCandidates EXCEPT ![p] = status] /\ To(j, n, at)
  BY <1>a DEF SetCandidate, Others
<1>2. /\ p \in Pairs /\ AskedFor(p, {Verdict(j, n)}) /\ Verdict(j, n) \in Verdicts
  BY <1>0, <1>a, DecisionAt DEF Decision
<1>b. PICK v \in Verdicts : v = Verdict(j, n) /\ AskedFor(p, {v})
  BY <1>2
<1>3. Verdict(j, n) \in VerdictsAt(at)
  BY <1>2 DEF VerdictsAt
<1>4. /\ Steps(j, n) /\ Try(j, n)'.at = at /\ PlacedAt(j, n)'
      /\ Verdict(j, n)' = Verdict(j, n) /\ PairAt(j, n)' = p
  BY <1>0, <1>1, <1>3, <1>a, ApplyTo
<1>5. idnFaults' \in 0..MaxIdnFaults /\ idnFaults <= idnFaults'
  BY <1>0, <1>1, FaultsStay
<1>6. /\ idnCandidates' \in [Pairs -> CandidateStatuses \cup {None}] /\ idnCandidates'[p] = status
      /\ \A q \in Pairs : q # p => idnCandidates'[q] = idnCandidates[q]
  BY <1>0, <1>1, <1>2 DEF Typed, CandidateStatuses
<1>7. Typed'
  BY <1>0, <1>1, <1>4, <1>5, <1>6 DEF Typed, Steps
<1>8. Calm(j, n)
  <2>1. Unsettled(j, n) = {}
    BY <1>0, NoneUnsettled DEF Regrouping
  <2> QED
    BY <1>1, <1>4, <1>5, <2>1 DEF Calm, Regrouping
<1>9. /\ Placed' /\ Grouped' /\ Regrouped' /\ Counted' /\ Matched' /\ RunningHasACause'
      /\ \A q \in Pairs : Kept(q) => Kept(q)'
  BY <1>0, <1>1, <1>4, <1>7, <1>8, ApplyingCalm
<1>10. Alone'
  BY <1>0, <1>1, <1>4, AloneStep
<1>11. Told'
  <2>1. \A q \in Pairs : idnCandidates[q] \in {"confirmed", "rejected"} =>
          idnCandidates'[q] \in {"confirmed", "rejected"}
    BY <1>6
  <2>2. ToldAt(j, n)'
    BY <1>4, <1>6 DEF ToldAt
  <2>3. \A k \in IdnJobs, m \in Tries : Applies(k)' => ToldAt(k, m)'
    BY <1>0, <1>1, <1>4, <1>9, <2>1, <2>2, ToldTries
  <2>4. ASSUME NEW q \in Pairs, q # p PROVE ToldOf(q)'
    <3>1. ToldOf(q)
      BY <1>0 DEF Told
    <3>2. Suppressing(q) => Suppressing(q)'
      BY <1>0, <1>1, <1>4, SuppressingStep
    <3> QED
      BY <1>0, <1>1, <1>5, <1>6, <1>7, <1>9, <2>4, <3>1, <3>2, ToldOfStep
  <2>5. ToldOf(p)'
    <3>1. ToldOf(p) /\ ToldAt(j, n)
      BY <1>0, <1>2 DEF Told
    <3>2. AskedFor(p, {v})'
      BY <1>1, <1>b, AskedStays
    <3>3. /\ Verdict(j, n) = "confirm" => AskedFor(p, {"confirm"})' /\ Kept(p)'
      <4>1. Verdict(j, n) = "confirm" => Kept(p)
        BY <1>a, <1>0, <3>1 DEF ToldAt
      <4> QED
        BY <1>9, <1>b, <3>2, <4>1 DEF AskedFor
    <3>4. Verdict(j, n) = "merge" => AskedFor(p, {"merge"})'
      BY <1>b, <3>2 DEF AskedFor
    <3>5. Verdict(j, n) = "split" => AskedFor(p, {"split"})'
      BY <1>b, <3>2 DEF AskedFor
    <3>6. Verdict(j, n) = "reject" => AskedFor(p, {"reject"})' /\ Suppressing(p)'
      <4>1. Verdict(j, n) = "reject" =>
              Applies(j)' /\ Try(j, n)'.at = "suppress" /\ PairAt(j, n)' = p
        BY <1>0, <1>1, <1>4, StepsFrame
      <4> QED
        BY <1>b, <3>2, <4>1 DEF AskedFor, Suppressing
    <3>7. p \in idnSuppressed' => AskedFor(p, {"reject"})'
      BY <1>1, <3>1, AskedStays DEF ToldOf
    <3>8. idnTasks'[p] = "resolved" =>
            \E d \in DecisionIds :
              On(d, p)' /\ (idnDecisions'[d].verdict = "reject" => p \in idnSuppressed')
      BY <1>1, <3>1 DEF ToldOf, On
    <3>9. Verdict(j, n) \in {"confirm", "merge", "split", "reject"}
      BY <1>2 DEF Verdicts
    <3> QED
      BY <1>6, <3>3, <3>4, <3>5, <3>6, <3>7, <3>8, <3>9 DEF ToldOf
  <2> QED
    BY <2>3, <2>4, <2>5 DEF Told
<1> QED
  BY <1>7, <1>9, <1>10, <1>11 DEF IdnInv

LEMMA SuppressStep ==
  ASSUME IdnInv, NEW j \in IdnJobs, NEW n \in Tries, Suppress(j, n)
  PROVE  IdnInv'
<1>0. /\ Typed /\ Placed /\ Alone /\ Told /\ Try(j, n).at = "suppress"
      /\ Applies(j) /\ ~Resolves(j) /\ Try(j, n).at \in Deciding /\ Going(j, n)
  BY ApplyingAt DEF IdnInv, Suppress
<1>a. PICK p \in Pairs : p = PairAt(j, n)
  BY <1>0, DecisionAt
<1>1. /\ UNCHANGED <<idnBook, idnDecisions, idnActors, idnRuns, idnCandidates, idnTasks,
                     idnGroups, idnMembers, idnFaults, idnOverlap>>
      /\ idnSuppressed' = idnSuppressed \cup {p} /\ To(j, n, "resolve")
  BY <1>a DEF Suppress, Others
<1>2. p \in Pairs /\ AskedFor(p, {"reject"}) /\ Verdict(j, n) = "reject"
  <2>1. p \in Pairs /\ AskedFor(p, {Verdict(j, n)}) /\ Verdict(j, n) = "reject"
    BY <1>0, <1>a, DecisionAt DEF VerdictsAt
  <2> QED
    BY <2>1
<1>3. Verdict(j, n) \in VerdictsAt("resolve")
  BY <1>2 DEF VerdictsAt, Verdicts
<1>4. /\ Steps(j, n) /\ Try(j, n)'.at = "resolve" /\ PlacedAt(j, n)'
      /\ Verdict(j, n)' = Verdict(j, n) /\ PairAt(j, n)' = p
  BY <1>0, <1>a, <1>1, <1>3, ApplyTo
<1>5. idnFaults' \in 0..MaxIdnFaults /\ idnFaults <= idnFaults'
  BY <1>0, <1>1, FaultsStay
<1>6. Typed'
  BY <1>0, <1>1, <1>2, <1>4, <1>5 DEF Typed, Steps
<1>7. Calm(j, n)
  <2>1. Unsettled(j, n) = {}
    BY <1>0, NoneUnsettled DEF Regrouping
  <2> QED
    BY <1>1, <1>4, <1>5, <2>1 DEF Calm, Regrouping
<1>8. /\ Placed' /\ Grouped' /\ Regrouped' /\ Counted' /\ Matched' /\ RunningHasACause'
      /\ \A q \in Pairs : Kept(q) => Kept(q)'
  BY <1>0, <1>1, <1>4, <1>6, <1>7, ApplyingCalm
<1>9. Alone'
  BY <1>0, <1>1, <1>4, AloneStep
<1>10. Told'
  <2>1. ToldAt(j, n) /\ ToldOf(p)
    BY <1>0, <1>2 DEF Told
  <2>2. ToldAt(j, n)'
    BY <1>a, <1>0, <1>1, <1>4, <2>1 DEF ToldAt
  <2>3. \A k \in IdnJobs, m \in Tries : Applies(k)' => ToldAt(k, m)'
    BY <1>0, <1>1, <1>4, <1>8, <2>2, ToldTries
  <2>4. ASSUME NEW q \in Pairs, q # p PROVE ToldOf(q)'
    <3>1. ToldOf(q)
      BY <1>0 DEF Told
    <3>2. Suppressing(q) => Suppressing(q)'
      BY <1>1, <1>4, <2>4, SuppressingStep, <1>a
    <3>3. q \in idnSuppressed' <=> q \in idnSuppressed
      BY <1>1, <2>4
    <3> QED
      BY <1>0, <1>1, <1>5, <1>6, <1>8, <3>1, <3>2, <3>3, ToldOfStep
  <2>5. ToldOf(p)'
    <3>1. AskedFor(p, {"reject"})'
      BY <1>1, <1>2, AskedStays
    <3>2. p \in idnSuppressed'
      BY <1>1
    <3>3. idnTasks'[p] = "resolved" =>
            idnCandidates'[p] \in {"confirmed", "rejected"} /\ \E d \in DecisionIds : On(d, p)'
      BY <1>1, <2>1 DEF ToldOf, On
    <3>4. idnCandidates'[p] = "confirmed" =>
            (AskedFor(p, {"confirm"})' /\ Kept(p)') \/ AskedFor(p, {"merge"})'
      BY <1>1, <1>2, <1>8, <2>1, AskedStays DEF ToldOf
    <3> QED
      BY <3>1, <3>2, <3>3, <3>4 DEF ToldOf
  <2> QED
    BY <2>3, <2>4, <2>5 DEF Told
<1> QED
  BY <1>6, <1>8, <1>9, <1>10 DEF IdnInv

LEMMA ResolveTaskStep ==
  ASSUME IdnInv, NEW j \in IdnJobs, NEW n \in Tries, ResolveTask(j, n)
  PROVE  IdnInv'
<1>0. /\ Typed /\ Placed /\ Alone /\ Told /\ Try(j, n).at = "resolve"
      /\ Applies(j) /\ ~Resolves(j) /\ Try(j, n).at \in Deciding /\ Going(j, n) /\ PlacedAt(j, n)
  BY ApplyingAt DEF IdnInv, ResolveTask
<1>a. PICK p \in Pairs : p = PairAt(j, n)
  BY <1>0, DecisionAt
<1>1. /\ UNCHANGED <<idnBook, idnDecisions, idnActors, idnRuns, idnCandidates, idnGroups,
                     idnMembers, idnSuppressed, idnFaults, idnOverlap>>
      /\ idnTasks' = [idnTasks EXCEPT ![p] = "resolved"] /\ NextDecision(j, n)
  BY <1>a DEF ResolveTask, Others
<1>2. /\ p \in Pairs /\ Try(j, n).decision \in DecisionIds
      /\ On(Try(j, n).decision, p)
      /\ Verdict(j, n) = idnDecisions[Try(j, n).decision].verdict
  BY <1>0, <1>a, DecisionAt, IdnNone DEF On
<1>3. /\ Steps(j, n) /\ Try(j, n)'.at = "next" /\ Try(j, n)'.decisions = Try(j, n).decisions
  BY <1>0, <1>1, NextDecisionFrame
<1>4. idnFaults' \in 0..MaxIdnFaults /\ idnFaults <= idnFaults'
  BY <1>0, <1>1, FaultsStay
<1>5. /\ idnTasks' \in [Pairs -> {"pending", "resolved", None}] /\ idnTasks'[p] = "resolved"
      /\ \A q \in Pairs : q # p => idnTasks'[q] = idnTasks[q]
  BY <1>0, <1>1, <1>2 DEF Typed
<1>6. Typed'
  BY <1>0, <1>1, <1>3, <1>4, <1>5 DEF Typed, Steps
<1>7. PlacedAt(j, n)'
  <2>1. Resolves(j)' = Resolves(j) /\ Applies(j)' = Applies(j)
    BY <1>1, <1>3, StepsFrame
  <2> QED
    BY <1>0, <1>1, <1>3, <2>1 DEF PlacedAt, ApplyPlaces, Deciding, Regrouping
<1>8. Calm(j, n)
  <2>1. Unsettled(j, n) = {}
    BY <1>0, NoneUnsettled DEF Regrouping
  <2> QED
    BY <1>1, <1>3, <1>4, <2>1 DEF Calm, Regrouping
<1>9. \A q \in Pairs : idnTasks[q] # None => idnTasks'[q] # None
  <2>1. idnTasks'[p] # None
    BY <1>5, IdnNone
  <2> QED
    BY <1>5, <2>1
<1>10. /\ Placed' /\ Grouped' /\ Regrouped' /\ Counted' /\ Matched' /\ RunningHasACause'
       /\ \A q \in Pairs : Kept(q) => Kept(q)'
  BY <1>0, <1>1, <1>6, <1>7, <1>8, <1>9, ApplyingCalm
<1>11. Alone'
  BY <1>0, <1>1, <1>3, AloneStep
<1>12. Told'
  <2>1. ToldAt(j, n) /\ ToldOf(p)
    BY <1>0, <1>2 DEF Told
  <2>2. ToldAt(j, n)'
    BY <1>3 DEF ToldAt
  <2>3. \A k \in IdnJobs, m \in Tries : Applies(k)' => ToldAt(k, m)'
    BY <1>0, <1>1, <1>3, <1>10, <2>2, ToldTries
  <2>4. ASSUME NEW q \in Pairs PROVE Suppressing(q) => Suppressing(q)'
    BY <1>0, <1>1, <1>3, SuppressingStep
  <2>5. ASSUME NEW q \in Pairs, q # p PROVE ToldOf(q)'
    <3>1. ToldOf(q)
      BY <1>0 DEF Told
    <3> QED
      BY <1>0, <1>1, <1>4, <1>5, <1>6, <1>10, <2>4, <2>5, <3>1, ToldOfStep
  <2>6. ToldOf(p)'
    <3>1. idnCandidates'[p] \in {"confirmed", "rejected"}
      BY <1>a, <1>0, <1>1, <2>1 DEF ToldAt
    <3>2. \E d \in DecisionIds :
            On(d, p)' /\ (idnDecisions'[d].verdict = "reject" => p \in idnSuppressed')
      <4>1. On(Try(j, n).decision, p) /\ Try(j, n).decision \in DecisionIds
        BY <1>2
      <4>2. Verdict(j, n) = "reject" => p \in idnSuppressed
        BY <1>a, <1>0, <2>1 DEF ToldAt
      <4>3. PICK d \in DecisionIds : d = Try(j, n).decision
        BY <4>1
      <4>4. On(d, p) /\ (idnDecisions[d].verdict = "reject" => p \in idnSuppressed)
        BY <1>2, <4>1, <4>2, <4>3
      <4> QED
        BY <1>1, <4>4 DEF On
    <3>3. idnCandidates'[p] = "confirmed" =>
            (AskedFor(p, {"confirm"})' /\ Kept(p)') \/ AskedFor(p, {"merge"})'
      BY <1>1, <1>2, <1>10, <2>1, AskedStays DEF ToldOf
    <3>4. idnCandidates'[p] = "rejected" =>
            \/ AskedFor(p, {"split"})'
            \/ AskedFor(p, {"reject"})'
                 /\ (p \in idnSuppressed' \/ idnFaults' > 0 \/ Suppressing(p)')
      BY <1>1, <1>2, <2>1, <2>4, AskedStays DEF ToldOf
    <3>5. p \in idnSuppressed' => AskedFor(p, {"reject"})'
      BY <1>1, <2>1, AskedStays DEF ToldOf
    <3> QED
      BY <3>1, <3>2, <3>3, <3>4, <3>5 DEF ToldOf
  <2> QED
    BY <2>3, <2>5, <2>6 DEF Told
<1> QED
  BY <1>6, <1>10, <1>11, <1>12 DEF IdnInv

\* A try that fails or dies, wherever it is.
LEMMA FaultStep ==
  ASSUME IdnInv, NEW j \in IdnJobs, NEW n \in Tries, Throws(j, n) \/ Dies(j, n)
  PROVE  IdnInv'
<1>0. /\ Typed /\ Placed /\ Alone /\ Going(j, n) /\ PlacedAt(j, n)
      /\ idnFaults < MaxIdnFaults /\ idnFaults' = idnFaults + 1
  BY DEF IdnInv, Throws, Dies, Placed
<1>1. /\ UNCHANGED <<idnBook, idnDecisions, idnActors, idnRuns, idnOverlap, idnCandidates,
                     idnTasks, idnGroups, idnMembers, idnSuppressed>>
  BY DEF Throws, Dies, Others, tables
<1>2. idnFaults' \in 0..MaxIdnFaults /\ idnFaults <= idnFaults' /\ idnFaults' > 0
  BY <1>0, FaultFrame
<1>3. \/ Resolves(j) /\ ~Applies(j)
      \/ Applies(j) /\ ~Resolves(j)
  BY <1>0 DEF Placed, PlacedAt, Going
<1>4. PICK at \in {"fail", "next", "dead"} :
        /\ Steps(j, n) /\ Try(j, n)'.at = at /\ Try(j, n)'.decisions = Try(j, n).decisions
        /\ Resolves(j) => at \in {"fail", "dead"}
        /\ Applies(j) => at \in {"next", "dead"}
  <2>1. CASE To(j, n, "dead")
    <3>1. Steps(j, n) /\ Try(j, n)'.at = "dead" /\ Try(j, n)'.decisions = Try(j, n).decisions
      BY <1>0, <2>1, ToFrame DEF IdnPlaces, ResolvePlaces
    <3> QED
      BY <3>1
  <2>2. CASE Resolves(j) /\ To(j, n, "fail")
    <3>1. Steps(j, n) /\ Try(j, n)'.at = "fail" /\ Try(j, n)'.decisions = Try(j, n).decisions
      BY <1>0, <2>2, ToFrame DEF IdnPlaces, ResolvePlaces
    <3> QED
      BY <1>3, <2>2, <3>1
  <2>3. CASE ~Resolves(j) /\ NextDecision(j, n)
    <3>1. Steps(j, n) /\ Try(j, n)'.at = "next" /\ Try(j, n)'.decisions = Try(j, n).decisions
      BY <1>0, <2>3, NextDecisionFrame
    <3> QED
      BY <1>3, <2>3, <3>1
  <2> QED
    BY <2>1, <2>2, <2>3 DEF Throws, Dies
<1>5. Typed'
  BY <1>0, <1>1, <1>2, <1>4 DEF Typed, Steps
<1>6. PlacedAt(j, n)'
  <2>1. Resolves(j)' = Resolves(j) /\ Applies(j)' = Applies(j)
    BY <1>1, <1>4, StepsFrame
  <2> QED
    BY <1>0, <1>1, <1>3, <1>4, <2>1
       DEF PlacedAt, ResolvePlaces, ApplyPlaces, Deciding, Regrouping
<1>7. Calm(j, n)
  BY <1>1, <1>2, <1>4 DEF Calm, Regrouping
<1>8. CASE Resolves(j)
  <2>1. Try(j, n)'.at \notin {"next", "insertTask", "insertGroup", "done"}
    BY <1>4, <1>8
  <2> QED
    BY <1>1, <1>2, <1>5, <1>6, <1>7, <1>8, <2>1, ResolvingCalm
<1>9. CASE Applies(j)
  <2>1. /\ Placed' /\ Grouped' /\ Regrouped' /\ Counted' /\ Matched' /\ RunningHasACause'
        /\ \A p \in Pairs : Kept(p) => Kept(p)'
    BY <1>1, <1>5, <1>6, <1>7, <1>9, ApplyingCalm
  <2>2. Alone'
    BY <1>0, <1>1, <1>4, AloneStep
  <2>3. Told'
    <3>1. ToldAt(j, n)'
      BY <1>4 DEF ToldAt
    <3> QED
      BY <1>1, <1>2, <1>4, <1>5, <2>1, <3>1, ToldCalm
  <2> QED
    BY <1>5, <2>1, <2>2, <2>3 DEF IdnInv
<1> QED
  BY <1>3, <1>8, <1>9

(***************************************************************************)
(* Tries that are on groups                                                *)
(***************************************************************************)
LEMMA TogetherMeans ==
  ASSUME NEW p \in Pairs
  PROVE  /\ Together(p) <=> \E a, b \in Groups : /\ idnMembers[<<a, p[1]>>] # None
                                                 /\ idnMembers[<<a, p[1]>>]
                                                      = idnMembers[<<b, p[2]>>]
         /\ Together(p)' <=> \E a, b \in Groups : /\ idnMembers'[<<a, p[1]>>] # None
                                                  /\ idnMembers'[<<a, p[1]>>]
                                                       = idnMembers'[<<b, p[2]>>]
BY DEF Together, GroupsOf, RowsOf

LEMMA PairOf ==
  ASSUME NEW p \in Pairs
  PROVE  p[1] \in IdnCustomers /\ p[2] \in IdnCustomers /\ p[1] # p[2]
<1>1. p[1] \in Int /\ p[2] \in Int /\ p[1] < p[2]
  BY IdentityAssumption DEF Pairs
<1> QED
  BY <1>1 DEF Pairs

LEMMA RowsAreFinite ==
  ASSUME Typed, NEW g
  PROVE  /\ IsFiniteSet(RowsIn(g)) /\ Size(g) \in Nat
         /\ RowsIn(g) = {row \in Groups \X IdnCustomers : idnMembers[row] = g}
<1>1. IsFiniteSet(Groups)
  BY FS_Interval, IdentityAssumption DEF Groups
<1>2. IsFiniteSet(Groups \X IdnCustomers)
  BY <1>1, FS_Product, IdentityAssumption
<1>3. RowsIn(g) = {row \in Groups \X IdnCustomers : idnMembers[row] = g}
  BY DEF RowsIn, Typed
<1>4. IsFiniteSet(RowsIn(g))
  BY <1>2, <1>3, FS_Subset
<1> QED
  BY <1>3, <1>4, FS_CardinalityType DEF Size

LEMMA RowsAreFiniteNext ==
  ASSUME Typed', NEW g
  PROVE  IsFiniteSet(RowsIn(g)') /\ Size(g)' \in Nat
<1>1. IsFiniteSet(Groups)
  BY FS_Interval, IdentityAssumption DEF Groups
<1>2. IsFiniteSet(Groups \X IdnCustomers)
  BY <1>1, FS_Product, IdentityAssumption
<1>3. RowsIn(g)' \subseteq Groups \X IdnCustomers
  BY DEF RowsIn, Typed
<1>4. IsFiniteSet(RowsIn(g)')
  BY <1>2, <1>3, FS_Subset
<1> QED
  BY <1>4, FS_CardinalityType DEF Size

LEMMA RowsStay ==
  ASSUME Typed, Typed', NEW g,
         \A row \in Groups \X IdnCustomers : idnMembers'[row] = g <=> idnMembers[row] = g
  PROVE  RowsIn(g)' = RowsIn(g) /\ Size(g)' = Size(g)
<1>1. RowsIn(g)' = RowsIn(g)
  BY DEF RowsIn, Typed
<1> QED
  BY <1>1 DEF Size

\* The groups a try has in hand are groups.
LEMMA HoldsGroups ==
  ASSUME Placed, NEW j \in IdnJobs, NEW n \in Tries
  PROVE  Holds(j, n) \subseteq Groups
<1>1. PlacedAt(j, n)
  BY DEF Placed
<1> QED
  BY <1>1 DEF PlacedAt, Holds

\* What a step of one try on groups leaves of the others' and of the rest.
LEMMA GroupedWork ==
  ASSUME Typed, Placed, Grouped, NEW j \in IdnJobs, NEW n \in Tries, Steps(j, n),
         UNCHANGED idnDecisions, Try(j, n)'.at # "insertMembers",
         \A h \in Groups : \/ idnGroups'[h] = idnGroups[h]
                           \/ h \in Holds(j, n) /\ idnGroups'[h] # None,
         \A row \in Groups \X IdnCustomers :
           \/ idnMembers'[row] = idnMembers[row]
           \/ idnMembers[row] # None /\ idnMembers'[row] \in Holds(j, n) \cup {None},
         \A h \in Holds(j, n)' :
           \/ h \in Holds(j, n)
           \/ \E row \in Groups \X IdnCustomers : idnMembers[row] # None
                /\ h \in {row[1], idnMembers[row]}
  PROVE  Grouped'
<1>0. \A row \in Groups \X IdnCustomers : row[1] \in Groups
        /\ idnMembers[row] \in Groups \cup {None}
  BY DEF Typed
<1>1. \A h \in Groups : idnGroups[h] # None => idnGroups'[h] # None
  OBVIOUS
<1>2. \A h \in Holds(j, n) : h \in Groups /\ idnGroups[h] # None
  BY HoldsGroups DEF Grouped
<1>3. ASSUME NEW row \in Groups \X IdnCustomers, idnMembers'[row] # None
      PROVE  idnGroups'[row[1]] # None /\ idnGroups'[idnMembers'[row]] # None
  <2>1. CASE idnMembers'[row] = idnMembers[row]
    BY <1>0, <1>1, <1>3, <2>1 DEF Grouped
  <2>2. CASE idnMembers[row] # None /\ idnMembers'[row] \in Holds(j, n)
    BY <1>0, <1>1, <1>2, <2>2 DEF Grouped
  <2> QED
    BY <1>3, <2>1, <2>2
<1>4. \A h \in Holds(j, n)' : idnGroups'[h] # None
  BY <1>0, <1>1, <1>2 DEF Grouped
<1>5. ASSUME NEW k \in IdnJobs, NEW m \in Tries, <<k, m>> # <<j, n>>
      PROVE  /\ \A h \in Holds(k, m)' : idnGroups'[h] # None
             /\ Try(k, m)'.at = "insertMembers" => Owned(k, m)'
  <2>1. Try(k, m)' = Try(k, m) /\ Holds(k, m)' = Holds(k, m)
    BY <1>5, StepsFrame
  <2>2. \A h \in Holds(k, m)' : idnGroups'[h] # None
    BY <1>1, <2>1, HoldsGroups DEF Grouped
  <2>3. ASSUME Try(k, m)'.at = "insertMembers" PROVE Owned(k, m)'
    <3>0. PICK g : g = Try(k, m).groups[1]
      OBVIOUS
    <3>1. /\ Fresh(g) /\ \A i \in IdnJobs, l \in Tries : <<i, l>> # <<k, m>> => g \notin Holds(i, l)
      BY <2>1, <2>3, <3>0 DEF Grouped, Owned
    <3>2. g \in Groups /\ g \notin Holds(j, n)
      <4>1. g \in Holds(k, m)
        BY <2>1, <2>3, <3>0 DEF Holds
      <4> QED
        BY <1>5, <3>1, <4>1, HoldsGroups
    <3>3. \A row \in Groups \X IdnCustomers :
            idnMembers[row] # g /\ (row[1] = g => idnMembers[row] = None)
      BY <3>1 DEF Fresh
    <3>4. Fresh(g)'
      <4>1. idnGroups'[g] = 2
        BY <3>1, <3>2 DEF Fresh
      <4>2. ASSUME NEW row \in Groups \X IdnCustomers
            PROVE  idnMembers'[row] # g /\ (row[1] = g => idnMembers'[row] = None)
        BY <3>2, <3>3, IdnNone
      <4> QED
        BY <4>1, <4>2 DEF Fresh
    <3>5. g \notin Holds(j, n)'
      BY <3>2, <3>3
    <3>6. ASSUME NEW i \in IdnJobs, NEW l \in Tries, <<i, l>> # <<k, m>>
          PROVE  g \notin Holds(i, l)'
      <4>1. CASE <<i, l>> = <<j, n>>
        BY <3>5, <4>1
      <4>2. CASE <<i, l>> # <<j, n>>
        BY <3>1, <3>6, <4>2, StepsFrame
      <4> QED
        BY <4>1, <4>2
    <3>7. g = Try(k, m)'.groups[1]
      BY <2>1, <3>0
    <3> QED
      BY <3>4, <3>6, <3>7 DEF Owned
  <2> QED
    BY <2>2, <2>3
<1>6. ASSUME NEW k \in IdnJobs, NEW m \in Tries
      PROVE  /\ \A h \in Holds(k, m)' : idnGroups'[h] # None
             /\ Try(k, m)'.at = "insertMembers" => Owned(k, m)'
  <2>1. CASE <<k, m>> = <<j, n>>
    BY <1>4, <2>1
  <2>2. CASE <<k, m>> # <<j, n>>
    BY <1>5, <2>2
  <2> QED
    BY <2>1, <2>2
<1> QED
  BY <1>3, <1>6 DEF Grouped

LEMMA RegroupedAlone ==
  ASSUME Typed, Placed, Alone, NEW j \in IdnJobs, NEW n \in Tries, Steps(j, n),
         UNCHANGED <<idnDecisions, idnOverlap>>, Applies(j), Going(j, n),
         Try(j, n)'.at \in Regrouping /\ ~idnOverlap => RegroupedAt(j, n)'
  PROVE  Regrouped'
<1> SUFFICES ASSUME ~idnOverlap, NEW k \in IdnJobs, NEW m \in Tries, Try(k, m)'.at \in Regrouping
             PROVE  RegroupedAt(k, m)'
  BY DEF Regrouped
<1>1. CASE <<k, m>> = <<j, n>>
  BY <1>1
<1>2. CASE <<k, m>> # <<j, n>>
  <2>1. Try(k, m)' = Try(k, m)
    BY <1>2, StepsFrame
  <2>2. Applies(k) /\ Going(k, m)
    BY <2>1, ApplyingAt
  <2> QED
    BY <1>2, <2>2 DEF Alone
<1> QED
  BY <1>1, <1>2

\* What a new group and its rows leave of the groups that others work on.
LEMMA RegroupedOthers ==
  ASSUME Typed, Typed', Placed, Regrouped, NEW j \in IdnJobs, NEW n \in Tries, Steps(j, n),
         UNCHANGED <<idnDecisions, idnFaults, idnOverlap>>, Try(j, n)'.at \notin Regrouping,
         \A k \in IdnJobs, m \in Tries : <<k, m>> # <<j, n>> =>
           \A h \in Holds(k, m) :
             /\ RowsIn(h)' = RowsIn(h) /\ Size(h)' = Size(h) /\ idnGroups'[h] = idnGroups[h],
         \A row \in Groups \X IdnCustomers :
           idnMembers[row] # None => idnMembers'[row] = idnMembers[row]
  PROVE  Regrouped'
<1> SUFFICES ASSUME ~idnOverlap, NEW k \in IdnJobs, NEW m \in Tries, Try(k, m)'.at \in Regrouping
             PROVE  RegroupedAt(k, m)'
  BY DEF Regrouped
<1>0. <<k, m>> # <<j, n>>
  OBVIOUS
<1>1. /\ Try(k, m)' = Try(k, m) /\ Verdict(k, m)' = Verdict(k, m)
      /\ PairAt(k, m)' = PairAt(k, m)
  BY <1>0, StepsFrame
<1>2. RegroupedAt(k, m)
  BY <1>1 DEF Regrouped
<1> DEFINE g == Try(k, m).groups[1]
           h == Try(k, m).groups[2]
<1>3. g \in Holds(k, m) /\ h \in Holds(k, m) /\ g \in Groups /\ h \in Groups
  <2>1. Holds(k, m) = {g, h}
    BY <1>1 DEF Holds, Regrouping
  <2> QED
    BY <2>1, HoldsGroups
<1>a. PICK x \in Groups, y \in Groups : x = g /\ y = h
  BY <1>3
<1>4. /\ RowsIn(x)' = RowsIn(x) /\ Size(x)' = Size(x) /\ idnGroups'[x] = idnGroups[x]
      /\ RowsIn(y)' = RowsIn(y)
  BY <1>0, <1>3, <1>a
<1>5. Try(k, m).at = "deleteRow" => idnMembers'[<<y, PairAt(k, m)[2]>>] = x
  <2> SUFFICES ASSUME Try(k, m).at = "deleteRow"
               PROVE  idnMembers'[<<y, PairAt(k, m)[2]>>] = x
    OBVIOUS
  <2>1. PairAt(k, m) \in Pairs
    BY ApplyingAt, DecisionAt DEF Regrouping
  <2>2. PICK c \in IdnCustomers : c = PairAt(k, m)[2]
    BY <2>1, PairOf
  <2>3. idnMembers[<<y, c>>] = x
    BY <1>2, <1>a, <2>2 DEF RegroupedAt
  <2>4. x # None
    BY IdnNone
  <2> QED
    BY <2>2, <2>3, <2>4
<1> QED
  BY <1>1, <1>2, <1>4, <1>5, <1>a DEF RegroupedAt

\* Groups that a step leaves miscounted are its try's to settle.
LEMMA CountedWork ==
  ASSUME Counted, NEW j \in IdnJobs, NEW n \in Tries, Steps(j, n),
         UNCHANGED <<idnDecisions, idnFaults, idnOverlap>>,
         idnFaults = 0 /\ ~idnOverlap =>
           \A h \in Groups : idnGroups'[h] \notin {None, Gone} =>
             \/ h \in Unsettled(j, n)'
             \/ Exact(h)'
             \/ h \notin Unsettled(j, n) /\ idnGroups'[h] = idnGroups[h] /\ Size(h)' = Size(h)
  PROVE  Counted'
<1> SUFFICES ASSUME idnFaults = 0, ~idnOverlap, NEW h \in Groups,
                    idnGroups'[h] \notin {None, Gone}, ~Exact(h)'
             PROVE  \E k \in IdnJobs, m \in Tries : h \in Unsettled(k, m)'
  BY DEF Counted
<1>1. CASE h \in Unsettled(j, n)'
  BY <1>1
<1>2. CASE h \notin Unsettled(j, n) /\ idnGroups'[h] = idnGroups[h] /\ Size(h)' = Size(h)
  <2>1. ~Exact(h)
    BY <1>2 DEF Exact
  <2>2. PICK k \in IdnJobs, m \in Tries : h \in Unsettled(k, m)
    BY <1>2, <2>1 DEF Counted
  <2>3. h \in Unsettled(k, m)'
    BY <1>2, <2>2, StepsFrame
  <2> QED
    BY <2>3
<1> QED
  BY <1>1, <1>2

\* A group that a lone try holds and has not begun to change is counted.
LEMMA OnlyUnsettled ==
  ASSUME Typed, Placed, Grouped, Alone, Counted, NEW j \in IdnJobs, NEW n \in Tries,
         Applies(j), Going(j, n), idnFaults = 0, ~idnOverlap,
         NEW h \in Holds(j, n), h \notin Unsettled(j, n), idnGroups[h] # Gone
  PROVE  Exact(h)
<1>1. h \in Groups /\ idnGroups[h] # None
  BY HoldsGroups DEF Grouped
<1> SUFFICES ASSUME NEW k \in IdnJobs, NEW m \in Tries, h \in Unsettled(k, m)
             PROVE  FALSE
  BY <1>1 DEF Counted
<1>2. <<k, m>> # <<j, n>>
  OBVIOUS
<1>3. CASE Try(k, m).at = "insertMembers"
  <2>1. Unsettled(k, m) = {Try(k, m).groups[1]}
    BY <1>3 DEF Unsettled
  <2> QED
    BY <1>2, <1>3, <2>1 DEF Grouped, Owned
<1>4. CASE Try(k, m).at \in Regrouping
  <2>1. Applies(k) /\ Going(k, m)
    BY <1>4, ApplyingAt
  <2> QED
    BY <1>2, <2>1 DEF Alone
<1> QED
  BY <1>3, <1>4, NoneUnsettled

\* All of it, for a step of a try that is on groups.
LEMMA WorkStep ==
  ASSUME IdnInv, Typed', NEW j \in IdnJobs, NEW n \in Tries, Steps(j, n),
         UNCHANGED <<idnDecisions, idnRuns, idnCandidates, idnTasks, idnSuppressed, idnFaults,
                     idnOverlap>>,
         PlacedAt(j, n)', Grouped', Regrouped', Counted',
         \A p \in Pairs : Kept(p) => Kept(p)',
         Going(j, n), Going(j, n)', Try(j, n).at # "suppress",
         Resolves(j) /\ Try(j, n)'.at \in {"next", "insertMembers"} => MatchedAt(j, n)',
         Resolves(j) => Try(j, n)'.at \notin {"insertTask", "insertGroup", "done"},
         Applies(j) => ToldAt(j, n)'
  PROVE  IdnInv'
<1>0. /\ Typed /\ Placed /\ Alone /\ Matched /\ RunningHasACause
  BY DEF IdnInv
<1>1. idnFaults <= idnFaults'
  BY <1>0, FaultsStay
<1>2. Placed'
  BY <1>0, PlacedStep
<1>3. Alone'
  BY <1>0, AloneStep
<1>4. Matched'
  BY <1>0, MatchedStep
<1>5. Told'
  BY <1>1, ToldCalm
<1>6. RunningHasACause'
  BY <1>0, <1>1, CausesStep
<1> QED
  BY <1>2, <1>3, <1>4, <1>5, <1>6 DEF IdnInv

\* A try goes on with its decision, on the same groups.
LEMMA RegroupTo ==
  ASSUME Typed, Placed, NEW j \in IdnJobs, NEW n \in Tries, Try(j, n).at \in Regrouping,
         Steps(j, n), UNCHANGED idnDecisions, NEW at \in Regrouping, Try(j, n)'.at = at,
         Try(j, n)'.decisions = Try(j, n).decisions, Try(j, n)'.decision = Try(j, n).decision,
         Try(j, n)'.groups = Try(j, n).groups, Verdict(j, n) \in VerdictsAt(at)
  PROVE  /\ PlacedAt(j, n)' /\ Verdict(j, n)' = Verdict(j, n) /\ PairAt(j, n)' = PairAt(j, n)
         /\ Holds(j, n)' = Holds(j, n) /\ Going(j, n)' /\ Applies(j) /\ ToldAt(j, n)'
<1>1. /\ Applies(j) /\ ~Resolves(j) /\ Try(j, n).at \in Deciding /\ PlacedAt(j, n)
  BY ApplyingAt
<1>2. Resolves(j)' = Resolves(j) /\ Applies(j)' = Applies(j)
  BY StepsFrame
<1>3. Verdict(j, n)' = Verdict(j, n) /\ PairAt(j, n)' = PairAt(j, n)
  BY <1>1, <1>2 DEF Verdict, PairAt
<1>4. at \in Deciding /\ at \in ApplyPlaces /\ at # "insertMembers"
        /\ at \notin {"none", "done", "failed", "dead"}
      /\ at \notin {"setCandidate", "suppress", "resolve"}
  BY DEF Deciding, ApplyPlaces, Regrouping
<1>5. Holds(j, n)' = Holds(j, n)
  BY <1>4 DEF Holds, Regrouping
<1>6. /\ Try(j, n).decision \in DecisionIds /\ idnDecisions[Try(j, n).decision] # None
      /\ \A d \in Try(j, n).decisions : idnDecisions[d] # None
      /\ Try(j, n).groups[1] \in Groups /\ Try(j, n).groups[2] \in Groups
      /\ Verdict(j, n) = "merge" => Try(j, n).groups[1] # Try(j, n).groups[2]
  BY <1>1 DEF PlacedAt
<1>7. PlacedAt(j, n)'
  BY <1>1, <1>2, <1>3, <1>4, <1>6 DEF PlacedAt
<1>8. Going(j, n)' /\ ToldAt(j, n)'
  BY <1>4 DEF Going, ToldAt
<1> QED
  BY <1>1, <1>3, <1>5, <1>7, <1>8

\* Where a try on two groups is, and on which.
LEMMA RegroupingAt ==
  ASSUME IdnInv, NEW j \in IdnJobs, NEW n \in Tries, Try(j, n).at \in Regrouping
  PROVE  /\ Applies(j) /\ ~Resolves(j) /\ Going(j, n) /\ Try(j, n).at \in Deciding
         /\ Try(j, n) \in IdnTry /\ Verdict(j, n) \in VerdictsAt(Try(j, n).at)
         /\ PairAt(j, n) \in Pairs /\ AskedFor(PairAt(j, n), {Verdict(j, n)})
         /\ Try(j, n).groups[1] \in Groups /\ Try(j, n).groups[2] \in Groups
         /\ Verdict(j, n) = "merge" => Try(j, n).groups[1] # Try(j, n).groups[2]
         /\ Holds(j, n) = {Try(j, n).groups[1], Try(j, n).groups[2]}
         /\ ~idnOverlap => RegroupedAt(j, n)
         /\ idnGroups[Try(j, n).groups[1]] # None /\ idnGroups[Try(j, n).groups[2]] # None
<1>0. Typed /\ Placed /\ Grouped /\ Regrouped
  BY DEF IdnInv
<1>1. /\ Applies(j) /\ ~Resolves(j) /\ Going(j, n) /\ Try(j, n).at \in Deciding
      /\ PlacedAt(j, n)
  BY <1>0, ApplyingAt
<1>2. /\ Try(j, n) \in IdnTry /\ PairAt(j, n) \in Pairs /\ AskedFor(PairAt(j, n), {Verdict(j, n)})
  BY <1>0, <1>1, TryTyped, DecisionAt
<1>3. Holds(j, n) = {Try(j, n).groups[1], Try(j, n).groups[2]}
  BY DEF Holds, Regrouping
<1>4. ~idnOverlap => RegroupedAt(j, n)
  BY <1>0 DEF Regrouped
<1>5. idnGroups[Try(j, n).groups[1]] # None /\ idnGroups[Try(j, n).groups[2]] # None
  BY <1>0, <1>3 DEF Grouped
<1> QED
  BY <1>1, <1>2, <1>3, <1>4, <1>5 DEF PlacedAt

LEMMA CountRowsStep ==
  ASSUME IdnInv, NEW j \in IdnJobs, NEW n \in Tries, CountRows(j, n)
  PROVE  IdnInv'
<1>0. /\ Typed /\ Placed /\ Grouped /\ Alone /\ Regrouped /\ Counted
      /\ Try(j, n).at = "count" /\ Try(j, n).at \in Regrouping
  BY DEF IdnInv, CountRows, Regrouping
<1>1. /\ Applies(j) /\ ~Resolves(j) /\ Going(j, n) /\ Try(j, n) \in IdnTry
      /\ Verdict(j, n) \in {"merge", "split"} /\ (~idnOverlap => RegroupedAt(j, n))
  BY <1>0, RegroupingAt DEF VerdictsAt
<1>a. PICK g \in Groups, h \in Groups :
        g = Try(j, n).groups[1] /\ h = Try(j, n).groups[2]
  BY <1>0, RegroupingAt
<1>2. Size(g) \in Nat /\ IsFiniteSet(RowsIn(g))
  BY <1>0, RowsAreFinite
<1>b. PICK at \in {"setCount", "deleteRows"} :
        /\ at = IF Verdict(j, n) = "split" /\ Size(g) <= 1 THEN "deleteRows" ELSE "setCount"
  OBVIOUS
<1> DEFINE try == [Try(j, n) EXCEPT !.count = Size(g), !.at = at]
<1>3. /\ Move(j, n, try)
      /\ UNCHANGED <<idnBook, idnDecisions, idnActors, idnRuns, idnFaults, idnOverlap,
                     idnCandidates, idnTasks, idnGroups, idnMembers, idnSuppressed>>
  BY <1>a, <1>b DEF CountRows, Others, tables, Size
<1>4. /\ try \in IdnTry /\ try.at = at /\ try.decisions = Try(j, n).decisions
      /\ try.decision = Try(j, n).decision /\ try.groups = Try(j, n).groups /\ try.count = Size(g)
  BY <1>1, <1>2 DEF IdnTry, IdnPlaces, ApplyPlaces, Deciding, Regrouping
<1> HIDE DEF try
<1>5. Steps(j, n) /\ Try(j, n)' = try
  BY <1>0, <1>3, <1>4, MoveFrame DEF Try
<1>6. idnFaults' \in 0..MaxIdnFaults /\ idnFaults <= idnFaults'
  BY <1>0, <1>3, FaultsStay
<1>7. Typed'
  BY <1>0, <1>3, <1>5, <1>6 DEF Typed, Steps
<1>8. /\ PlacedAt(j, n)' /\ Verdict(j, n)' = Verdict(j, n)
      /\ Holds(j, n)' = Holds(j, n) /\ Going(j, n)' /\ ToldAt(j, n)'
  <2>1. Verdict(j, n) \in VerdictsAt(at) /\ at \in Regrouping
    BY <1>1, <1>b DEF VerdictsAt, Regrouping
  <2> QED
    BY <1>0, <1>3, <1>4, <1>5, <2>1, RegroupTo
<1>9. Grouped'
  BY <1>0, <1>3, <1>4, <1>5, <1>8, GroupedStep
<1>10. \A x : RowsIn(x)' = RowsIn(x) /\ Size(x)' = Size(x)
  BY <1>3 DEF RowsIn, Size
<1>11. Regrouped'
  <2>1. ASSUME ~idnOverlap PROVE RegroupedAt(j, n)'
    <3>1. RegroupedAt(j, n)
      BY <1>1, <2>1
    <3>2. at = "deleteRows" => \A r, s \in RowsIn(g) : r = s
      <4>1. at = "deleteRows" => Size(g) = 0 \/ Size(g) = 1
        BY <1>2, <1>b
      <4>2. Size(g) = 0 => RowsIn(g) = {}
        BY <1>2, FS_EmptySet DEF Size
      <4>3. Size(g) = 1 => \E r : RowsIn(g) = {r}
        BY <1>2, FS_Singleton DEF Size
      <4> QED
        BY <4>1, <4>2, <4>3
    <3>3. at = "setCount" /\ Verdict(j, n) # "merge" => Size(g) >= 2
      BY <1>1, <1>2, <1>b
    <3>4. Verdict(j, n) = "merge" => RowsIn(h) = {}
      BY <1>0, <1>a, <3>1 DEF RegroupedAt
    <3>5. Verdict(j, n) = "merge" /\ idnFaults = 0 /\ idnGroups[g] # Gone => Size(g) >= 2
      BY <1>0, <1>a, <3>1 DEF RegroupedAt
    <3>6. at \in {"setCount", "deleteRows"} /\ (at = "deleteRows" => Verdict(j, n) # "merge")
      BY <1>b
    <3>7. g = Try(j, n)'.groups[1] /\ h = Try(j, n)'.groups[2] /\ Try(j, n)'.count = Size(g)
          /\ Try(j, n)'.at = at
      BY <1>4, <1>5, <1>a
    <3> QED
      BY <1>3, <1>8, <1>10, <3>2, <3>3, <3>4, <3>5, <3>6, <3>7 DEF RegroupedAt
  <2> QED
    BY <1>0, <1>1, <1>3, <1>5, <2>1, RegroupedAlone
<1>12. Counted'
  <2>1. Unsettled(j, n) \subseteq Unsettled(j, n)'
    <3>1. g = Try(j, n)'.groups[1] /\ h = Try(j, n)'.groups[2] /\ Try(j, n)'.at = at
      BY <1>4, <1>5, <1>a
    <3>2. Unsettled(j, n) = IF Verdict(j, n) = "merge" THEN {g, h} ELSE {g}
      BY <1>0, <1>a DEF Unsettled
    <3>3. CASE at = "deleteRows"
      <4>1. Unsettled(j, n)' = {g} /\ Verdict(j, n) # "merge"
        BY <1>b, <3>1, <3>3 DEF Unsettled
      <4> QED
        BY <3>2, <4>1
    <3>4. CASE at = "setCount"
      BY <1>8, <3>1, <3>2, <3>4 DEF Unsettled
    <3> QED
      BY <3>3, <3>4
  <2> QED
    BY <1>0, <1>3, <1>5, <1>6, <1>7, <2>1, CountedStep
<1>13. ASSUME NEW p \in Pairs, Kept(p) PROVE Kept(p)'
  <2>1. Together(p) => Together(p)'
    BY <1>3 DEF Together, GroupsOf, RowsOf
  <2> QED
    BY <1>3, <1>13, <2>1, KeptStays
<1>14. Try(j, n).at # "suppress"
  BY <1>0
<1> QED
  BY <1>1, <1>3, <1>5, <1>7, <1>8, <1>9, <1>11, <1>12, <1>13, <1>14, WorkStep

LEMMA SetCountStep ==
  ASSUME IdnInv, NEW j \in IdnJobs, NEW n \in Tries, SetCount(j, n)
  PROVE  IdnInv'
<1>0. /\ Typed /\ Placed /\ Grouped /\ Alone /\ Regrouped /\ Counted
      /\ Try(j, n).at = "setCount" /\ Try(j, n).at \in Regrouping
  BY DEF IdnInv, SetCount, Regrouping
<1>1. /\ Applies(j) /\ ~Resolves(j) /\ Going(j, n) /\ Try(j, n) \in IdnTry
      /\ Try(j, n).at \in Deciding
      /\ Verdict(j, n) \in {"merge", "split"} /\ (~idnOverlap => RegroupedAt(j, n))
  BY <1>0, RegroupingAt DEF VerdictsAt
<1>a. PICK g \in Groups, h \in Groups :
        /\ g = Try(j, n).groups[1] /\ h = Try(j, n).groups[2] /\ Holds(j, n) = {g, h}
        /\ (Verdict(j, n) = "merge" => g # h) /\ idnGroups[g] # None
  BY <1>0, RegroupingAt
<1>b. PICK c \in Nat : c = Try(j, n).count
  BY <1>1 DEF IdnTry
<1>c. PICK at \in {"deleteGroup", "setCandidate"} :
        at = IF Verdict(j, n) = "merge" THEN "deleteGroup" ELSE "setCandidate"
  OBVIOUS
<1>3. /\ To(j, n, at)
      /\ idnGroups' = IF idnGroups[g] = Gone THEN idnGroups ELSE [idnGroups EXCEPT ![g] = c]
      /\ UNCHANGED <<idnBook, idnDecisions, idnActors, idnRuns, idnFaults, idnOverlap,
                     idnCandidates, idnTasks, idnMembers, idnSuppressed>>
  BY <1>a, <1>b, <1>c DEF SetCount, Others
<1>4. /\ idnGroups' \in [Groups -> Nat \cup {None, Gone}]
      /\ idnGroups[g] = Gone => idnGroups'[g] = Gone
      /\ idnGroups[g] # Gone => idnGroups'[g] = c
      /\ \A x \in Groups : x # g => idnGroups'[x] = idnGroups[x]
  BY <1>0, <1>3 DEF Typed
<1>5. /\ Steps(j, n) /\ Try(j, n)'.at = at /\ Try(j, n)'.decisions = Try(j, n).decisions
      /\ Try(j, n)'.decision = Try(j, n).decision /\ Try(j, n)'.groups = Try(j, n).groups
  BY <1>0, <1>3, ToFrame DEF IdnPlaces, ApplyPlaces, Deciding, Regrouping
<1>6. idnFaults' \in 0..MaxIdnFaults /\ idnFaults <= idnFaults'
  BY <1>0, <1>3, FaultsStay
<1>7. Typed'
  BY <1>0, <1>3, <1>4, <1>5, <1>6 DEF Typed, Steps
<1>8. /\ PlacedAt(j, n)' /\ Verdict(j, n)' = Verdict(j, n) /\ Going(j, n)' /\ ToldAt(j, n)'
      /\ Holds(j, n)' \subseteq Holds(j, n)
  <2>1. CASE Verdict(j, n) = "merge"
    <3>1. at \in Regrouping /\ Verdict(j, n) \in VerdictsAt(at)
      BY <1>c, <2>1 DEF Regrouping, VerdictsAt
    <3> QED
      BY <1>0, <1>3, <1>5, <3>1, RegroupTo
  <2>2. CASE Verdict(j, n) # "merge"
    <3>1. at = "setCandidate" /\ Verdict(j, n) = "split"
      BY <1>1, <1>c, <2>2
    <3>2. Verdict(j, n) \in VerdictsAt(at)
      BY <3>1 DEF VerdictsAt, Verdicts
    <3>3. PlacedAt(j, n)' /\ Verdict(j, n)' = Verdict(j, n)
      BY <1>0, <1>1, <1>3, <3>1, <3>2, ApplyTo
    <3>4. Going(j, n)' /\ ToldAt(j, n)' /\ Holds(j, n)' = {}
      BY <1>5, <3>1, <3>3 DEF Going, ToldAt, Holds, Regrouping
    <3> QED
      BY <3>3, <3>4
  <2> QED
    BY <2>1, <2>2
<1>9. Grouped'
  <2>1. \A x \in Groups : \/ idnGroups'[x] = idnGroups[x]
                          \/ x \in Holds(j, n) /\ idnGroups'[x] # None
    BY <1>a, <1>4, IdnNone
  <2>2. Try(j, n)'.at # "insertMembers"
    BY <1>5
  <2> QED
    BY <1>0, <1>3, <1>5, <1>8, <2>1, <2>2, GroupedWork
<1>10. \A x : RowsIn(x)' = RowsIn(x) /\ Size(x)' = Size(x)
  BY <1>3 DEF RowsIn, Size
<1>d. g = Try(j, n)'.groups[1] /\ h = Try(j, n)'.groups[2]
  BY <1>5, <1>a
<1>11. Regrouped'
  <2>1. ASSUME ~idnOverlap, at \in Regrouping PROVE RegroupedAt(j, n)'
    <3>1. RegroupedAt(j, n)
      BY <1>1, <2>1
    <3>2. at = "deleteGroup" /\ Verdict(j, n) = "merge"
      BY <1>c, <2>1 DEF Regrouping
    <3>3. RowsIn(h) = {}
      BY <1>0, <1>a, <3>1, <3>2 DEF RegroupedAt
    <3> QED
      BY <1>5, <1>8, <1>10, <1>d, <3>2, <3>3 DEF RegroupedAt
  <2> QED
    BY <1>0, <1>1, <1>3, <1>5, <2>1, RegroupedAlone
<1>12. Counted'
  <2>1. ASSUME idnFaults = 0, ~idnOverlap, NEW x \in Groups, idnGroups'[x] \notin {None, Gone}
        PROVE  \/ x \in Unsettled(j, n)'
               \/ Exact(x)'
               \/ x \notin Unsettled(j, n) /\ idnGroups'[x] = idnGroups[x] /\ Size(x)' = Size(x)
    <3>1. CASE x = g
      <4>1. idnGroups[g] # Gone /\ idnGroups'[g] = c
        BY <1>4, <2>1, <3>1
      <4>2. c = Size(g) /\ Size(g) >= 2
        BY <1>0, <1>1, <1>a, <1>b, <2>1, <4>1 DEF RegroupedAt
      <4> QED
        BY <1>10, <3>1, <4>1, <4>2 DEF Exact
    <3>2. CASE x # g /\ x = h /\ Verdict(j, n) = "merge"
      <4>1. Unsettled(j, n)' = {h}
        BY <1>5, <1>8, <1>c, <1>d, <3>2 DEF Unsettled
      <4> QED
        BY <3>2, <4>1
    <3>3. CASE x # g /\ ~(x = h /\ Verdict(j, n) = "merge")
      <4>1. Unsettled(j, n) = IF Verdict(j, n) = "merge" THEN {g, h} ELSE {g}
        BY <1>0, <1>a DEF Unsettled
      <4> QED
        BY <1>4, <1>10, <3>3, <4>1
    <3> QED
      BY <3>1, <3>2, <3>3
  <2> QED
    BY <1>0, <1>3, <1>5, <2>1, CountedWork
<1>13. ASSUME NEW p \in Pairs, Kept(p) PROVE Kept(p)'
  <2>1. Together(p) => Together(p)'
    BY <1>3 DEF Together, GroupsOf, RowsOf
  <2> QED
    BY <1>3, <1>13, <2>1, KeptStays
<1>14. Try(j, n).at # "suppress"
  BY <1>0
<1> QED
  BY <1>1, <1>3, <1>5, <1>7, <1>8, <1>9, <1>11, <1>12, <1>13, <1>14, WorkStep

LEMMA DeleteRowStep ==
  ASSUME IdnInv, NEW j \in IdnJobs, NEW n \in Tries, DeleteRow(j, n)
  PROVE  IdnInv'
<1>0. /\ Typed /\ Placed /\ Grouped /\ Alone /\ Regrouped /\ Counted
      /\ Try(j, n).at = "deleteRow" /\ Try(j, n).at \in Regrouping
  BY DEF IdnInv, DeleteRow, Regrouping
<1>1. /\ Applies(j) /\ ~Resolves(j) /\ Going(j, n)
      /\ Verdict(j, n) = "split" /\ (~idnOverlap => RegroupedAt(j, n))
  BY <1>0, RegroupingAt DEF VerdictsAt
<1>a. PICK g \in Groups, h \in Groups :
        g = Try(j, n).groups[1] /\ h = Try(j, n).groups[2] /\ Holds(j, n) = {g, h}
  BY <1>0, RegroupingAt
<1>b. PICK p \in Pairs : p = PairAt(j, n) /\ AskedFor(p, {"split"})
  <2>1. PairAt(j, n) \in Pairs /\ AskedFor(PairAt(j, n), {"split"})
    <3>1. AskedFor(PairAt(j, n), {Verdict(j, n)}) /\ PairAt(j, n) \in Pairs
      BY <1>0, RegroupingAt
    <3> QED
      BY <1>1, <3>1
  <2> QED
    BY <2>1
<1>c. PICK c \in IdnCustomers : c = p[2]
  BY PairOf
<1>3. /\ To(j, n, "count") /\ idnMembers' = [idnMembers EXCEPT ![<<h, c>>] = None]
      /\ UNCHANGED <<idnBook, idnDecisions, idnActors, idnRuns, idnFaults, idnOverlap,
                     idnCandidates, idnTasks, idnGroups, idnSuppressed>>
  BY <1>a, <1>b, <1>c DEF DeleteRow, Others
<1>4. /\ idnMembers' \in [Groups \X IdnCustomers -> Groups \cup {None}]
      /\ idnMembers'[<<h, c>>] = None /\ <<h, c>> \in Groups \X IdnCustomers
      /\ \A row \in Groups \X IdnCustomers : row # <<h, c>> => idnMembers'[row] = idnMembers[row]
  BY <1>0, <1>3 DEF Typed
<1>5. /\ Steps(j, n) /\ Try(j, n)'.at = "count" /\ Try(j, n)'.decisions = Try(j, n).decisions
      /\ Try(j, n)'.decision = Try(j, n).decision /\ Try(j, n)'.groups = Try(j, n).groups
  BY <1>0, <1>3, ToFrame DEF IdnPlaces, ApplyPlaces, Deciding, Regrouping
<1>6. idnFaults' \in 0..MaxIdnFaults /\ idnFaults <= idnFaults'
  BY <1>0, <1>3, FaultsStay
<1>7. Typed'
  BY <1>0, <1>3, <1>4, <1>5, <1>6 DEF Typed, Steps
<1>8. /\ PlacedAt(j, n)' /\ Verdict(j, n)' = Verdict(j, n) /\ Going(j, n)' /\ ToldAt(j, n)'
      /\ Holds(j, n)' = Holds(j, n)
  <2>1. "count" \in Regrouping /\ Verdict(j, n) \in VerdictsAt("count")
    BY <1>1 DEF Regrouping, VerdictsAt
  <2> QED
    BY <1>0, <1>3, <1>5, <2>1, RegroupTo
<1>9. Grouped'
  <2>1. \A row \in Groups \X IdnCustomers :
           \/ idnMembers'[row] = idnMembers[row]
           \/ idnMembers[row] # None /\ idnMembers'[row] \in Holds(j, n) \cup {None}
    BY <1>4
  <2>2. Try(j, n)'.at # "insertMembers"
    BY <1>5
  <2> QED
    BY <1>0, <1>3, <1>5, <1>8, <2>1, <2>2, GroupedWork
<1>d. g = Try(j, n)'.groups[1] /\ h = Try(j, n)'.groups[2]
  BY <1>5, <1>a
<1>11. Regrouped'
  <2>1. RegroupedAt(j, n)'
    BY <1>1, <1>5, <1>8 DEF RegroupedAt
  <2> QED
    BY <1>0, <1>1, <1>3, <1>5, <2>1, RegroupedAlone
<1>12. Counted'
  <2>1. ASSUME idnFaults = 0, ~idnOverlap, NEW x \in Groups, idnGroups'[x] \notin {None, Gone}
        PROVE  \/ x \in Unsettled(j, n)'
               \/ Exact(x)'
               \/ x \notin Unsettled(j, n) /\ idnGroups'[x] = idnGroups[x] /\ Size(x)' = Size(x)
    <3>1. CASE x = g
      BY <1>1, <1>5, <1>8, <1>d, <3>1 DEF Unsettled
    <3>2. CASE x # g
      <4>1. idnMembers[<<h, c>>] = g
        BY <1>0, <1>1, <1>a, <1>b, <1>c, <2>1 DEF RegroupedAt
      <4>2. \A row \in Groups \X IdnCustomers : idnMembers'[row] = x <=> idnMembers[row] = x
        BY <1>4, <3>2, <4>1, IdnNone
      <4>3. Size(x)' = Size(x)
        BY <1>0, <1>7, <4>2, RowsStay
      <4>4. Unsettled(j, n) = {}
        BY <1>0, NoneUnsettled
      <4> QED
        BY <1>3, <4>3, <4>4
    <3> QED
      BY <3>1, <3>2
  <2> QED
    BY <1>0, <1>3, <1>5, <2>1, CountedWork
<1>13. ASSUME NEW q \in Pairs, Kept(q) PROVE Kept(q)'
  <2>1. CASE q[1] = c \/ q[2] = c
    <3>1. AskedFor(p, {"split"})'
      BY <1>3, <1>b, AskedStays
    <3>2. SplitAsked(q)'
      BY <1>c, <2>1, <3>1 DEF SplitAsked
    <3> QED
      BY <3>2 DEF Kept
  <2>2. CASE q[1] # c /\ q[2] # c
    <3>1. q[1] \in IdnCustomers /\ q[2] \in IdnCustomers
      BY PairOf
    <3>2. Together(q) => Together(q)'
      <4> SUFFICES ASSUME Together(q) PROVE Together(q)'
        OBVIOUS
      <4>1. PICK a \in Groups, b \in Groups :
              idnMembers[<<a, q[1]>>] # None /\ idnMembers[<<a, q[1]>>] = idnMembers[<<b, q[2]>>]
        BY TogetherMeans
      <4>2. /\ idnMembers'[<<a, q[1]>>] = idnMembers[<<a, q[1]>>]
            /\ idnMembers'[<<b, q[2]>>] = idnMembers[<<b, q[2]>>]
        BY <1>4, <2>2, <3>1
      <4> QED
        BY <4>1, <4>2, TogetherMeans
    <3> QED
      BY <1>3, <1>13, <3>2, KeptStays
  <2> QED
    BY <2>1, <2>2
<1>14. Try(j, n).at # "suppress"
  BY <1>0
<1> QED
  BY <1>1, <1>3, <1>5, <1>7, <1>8, <1>9, <1>11, <1>12, <1>13, <1>14, WorkStep

LEMMA MoveRowsStep ==
  ASSUME IdnInv, NEW j \in IdnJobs, NEW n \in Tries, MoveRows(j, n)
  PROVE  IdnInv'
<1>0. /\ Typed /\ Placed /\ Grouped /\ Alone /\ Regrouped /\ Counted
      /\ Try(j, n).at = "move" /\ Try(j, n).at \in Regrouping
  BY DEF IdnInv, MoveRows, Regrouping
<1>1. /\ Applies(j) /\ ~Resolves(j) /\ Going(j, n)
      /\ Verdict(j, n) = "merge" /\ PlacedAt(j, n)
  BY <1>0, RegroupingAt DEF VerdictsAt, Placed
<1>2. /\ Try(j, n).groups[1] \in Groups /\ Try(j, n).groups[2] \in Groups
      /\ Try(j, n).groups[1] # Try(j, n).groups[2]
      /\ Holds(j, n) = {Try(j, n).groups[1], Try(j, n).groups[2]}
      /\ idnGroups[Try(j, n).groups[1]] # None
  BY <1>0, <1>1, RegroupingAt
<1>a. PICK keep \in Groups, h \in Groups :
        /\ keep = Try(j, n).groups[1] /\ h = Try(j, n).groups[2] /\ Holds(j, n) = {keep, h}
        /\ keep # h /\ idnGroups[keep] # None
  BY <1>2
<1> DEFINE moved == [row \in DOMAIN idnMembers |->
                       IF row \in RowsIn(h) THEN keep ELSE idnMembers[row]]
<1>8. UNCHANGED <<idnBook, idnDecisions, idnActors, idnRuns, idnFaults, idnOverlap,
                  idnCandidates, idnTasks, idnGroups, idnSuppressed>>
  BY DEF MoveRows, Others
<1>3. \/ idnMembers' = moved /\ To(j, n, "count")
      \/ UNCHANGED idnMembers /\ NextDecision(j, n)
  BY <1>a DEF MoveRows
<1>4. idnFaults' \in 0..MaxIdnFaults /\ idnFaults <= idnFaults'
  BY <1>0, <1>8, FaultsStay
<1>5. Unsettled(j, n) = {} /\ Try(j, n).at # "suppress"
  BY <1>0, NoneUnsettled
<1>6. CASE UNCHANGED idnMembers /\ NextDecision(j, n)
  <2>1. /\ Steps(j, n) /\ Try(j, n)'.at = "next" /\ Try(j, n)'.decisions = Try(j, n).decisions
    BY <1>0, <1>6, NextDecisionFrame
  <2>2. Typed'
    BY <1>0, <1>8, <1>4, <1>6, <2>1 DEF Typed, Steps
  <2>3. PlacedAt(j, n)'
    <3>1. Resolves(j)' = Resolves(j) /\ Applies(j)' = Applies(j)
      BY <1>8, <2>1, StepsFrame
    <3> QED
      BY <1>1, <1>8, <2>1, <3>1 DEF PlacedAt, ApplyPlaces, Deciding, Regrouping
  <2>4. Calm(j, n)
    BY <1>8, <1>4, <1>5, <1>6, <2>1 DEF Calm, Regrouping
  <2>5. /\ Grouped' /\ Regrouped' /\ Counted' /\ \A q \in Pairs : Kept(q) => Kept(q)'
    BY <2>2, <2>3, <2>4, CalmStep
  <2>6. Going(j, n)' /\ ToldAt(j, n)'
    BY <2>1 DEF Going, ToldAt
  <2> QED
    BY <1>1, <1>8, <1>5, <2>1, <2>2, <2>3, <2>5, <2>6, WorkStep
<1>7. CASE idnMembers' = moved /\ To(j, n, "count")
  <2>1. /\ idnMembers' \in [Groups \X IdnCustomers -> Groups \cup {None}]
        /\ \A row \in Groups \X IdnCustomers :
             idnMembers'[row] = IF idnMembers[row] = h THEN keep ELSE idnMembers[row]
    BY <1>0, <1>7 DEF Typed, RowsIn
  <2> HIDE DEF moved
  <2>2. /\ Steps(j, n) /\ Try(j, n)'.at = "count" /\ Try(j, n)'.decisions = Try(j, n).decisions
        /\ Try(j, n)'.decision = Try(j, n).decision /\ Try(j, n)'.groups = Try(j, n).groups
    BY <1>0, <1>7, ToFrame DEF IdnPlaces, ApplyPlaces, Deciding, Regrouping
  <2>3. Typed'
    BY <1>0, <1>8, <1>4, <2>1, <2>2 DEF Typed, Steps
  <2>4. /\ PlacedAt(j, n)' /\ Verdict(j, n)' = Verdict(j, n) /\ Going(j, n)' /\ ToldAt(j, n)'
        /\ Holds(j, n)' = Holds(j, n)
    <3>1. "count" \in Regrouping /\ Verdict(j, n) \in VerdictsAt("count")
      BY <1>1 DEF Regrouping, VerdictsAt
    <3> QED
      BY <1>0, <1>8, <2>2, <3>1, RegroupTo
  <2>5. Grouped'
    <3>1. \A row \in Groups \X IdnCustomers :
             \/ idnMembers'[row] = idnMembers[row]
             \/ idnMembers[row] # None /\ idnMembers'[row] \in Holds(j, n) \cup {None}
      BY <1>a, <2>1, IdnNone
    <3>2. Try(j, n)'.at # "insertMembers"
      BY <2>2
    <3> QED
      BY <1>0, <1>8, <2>2, <2>4, <3>1, <3>2, GroupedWork
  <2>6. keep = Try(j, n)'.groups[1] /\ h = Try(j, n)'.groups[2]
    BY <2>2, <1>a
  <2>7. Regrouped'
    <3>1. ASSUME ~idnOverlap PROVE RegroupedAt(j, n)'
      <4>1. RowsIn(h)' = {}
        BY <1>0, <1>a, <2>1, <2>3, IdnNone DEF RowsIn, Typed
      <4>2. ASSUME idnFaults = 0, idnGroups[keep] # Gone PROVE Size(keep)' >= 2
        <5>1. Exact(keep)
          BY <1>0, <1>1, <1>5, <1>a, <3>1, <4>2, OnlyUnsettled
        <5>2. RowsIn(keep) \subseteq RowsIn(keep)'
          BY <1>0, <2>1, <2>3, <1>a DEF RowsIn, Typed
        <5>3. IsFiniteSet(RowsIn(keep)')
          BY <2>3, RowsAreFiniteNext
        <5>4. Size(keep) <= Size(keep)'
          BY <5>2, <5>3, FS_Subset DEF Size
        <5>5. Size(keep) \in Nat /\ Size(keep)' \in Nat
          BY <1>0, <2>3, RowsAreFinite, RowsAreFiniteNext
        <5> QED
          BY <5>1, <5>4, <5>5 DEF Exact
      <4> QED
        BY <1>1, <1>8, <2>2, <2>4, <2>6, <4>1, <4>2 DEF RegroupedAt
    <3> QED
      BY <1>0, <1>1, <1>8, <2>2, <3>1, RegroupedAlone
  <2>8. Counted'
    <3>1. ASSUME NEW x \in Groups
          PROVE  \/ x \in Unsettled(j, n)'
                 \/ x \notin Unsettled(j, n) /\ idnGroups'[x] = idnGroups[x] /\ Size(x)' = Size(x)
      <4>1. CASE x \in {keep, h}
        BY <1>1, <2>2, <2>4, <2>6, <4>1 DEF Unsettled
      <4>2. CASE x \notin {keep, h}
        <5>1. \A row \in Groups \X IdnCustomers : idnMembers'[row] = x <=> idnMembers[row] = x
          BY <2>1, <4>2
        <5>2. Size(x)' = Size(x)
          BY <1>0, <2>3, <5>1, RowsStay
        <5> QED
          BY <1>8, <1>5, <5>2
      <4> QED
        BY <4>1, <4>2
    <3> QED
      BY <1>0, <1>8, <2>2, <3>1, CountedWork
  <2>9. ASSUME NEW q \in Pairs, Kept(q) PROVE Kept(q)'
    <3>1. q[1] \in IdnCustomers /\ q[2] \in IdnCustomers
      BY PairOf
    <3>2. Together(q) => Together(q)'
      <4> SUFFICES ASSUME Together(q) PROVE Together(q)'
        OBVIOUS
      <4>1. PICK a \in Groups, b \in Groups :
              idnMembers[<<a, q[1]>>] # None /\ idnMembers[<<a, q[1]>>] = idnMembers[<<b, q[2]>>]
        BY TogetherMeans
      <4>2. /\ idnMembers'[<<a, q[1]>>] # None
            /\ idnMembers'[<<a, q[1]>>] = idnMembers'[<<b, q[2]>>]
        BY <2>1, <3>1, <4>1, IdnNone
      <4> QED
        BY <4>2, TogetherMeans
    <3> QED
      BY <1>8, <2>9, <3>2, KeptStays
  <2> QED
    BY <1>1, <1>8, <1>5, <2>2, <2>3, <2>4, <2>5, <2>7, <2>8, <2>9, WorkStep
<1> QED
  BY <1>3, <1>6, <1>7

\* Taking all rows out of a group.
LEMMA EmptiedMeans ==
  ASSUME Typed, NEW g \in Groups, idnMembers' = Emptied(g)
  PROVE  /\ idnMembers' \in [Groups \X IdnCustomers -> Groups \cup {None}]
         /\ \A row \in Groups \X IdnCustomers :
              idnMembers'[row] = IF idnMembers[row] = g THEN None ELSE idnMembers[row]
BY DEF Typed, Emptied

\* Of a group with one row at most, or none: nobody was together in it.
LEMMA EmptiedKeeps ==
  ASSUME Typed, NEW g \in Groups, idnMembers' = Emptied(g), UNCHANGED <<idnDecisions, idnOverlap>>,
         idnOverlap \/ \A r, s \in RowsIn(g) : r = s
  PROVE  \A q \in Pairs : Kept(q) => Kept(q)'
<1> SUFFICES ASSUME NEW q \in Pairs, Kept(q) PROVE Kept(q)'
  OBVIOUS
<1>1. q[1] \in IdnCustomers /\ q[2] \in IdnCustomers /\ q[1] # q[2]
  BY PairOf
<1>2. ASSUME Together(q), ~idnOverlap PROVE Together(q)'
  <2>1. PICK a \in Groups, b \in Groups :
          idnMembers[<<a, q[1]>>] # None /\ idnMembers[<<a, q[1]>>] = idnMembers[<<b, q[2]>>]
    BY <1>2, TogetherMeans
  <2>2. idnMembers[<<a, q[1]>>] # g
    <3> SUFFICES ASSUME idnMembers[<<a, q[1]>>] = g PROVE FALSE
      OBVIOUS
    <3>1. <<a, q[1]>> \in RowsIn(g) /\ <<b, q[2]>> \in RowsIn(g)
      BY <1>1, <2>1, RowsAreFinite
    <3> QED
      BY <1>1, <1>2, <3>1
  <2>3. /\ idnMembers'[<<a, q[1]>>] # None
        /\ idnMembers'[<<a, q[1]>>] = idnMembers'[<<b, q[2]>>]
    BY <1>1, <2>1, <2>2, EmptiedMeans
  <2> QED
    BY <2>3, TogetherMeans
<1> QED
  BY <1>2, KeptStays DEF Kept

LEMMA DeleteRowsStep ==
  ASSUME IdnInv, NEW j \in IdnJobs, NEW n \in Tries, DeleteRows(j, n)
  PROVE  IdnInv'
<1>0. /\ Typed /\ Placed /\ Grouped /\ Alone /\ Regrouped /\ Counted
      /\ Try(j, n).at = "deleteRows" /\ Try(j, n).at \in Regrouping
  BY DEF IdnInv, DeleteRows, Regrouping
<1>1. /\ Applies(j) /\ ~Resolves(j) /\ Going(j, n)
      /\ Verdict(j, n) = "split" /\ (~idnOverlap => RegroupedAt(j, n))
  BY <1>0, RegroupingAt DEF VerdictsAt
<1>a. PICK g \in Groups, h \in Groups :
        g = Try(j, n).groups[1] /\ h = Try(j, n).groups[2] /\ Holds(j, n) = {g, h}
  BY <1>0, RegroupingAt
<1>3. /\ To(j, n, "deleteGroup") /\ idnMembers' = Emptied(g)
      /\ UNCHANGED <<idnBook, idnDecisions, idnActors, idnRuns, idnFaults, idnOverlap,
                     idnCandidates, idnTasks, idnGroups, idnSuppressed>>
  BY <1>a DEF DeleteRows, Others
<1>4. /\ idnMembers' \in [Groups \X IdnCustomers -> Groups \cup {None}]
      /\ \A row \in Groups \X IdnCustomers :
           idnMembers'[row] = IF idnMembers[row] = g THEN None ELSE idnMembers[row]
  BY <1>0, <1>3, EmptiedMeans
<1>5. /\ Steps(j, n) /\ Try(j, n)'.at = "deleteGroup"
      /\ Try(j, n)'.decisions = Try(j, n).decisions
      /\ Try(j, n)'.decision = Try(j, n).decision /\ Try(j, n)'.groups = Try(j, n).groups
  BY <1>0, <1>3, ToFrame DEF IdnPlaces, ApplyPlaces, Deciding, Regrouping
<1>6. idnFaults' \in 0..MaxIdnFaults /\ idnFaults <= idnFaults'
  BY <1>0, <1>3, FaultsStay
<1>7. Typed'
  BY <1>0, <1>3, <1>4, <1>5, <1>6 DEF Typed, Steps
<1>8. /\ PlacedAt(j, n)' /\ Verdict(j, n)' = Verdict(j, n) /\ Going(j, n)' /\ ToldAt(j, n)'
      /\ Holds(j, n)' = Holds(j, n)
  <2>1. "deleteGroup" \in Regrouping /\ Verdict(j, n) \in VerdictsAt("deleteGroup")
    BY <1>1 DEF Regrouping, VerdictsAt
  <2> QED
    BY <1>0, <1>3, <1>5, <2>1, RegroupTo
<1>9. Grouped'
  <2>1. \A row \in Groups \X IdnCustomers :
           \/ idnMembers'[row] = idnMembers[row]
           \/ idnMembers[row] # None /\ idnMembers'[row] \in Holds(j, n) \cup {None}
    BY <1>4, IdnNone
  <2>2. Try(j, n)'.at # "insertMembers"
    BY <1>5
  <2> QED
    BY <1>0, <1>3, <1>5, <1>8, <2>1, <2>2, GroupedWork
<1>d. g = Try(j, n)'.groups[1]
  BY <1>5, <1>a
<1>11. Regrouped'
  <2>1. RowsIn(g)' = {}
    BY <1>4, <1>7, IdnNone DEF RowsIn, Typed
  <2>2. RegroupedAt(j, n)'
    BY <1>1, <1>5, <1>8, <1>d, <2>1 DEF RegroupedAt
  <2> QED
    BY <1>0, <1>1, <1>3, <1>5, <2>2, RegroupedAlone
<1>12. Counted'
  <2>1. ASSUME NEW x \in Groups
        PROVE  \/ x \in Unsettled(j, n)'
               \/ x \notin Unsettled(j, n) /\ idnGroups'[x] = idnGroups[x] /\ Size(x)' = Size(x)
    <3>1. CASE x = g
      BY <1>1, <1>5, <1>8, <1>d, <3>1 DEF Unsettled
    <3>2. CASE x # g
      <4>1. \A row \in Groups \X IdnCustomers : idnMembers'[row] = x <=> idnMembers[row] = x
        BY <1>4, <3>2, IdnNone
      <4>2. Size(x)' = Size(x)
        BY <1>0, <1>7, <4>1, RowsStay
      <4>3. x \notin Unsettled(j, n)
        BY <1>0, <1>a, <3>2 DEF Unsettled
      <4> QED
        BY <1>3, <4>2, <4>3
    <3> QED
      BY <3>1, <3>2
  <2> QED
    BY <1>0, <1>3, <1>5, <2>1, CountedWork
<1>13. \A q \in Pairs : Kept(q) => Kept(q)'
  <2>1. idnOverlap \/ \A r, s \in RowsIn(g) : r = s
    BY <1>0, <1>1, <1>a DEF RegroupedAt
  <2> QED
    BY <1>0, <1>3, <2>1, EmptiedKeeps
<1>14. Try(j, n).at # "suppress"
  BY <1>0
<1> QED
  BY <1>1, <1>3, <1>5, <1>7, <1>8, <1>9, <1>11, <1>12, <1>13, <1>14, WorkStep

LEMMA DeleteGroupStep ==
  ASSUME IdnInv, NEW j \in IdnJobs, NEW n \in Tries, DeleteGroup(j, n)
  PROVE  IdnInv'
<1>0. /\ Typed /\ Placed /\ Grouped /\ Alone /\ Regrouped /\ Counted
      /\ Try(j, n).at = "deleteGroup" /\ Try(j, n).at \in Regrouping
  BY DEF IdnInv, DeleteGroup, Regrouping
<1>1. /\ Applies(j) /\ ~Resolves(j) /\ Going(j, n) /\ Try(j, n).at \in Deciding
      /\ Verdict(j, n) \in {"merge", "split"} /\ (~idnOverlap => RegroupedAt(j, n))
  BY <1>0, RegroupingAt DEF VerdictsAt
<1>a. PICK g \in Groups :
        g = Try(j, n).groups[IF Verdict(j, n) = "merge" THEN 2 ELSE 1] /\ g \in Holds(j, n)
  BY <1>0, RegroupingAt
<1>3. /\ To(j, n, "setCandidate") /\ idnMembers' = Emptied(g)
      /\ idnGroups' = [idnGroups EXCEPT ![g] = Gone]
      /\ UNCHANGED <<idnBook, idnDecisions, idnActors, idnRuns, idnFaults, idnOverlap,
                     idnCandidates, idnTasks, idnSuppressed>>
  BY <1>a DEF DeleteGroup, Others
<1>4. /\ idnMembers' \in [Groups \X IdnCustomers -> Groups \cup {None}]
      /\ \A row \in Groups \X IdnCustomers :
           idnMembers'[row] = IF idnMembers[row] = g THEN None ELSE idnMembers[row]
      /\ idnGroups' \in [Groups -> Nat \cup {None, Gone}] /\ idnGroups'[g] = Gone
      /\ \A x \in Groups : x # g => idnGroups'[x] = idnGroups[x]
  BY <1>0, <1>3, EmptiedMeans DEF Typed
<1>5. PlacedAt(j, n)' /\ Verdict(j, n)' = Verdict(j, n) /\ Steps(j, n)
        /\ Try(j, n)'.at = "setCandidate"
  <2>1. Verdict(j, n) \in VerdictsAt("setCandidate")
    BY <1>1 DEF VerdictsAt, Verdicts
  <2> QED
    BY <1>0, <1>1, <1>3, <2>1, ApplyTo
<1>6. idnFaults' \in 0..MaxIdnFaults /\ idnFaults <= idnFaults'
  BY <1>0, <1>3, FaultsStay
<1>7. Typed'
  BY <1>0, <1>3, <1>4, <1>5, <1>6 DEF Typed, Steps
<1>8. Going(j, n)' /\ ToldAt(j, n)' /\ Holds(j, n)' = {}
  BY <1>1, <1>5 DEF Going, ToldAt, Holds, Regrouping
<1>9. Grouped'
  <2>1. \A row \in Groups \X IdnCustomers :
           \/ idnMembers'[row] = idnMembers[row]
           \/ idnMembers[row] # None /\ idnMembers'[row] \in Holds(j, n) \cup {None}
    BY <1>4, IdnNone
  <2>2. \A x \in Groups : \/ idnGroups'[x] = idnGroups[x]
                          \/ x \in Holds(j, n) /\ idnGroups'[x] # None
    BY <1>4, <1>a, IdnNone
  <2>3. Try(j, n)'.at # "insertMembers"
    BY <1>5
  <2> QED
    BY <1>0, <1>3, <1>5, <1>8, <2>1, <2>2, <2>3, GroupedWork
<1>11. Regrouped'
  <2>1. Try(j, n)'.at \notin Regrouping
    BY <1>5 DEF Regrouping
  <2> QED
    BY <1>0, <1>1, <1>3, <1>5, <2>1, RegroupedAlone
<1>12. Counted'
  <2>1. ASSUME NEW x \in Groups, idnGroups'[x] \notin {None, Gone}
        PROVE  x \notin Unsettled(j, n) /\ idnGroups'[x] = idnGroups[x] /\ Size(x)' = Size(x)
    <3>1. x # g
      BY <1>4, <2>1
    <3>2. \A row \in Groups \X IdnCustomers : idnMembers'[row] = x <=> idnMembers[row] = x
      BY <1>4, <3>1, IdnNone
    <3>3. Size(x)' = Size(x)
      BY <1>0, <1>7, <3>2, RowsStay
    <3>4. x \notin Unsettled(j, n)
      BY <1>0, <1>a, <3>1 DEF Unsettled
    <3> QED
      BY <1>4, <3>1, <3>3, <3>4
  <2> QED
    BY <1>0, <1>3, <1>5, <2>1, CountedWork
<1>13. \A q \in Pairs : Kept(q) => Kept(q)'
  <2>1. idnOverlap \/ RowsIn(g) = {}
    BY <1>0, <1>1, <1>a DEF RegroupedAt
  <2> QED
    BY <1>0, <1>3, <2>1, EmptiedKeeps
<1>14. Try(j, n).at # "suppress"
  BY <1>0
<1> QED
  BY <1>1, <1>3, <1>5, <1>7, <1>8, <1>9, <1>11, <1>12, <1>13, <1>14, WorkStep

LEMMA ReadMembersStep ==
  ASSUME IdnInv, NEW j \in IdnJobs, NEW n \in Tries, ReadMembers(j, n)
  PROVE  IdnInv'
<1>0. /\ Typed /\ Placed /\ Grouped /\ Alone /\ Regrouped /\ Counted
      /\ Try(j, n).at = "readMembers" /\ Try(j, n) \in IdnTry
  BY TryTyped DEF IdnInv, ReadMembers
<1>1. /\ Applies(j) /\ ~Resolves(j) /\ Going(j, n) /\ Try(j, n).at \in Deciding
      /\ Verdict(j, n) \in {"merge", "split"} /\ PlacedAt(j, n) /\ PairAt(j, n) \in Pairs
  BY <1>0, ApplyingAt, DecisionAt DEF VerdictsAt
<1>a. PICK p \in Pairs : p = PairAt(j, n) /\ p[1] \in IdnCustomers /\ p[2] \in IdnCustomers
  BY <1>1, PairOf
<1>2. UNCHANGED <<idnBook, idnDecisions, idnActors, idnRuns, idnFaults, idnOverlap,
                  idnCandidates, idnTasks, idnGroups, idnMembers, idnSuppressed>>
  BY DEF ReadMembers, Others, tables
<1> DEFINE Seen(h) == h \in Groups /\ \E row \in Groups \X IdnCustomers :
                        idnMembers[row] # None /\ h \in {row[1], idnMembers[row]}
<1>3. \A h \in GroupsOf(p[1]) \cup GroupsOf(p[2]) : Seen(h)
  BY <1>0, <1>a DEF GroupsOf, RowsOf, Typed
<1>4. \A row \in RowsOf(p[2]) :
        /\ Seen(idnMembers[row]) /\ Seen(row[1]) /\ row = <<row[1], p[2]>>
  <2> SUFFICES ASSUME NEW row \in RowsOf(p[2])
               PROVE  Seen(idnMembers[row]) /\ Seen(row[1]) /\ row = <<row[1], p[2]>>
    OBVIOUS
  <2>0. PICK g \in Groups : row = <<g, p[2]>> /\ idnMembers[<<g, p[2]>>] # None
    BY DEF RowsOf
  <2>1. <<g, p[2]>> \in Groups \X IdnCustomers
    BY <1>a
  <2>2. idnMembers[<<g, p[2]>>] \in Groups
    BY <1>0, <2>0, <2>1 DEF Typed
  <2>3. row[1] = g
    BY <2>0
  <2> QED
    BY <2>0, <2>1, <2>2, <2>3
<1> DEFINE Goes(at, g, h) ==
             Move(j, n, [Try(j, n) EXCEPT !.at = at, !.groups = <<g, h>>])
<1>5. \/ /\ Verdict(j, n) = "merge"
         /\ \E g, h \in Groups : Seen(g) /\ Seen(h) /\ g # h /\ Goes("move", g, h)
      \/ /\ Verdict(j, n) = "split"
         /\ \E g, h \in Groups :
              Seen(g) /\ Seen(h) /\ idnMembers[<<h, p[2]>>] = g /\ Goes("deleteRow", g, h)
      \/ To(j, n, "setCandidate")
  <2>1. ASSUME Verdict(j, n) = "merge",
               NEW g \in GroupsOf(p[1]) \cup GroupsOf(p[2]),
               NEW h \in GroupsOf(p[1]) \cup GroupsOf(p[2]), g # h, Goes("move", g, h)
        PROVE  \E x, y \in Groups : Seen(x) /\ Seen(y) /\ x # y /\ Goes("move", x, y)
    <3>1. Seen(g) /\ Seen(h)
      BY <1>3
    <3> QED
      BY <2>1, <3>1
  <2>2. ASSUME Verdict(j, n) = "split", NEW row \in RowsOf(p[2]),
               Goes("deleteRow", idnMembers[row], row[1])
        PROVE  \E x, y \in Groups :
                 Seen(x) /\ Seen(y) /\ idnMembers[<<y, p[2]>>] = x /\ Goes("deleteRow", x, y)
    <3>1. Seen(idnMembers[row]) /\ Seen(row[1]) /\ idnMembers[<<row[1], p[2]>>] = idnMembers[row]
      BY <1>4
    <3> QED
      BY <2>2, <3>1
  <2> QED
    BY <1>a, <2>1, <2>2 DEF ReadMembers
<1>6. idnFaults' \in 0..MaxIdnFaults /\ idnFaults <= idnFaults'
  BY <1>0, <1>2, FaultsStay
<1>7. /\ Unsettled(j, n) = {} /\ Try(j, n).at # "suppress"
      /\ \A q \in Pairs : Kept(q) => Kept(q)'
  <2>1. ASSUME NEW q \in Pairs, Kept(q) PROVE Kept(q)'
    <3>1. Together(q) => Together(q)'
      BY <1>2 DEF Together, GroupsOf, RowsOf
    <3> QED
      BY <1>2, <2>1, <3>1, KeptStays
  <2> QED
    BY <1>0, <2>1, NoneUnsettled DEF Regrouping
<1>8. ASSUME NEW at \in {"move", "deleteRow"}, NEW g \in Groups, NEW h \in Groups,
             Seen(g), Seen(h), Goes(at, g, h), Verdict(j, n) \in VerdictsAt(at),
             at = "move" => g # h,
             at = "deleteRow" => idnMembers[<<h, p[2]>>] = g /\ Verdict(j, n) = "split"
      PROVE  IdnInv'
  <2> DEFINE try == [Try(j, n) EXCEPT !.at = at, !.groups = <<g, h>>]
  <2>1. <<g, h>> \in Seq(Groups) /\ <<g, h>>[1] = g /\ <<g, h>>[2] = h
    OBVIOUS
  <2>2. /\ try \in IdnTry /\ try.at = at /\ try.groups = <<g, h>>
        /\ try.decisions = Try(j, n).decisions /\ try.decision = Try(j, n).decision
    BY <1>0, <2>1 DEF IdnTry, IdnPlaces, ApplyPlaces, Deciding, Regrouping
  <2>3. Move(j, n, try)
    BY <1>8
  <2> HIDE DEF try
  <2>4. Steps(j, n) /\ Try(j, n)' = try
    BY <1>0, <2>2, <2>3, MoveFrame DEF Try
  <2>5. Typed'
    BY <1>0, <1>2, <1>6, <2>4 DEF Typed, Steps
  <2>6. /\ Resolves(j)' = Resolves(j) /\ Applies(j)' = Applies(j)
        /\ Verdict(j, n)' = Verdict(j, n) /\ PairAt(j, n)' = p
    <3>1. Resolves(j)' = Resolves(j) /\ Applies(j)' = Applies(j)
      BY <1>2, <2>4, StepsFrame
    <3> QED
      BY <1>1, <1>2, <1>a, <2>2, <2>4, <3>1 DEF Verdict, PairAt
  <2>7. /\ PlacedAt(j, n)' /\ Going(j, n)' /\ ToldAt(j, n)' /\ Holds(j, n)' = {g, h}
        /\ Try(j, n)'.at \in Regrouping
    <3>1. /\ at \in Regrouping /\ at \in Deciding /\ at \in ApplyPlaces
          /\ at \notin {"none", "done", "failed", "dead", "setCandidate", "suppress", "resolve",
                        "insertMembers"}
      BY DEF Regrouping, Deciding, ApplyPlaces
    <3>2. /\ Try(j, n).decision \in DecisionIds /\ idnDecisions[Try(j, n).decision] # None
          /\ \A d \in Try(j, n).decisions : idnDecisions[d] # None
      BY <1>1 DEF PlacedAt
    <3>3. Try(j, n)'.at = at /\ Try(j, n)'.groups[1] = g /\ Try(j, n)'.groups[2] = h
      BY <2>1, <2>2, <2>4
    <3>4. Verdict(j, n) = "merge" => g # h
      BY <1>8
    <3>5. PlacedAt(j, n)'
      BY <1>1, <1>2, <1>8, <2>2, <2>4, <2>6, <3>1, <3>2, <3>3, <3>4 DEF PlacedAt
    <3> QED
      BY <3>1, <3>3, <3>5 DEF Going, ToldAt, Holds
  <2>8. Grouped'
    <3>1. \A x \in Holds(j, n)' :
            \E row \in Groups \X IdnCustomers : idnMembers[row] # None
              /\ x \in {row[1], idnMembers[row]}
      BY <1>8, <2>7
    <3>2. Try(j, n)'.at # "insertMembers"
      BY <2>2, <2>4
    <3> QED
      BY <1>0, <1>2, <2>4, <3>1, <3>2, GroupedWork
  <2>9. Regrouped'
    <3>1. RegroupedAt(j, n)'
      BY <1>2, <1>8, <2>1, <2>2, <2>4, <2>6 DEF RegroupedAt
    <3> QED
      BY <1>0, <1>1, <1>2, <2>4, <3>1, RegroupedAlone
  <2>10. Counted'
    BY <1>0, <1>2, <1>6, <1>7, <2>4, <2>5, CountedStep
  <2> QED
    BY <1>1, <1>2, <1>7, <2>4, <2>5, <2>7, <2>8, <2>9, <2>10, WorkStep
<1>9. CASE To(j, n, "setCandidate")
  <2>1. Verdict(j, n) \in VerdictsAt("setCandidate")
    BY <1>1 DEF VerdictsAt, Verdicts
  <2>2. PlacedAt(j, n)' /\ Verdict(j, n)' = Verdict(j, n) /\ Steps(j, n)
          /\ Try(j, n)'.at = "setCandidate"
    BY <1>0, <1>1, <1>2, <1>9, <2>1, ApplyTo
  <2>3. Typed'
    BY <1>0, <1>2, <1>6, <2>2 DEF Typed, Steps
  <2>4. Calm(j, n)
    BY <1>2, <1>6, <1>7, <2>2 DEF Calm, Regrouping
  <2>5. /\ Grouped' /\ Regrouped' /\ Counted'
    BY <2>2, <2>3, <2>4, CalmStep
  <2>6. Going(j, n)' /\ ToldAt(j, n)'
    BY <1>1, <2>2 DEF Going, ToldAt
  <2> QED
    BY <1>1, <1>2, <1>7, <2>2, <2>3, <2>5, <2>6, WorkStep
<1>10. CASE /\ Verdict(j, n) = "merge"
            /\ \E g, h \in Groups : Seen(g) /\ Seen(h) /\ g # h /\ Goes("move", g, h)
  <2>1. "merge" \in VerdictsAt("move")
    BY DEF VerdictsAt
  <2> HIDE DEF Seen, Goes
  <2> QED
    BY <1>8, <1>10, <2>1
<1>11. CASE /\ Verdict(j, n) = "split"
            /\ \E g, h \in Groups :
                 Seen(g) /\ Seen(h) /\ idnMembers[<<h, p[2]>>] = g /\ Goes("deleteRow", g, h)
  <2>1. "split" \in VerdictsAt("deleteRow")
    BY DEF VerdictsAt
  <2> HIDE DEF Seen, Goes
  <2> QED
    BY <1>8, <1>11, <2>1
<1> HIDE DEF Seen, Goes
<1> QED
  BY <1>5, <1>9, <1>10, <1>11

\* A try that inserts a group, of either kind of job.
LEMMA InsertingAt ==
  ASSUME IdnInv, NEW j \in IdnJobs, NEW n \in Tries, Try(j, n).at \in {"insertGroup",
           "insertMembers"}
  PROVE  /\ Going(j, n) /\ Try(j, n) \in IdnTry /\ PlacedAt(j, n) /\ PairAt(j, n) \in Pairs
         /\ Resolves(j) => /\ ~Applies(j) /\ PairAt(j, n) = Try(j, n).pair
                           /\ Try(j, n).pair \in Pairs /\ MatchedAt(j, n)
         /\ ~Resolves(j) => /\ Applies(j) /\ Try(j, n).at \in Deciding /\ Verdict(j, n) = "confirm"
                            /\ Try(j, n).decision \in DecisionIds
                            /\ idnDecisions[Try(j, n).decision] # None
<1>0. /\ Typed /\ Placed /\ Matched
  BY DEF IdnInv
<1>1. Try(j, n) \in IdnTry /\ PlacedAt(j, n) /\ Going(j, n) /\ Try(j, n).at \in Deciding
  BY <1>0, TryTyped DEF Placed, Going, Deciding
<1>2. CASE Resolves(j)
  <2>1. ~Applies(j) /\ PairAt(j, n) = Try(j, n).pair /\ Try(j, n).pair \in Pairs
    BY <1>0, <1>1, <1>2 DEF Placed, PlacedAt, PairAt
  <2>2. MatchedAt(j, n)
    BY <1>0, <1>2 DEF Matched
  <2> QED
    BY <1>1, <1>2, <2>1, <2>2
<1>3. CASE ~Resolves(j)
  <2>1. Applies(j)
    BY <1>1, <1>3 DEF PlacedAt
  <2>2. PairAt(j, n) \in Pairs /\ Verdict(j, n) = "confirm"
    BY <1>0, <1>1, <2>1, DecisionAt DEF VerdictsAt
  <2>3. Try(j, n).decision \in DecisionIds /\ idnDecisions[Try(j, n).decision] # None
    BY <1>1, <2>1 DEF PlacedAt
  <2> QED
    BY <1>1, <1>3, <2>1, <2>2, <2>3
<1> QED
  BY <1>2, <1>3

LEMMA InsertGroupStep ==
  ASSUME IdnInv, NEW j \in IdnJobs, NEW n \in Tries, InsertGroup(j, n)
  PROVE  IdnInv'
<1>0. /\ Typed /\ Placed /\ Grouped /\ Alone /\ Regrouped /\ Counted
      /\ Try(j, n).at = "insertGroup"
  BY DEF IdnInv, InsertGroup
<1>1. /\ Going(j, n) /\ Try(j, n) \in IdnTry /\ PlacedAt(j, n) /\ PairAt(j, n) \in Pairs
      /\ Resolves(j) => /\ ~Applies(j) /\ PairAt(j, n) = Try(j, n).pair
                        /\ Try(j, n).pair \in Pairs /\ MatchedAt(j, n)
      /\ ~Resolves(j) => /\ Applies(j) /\ Try(j, n).at \in Deciding /\ Verdict(j, n) = "confirm"
                         /\ Try(j, n).decision \in DecisionIds
                         /\ idnDecisions[Try(j, n).decision] # None
  BY <1>0, InsertingAt
<1>2. UNCHANGED <<idnBook, idnDecisions, idnActors, idnRuns, idnFaults, idnOverlap,
                  idnCandidates, idnTasks, idnMembers, idnSuppressed>>
  BY DEF InsertGroup, Others
<1>3. PICK g \in Groups :
        /\ idnGroups[g] = None /\ idnGroups' = [idnGroups EXCEPT ![g] = 2]
        /\ Move(j, n, [Try(j, n) EXCEPT !.at = "insertMembers", !.groups = <<g>>])
  BY DEF InsertGroup
<1> DEFINE try == [Try(j, n) EXCEPT !.at = "insertMembers", !.groups = <<g>>]
<1>4. /\ try \in IdnTry /\ try.at = "insertMembers" /\ try.groups[1] = g
      /\ try.decisions = Try(j, n).decisions /\ try.decision = Try(j, n).decision
      /\ try.pair = Try(j, n).pair /\ try.pairs = Try(j, n).pairs /\ try.read = Try(j, n).read
  <2>1. <<g>> \in Seq(Groups) /\ <<g>>[1] = g
    OBVIOUS
  <2> QED
    BY <1>1, <2>1 DEF IdnTry, IdnPlaces, ResolvePlaces
<1>a. Move(j, n, try)
  BY <1>3
<1> HIDE DEF try
<1>5. Steps(j, n) /\ Try(j, n)' = try
  BY <1>0, <1>a, <1>4, MoveFrame DEF Try
<1>6. /\ idnGroups' \in [Groups -> Nat \cup {None, Gone}] /\ idnGroups'[g] = 2
      /\ \A x \in Groups : x # g => idnGroups'[x] = idnGroups[x]
  BY <1>0, <1>3 DEF Typed
<1>7. idnFaults' \in 0..MaxIdnFaults /\ idnFaults <= idnFaults'
  BY <1>0, <1>2, FaultsStay
<1>8. Typed'
  BY <1>0, <1>2, <1>5, <1>6, <1>7 DEF Typed, Steps
<1>9. /\ Resolves(j)' = Resolves(j) /\ Applies(j)' = Applies(j) /\ Verdict(j, n)' = Verdict(j, n)
  <2>1. Resolves(j)' = Resolves(j) /\ Applies(j)' = Applies(j)
    BY <1>2, <1>5, StepsFrame
  <2> QED
    BY <1>2, <1>4, <1>5, <2>1 DEF Verdict
<1>10. PlacedAt(j, n)' /\ Going(j, n)' /\ ToldAt(j, n)' /\ Holds(j, n)' = {g}
  <2>1. \A d \in Try(j, n).decisions : idnDecisions[d] # None
    BY <1>1 DEF PlacedAt
  <2>2. Applies(j) => Verdict(j, n) \in VerdictsAt("insertMembers") /\ ~Resolves(j)
    BY <1>1 DEF VerdictsAt
  <2>3. "insertMembers" \in ResolvePlaces /\ "insertMembers" \in ApplyPlaces
          /\ "insertMembers" \notin Regrouping
    BY DEF ResolvePlaces, ApplyPlaces, Deciding, Regrouping
  <2>4. PlacedAt(j, n)'
    BY <1>1, <1>2, <1>4, <1>5, <1>9, <2>1, <2>2, <2>3 DEF PlacedAt
  <2> QED
    BY <1>4, <1>5, <2>4 DEF Going, ToldAt, Holds
<1>11. \A k \in IdnJobs, m \in Tries : g \notin Holds(k, m)
  BY <1>0, <1>3 DEF Grouped
<1>12. \A row \in Groups \X IdnCustomers :
         idnMembers[row] # g /\ (row[1] = g => idnMembers[row] = None)
  BY <1>0, <1>3, IdnNone DEF Grouped, Typed
<1>13. Grouped'
  <2>1. ASSUME NEW row \in Groups \X IdnCustomers, idnMembers'[row] # None
        PROVE  idnGroups'[row[1]] # None /\ idnGroups'[idnMembers'[row]] # None
    <3>1. row[1] \in Groups /\ idnMembers[row] \in Groups
      BY <1>0, <1>2, <2>1 DEF Typed
    <3> QED
      BY <1>0, <1>2, <1>6, <2>1, <3>1, IdnNone DEF Grouped
  <2>2. ASSUME NEW k \in IdnJobs, NEW m \in Tries
        PROVE  /\ \A x \in Holds(k, m)' : idnGroups'[x] # None
               /\ Try(k, m)'.at = "insertMembers" => Owned(k, m)'
    <3>1. CASE <<k, m>> = <<j, n>>
      <4>1. Fresh(g)'
        BY <1>2, <1>6, <1>12 DEF Fresh
      <4>2. \A i \in IdnJobs, l \in Tries : <<i, l>> # <<j, n>> => g \notin Holds(i, l)'
        BY <1>2, <1>5, <1>11, StepsFrame
      <4>3. Owned(j, n)'
        BY <1>4, <1>5, <4>1, <4>2 DEF Owned
      <4> QED
        BY <1>6, <1>10, <3>1, <4>3, IdnNone
    <3>2. CASE <<k, m>> # <<j, n>>
      <4>1. Try(k, m)' = Try(k, m) /\ Holds(k, m)' = Holds(k, m)
        BY <1>2, <1>5, <3>2, StepsFrame
      <4>2. \A x \in Holds(k, m)' : idnGroups'[x] # None
        BY <1>0, <1>6, <4>1, IdnNone, HoldsGroups DEF Grouped
      <4>3. ASSUME Try(k, m)'.at = "insertMembers" PROVE Owned(k, m)'
        <5>0. PICK x : x = Try(k, m).groups[1]
          OBVIOUS
        <5>1. /\ Fresh(x)
              /\ \A i \in IdnJobs, l \in Tries : <<i, l>> # <<k, m>> => x \notin Holds(i, l)
          BY <1>0, <4>1, <4>3, <5>0 DEF Grouped, Owned
        <5>2. x \in Groups /\ x # g
          <6>1. x \in Holds(k, m)
            BY <4>1, <4>3, <5>0 DEF Holds
          <6> QED
            BY <1>0, <1>11, <6>1, HoldsGroups
        <5>3. Fresh(x)'
          BY <1>2, <1>6, <5>1, <5>2 DEF Fresh
        <5>4. ASSUME NEW i \in IdnJobs, NEW l \in Tries, <<i, l>> # <<k, m>>
              PROVE  x \notin Holds(i, l)'
          <6>1. CASE <<i, l>> = <<j, n>>
            BY <1>10, <5>2, <6>1
          <6>2. CASE <<i, l>> # <<j, n>>
            BY <1>2, <1>5, <5>1, <5>4, <6>2, StepsFrame
          <6> QED
            BY <6>1, <6>2
        <5>5. x = Try(k, m)'.groups[1]
          BY <4>1, <5>0
        <5> QED
          BY <5>3, <5>4, <5>5 DEF Owned
      <4> QED
        BY <4>2, <4>3
    <3> QED
      BY <3>1, <3>2
  <2> QED
    BY <2>1, <2>2 DEF Grouped
<1>14. \A x : RowsIn(x)' = RowsIn(x) /\ Size(x)' = Size(x)
  BY <1>2 DEF RowsIn, Size
<1>15. Regrouped'
  <2>1. \A k \in IdnJobs, m \in Tries : \A h \in Holds(k, m) :
          RowsIn(h)' = RowsIn(h) /\ Size(h)' = Size(h) /\ idnGroups'[h] = idnGroups[h]
    BY <1>0, <1>6, <1>11, <1>14, HoldsGroups
  <2>2. Try(j, n)'.at \notin Regrouping
    BY <1>4, <1>5 DEF Regrouping
  <2>3. \A row \in Groups \X IdnCustomers :
          idnMembers[row] # None => idnMembers'[row] = idnMembers[row]
    BY <1>2
  <2> QED
    BY <1>0, <1>2, <1>5, <1>8, <2>1, <2>2, <2>3, RegroupedOthers
<1>16. Counted'
  <2>1. Unsettled(j, n)' = {g} /\ Unsettled(j, n) = {}
    BY <1>0, <1>4, <1>5 DEF Unsettled
  <2>2. ASSUME NEW x \in Groups
        PROVE  \/ x \in Unsettled(j, n)'
               \/ x \notin Unsettled(j, n) /\ idnGroups'[x] = idnGroups[x] /\ Size(x)' = Size(x)
    BY <1>6, <1>14, <2>1
  <2> QED
    BY <1>0, <1>2, <1>5, <2>2, CountedWork
<1>17. ASSUME NEW q \in Pairs, Kept(q) PROVE Kept(q)'
  <2>1. Together(q) => Together(q)'
    BY <1>2 DEF Together, GroupsOf, RowsOf
  <2> QED
    BY <1>2, <1>17, <2>1, KeptStays
<1>18. Resolves(j) => MatchedAt(j, n)'
  <2> SUFFICES ASSUME Resolves(j) PROVE MatchedAt(j, n)'
    OBVIOUS
  <2>1. ASSUME NEW x \in Try(j, n).read
        PROVE  x \in Try(j, n).pairs \/ Satisfied(x)' \/ InHand(j, n, x)'
    <3>1. x.pair \in Pairs
      BY <1>1 DEF IdnTry, Mark
    <3>2. Satisfied(x) => Satisfied(x)'
      BY <1>2, <1>17, <3>1 DEF Satisfied
    <3>3. InHand(j, n, x) => InHand(j, n, x)'
      BY <1>0, <1>4, <1>5 DEF InHand
    <3> QED
      BY <1>1, <3>2, <3>3 DEF MatchedAt
  <2> QED
    BY <1>4, <1>5, <2>1 DEF MatchedAt
<1>19. /\ Try(j, n).at # "suppress"
       /\ Try(j, n)'.at \notin {"insertTask", "insertGroup", "done"}
  BY <1>0, <1>4, <1>5
<1> QED
  BY <1>1, <1>2, <1>5, <1>8, <1>10, <1>13, <1>15, <1>16, <1>17, <1>18, <1>19, WorkStep

LEMMA InsertMembersStep ==
  ASSUME IdnInv, NEW j \in IdnJobs, NEW n \in Tries, InsertMembers(j, n)
  PROVE  IdnInv'
<1>0. /\ Typed /\ Placed /\ Grouped /\ Alone /\ Regrouped /\ Counted
      /\ Try(j, n).at = "insertMembers" /\ Owned(j, n)
  BY DEF IdnInv, InsertMembers, Grouped
<1>1. /\ Going(j, n) /\ Try(j, n) \in IdnTry /\ PlacedAt(j, n) /\ PairAt(j, n) \in Pairs
      /\ Resolves(j) => /\ ~Applies(j) /\ PairAt(j, n) = Try(j, n).pair
                        /\ Try(j, n).pair \in Pairs /\ MatchedAt(j, n)
      /\ ~Resolves(j) => /\ Applies(j) /\ Try(j, n).at \in Deciding /\ Verdict(j, n) = "confirm"
                         /\ Try(j, n).decision \in DecisionIds
                         /\ idnDecisions[Try(j, n).decision] # None
  BY <1>0, InsertingAt
<1>a. PICK g \in Groups : g = Try(j, n).groups[1]
  BY <1>0, <1>1 DEF PlacedAt
<1>b. PICK p \in Pairs : p = PairAt(j, n)
  BY <1>1
<1>c. PICK a \in IdnCustomers, b \in IdnCustomers : a = p[1] /\ b = p[2] /\ a # b
  BY PairOf
<1>2. UNCHANGED <<idnBook, idnDecisions, idnActors, idnRuns, idnFaults, idnOverlap,
                  idnCandidates, idnTasks, idnGroups, idnSuppressed>>
  BY DEF InsertMembers, Others
<1> DEFINE at == IF Resolves(j) THEN "next" ELSE "setCandidate"
           try == [Try(j, n) EXCEPT !.at = at, !.groups = <<>>]
<1>3. /\ idnMembers' = [idnMembers EXCEPT ![<<g, a>>] = g, ![<<g, b>>] = g]
      /\ Move(j, n, try)
  BY <1>a, <1>b, <1>c DEF InsertMembers
<1>4. /\ try \in IdnTry /\ try.at = at
      /\ try.decisions = Try(j, n).decisions /\ try.decision = Try(j, n).decision
      /\ try.pair = Try(j, n).pair /\ try.pairs = Try(j, n).pairs /\ try.read = Try(j, n).read
  <2>1. <<>> \in Seq(Groups) /\ at \in IdnPlaces
    BY DEF IdnPlaces, ResolvePlaces, ApplyPlaces, Deciding
  <2> QED
    BY <1>1, <2>1 DEF IdnTry
<1>d. /\ Resolves(j) => at = "next"
      /\ ~Resolves(j) => at = "setCandidate"
      /\ at \in {"next", "setCandidate"}
  OBVIOUS
<1> HIDE DEF try, at
<1>5. Steps(j, n) /\ Try(j, n)' = try
  BY <1>0, <1>3, <1>4, MoveFrame DEF Try
<1>6. /\ idnMembers' \in [Groups \X IdnCustomers -> Groups \cup {None}]
      /\ \A row \in Groups \X IdnCustomers :
           /\ row \in {<<g, a>>, <<g, b>>} => idnMembers'[row] = g
           /\ row \notin {<<g, a>>, <<g, b>>} => idnMembers'[row] = idnMembers[row]
  BY <1>0, <1>3 DEF Typed
<1>7. idnFaults' \in 0..MaxIdnFaults /\ idnFaults <= idnFaults'
  BY <1>0, <1>2, FaultsStay
<1>8. Typed'
  BY <1>0, <1>2, <1>5, <1>6, <1>7 DEF Typed, Steps
<1>9. /\ Resolves(j)' = Resolves(j) /\ Applies(j)' = Applies(j) /\ Verdict(j, n)' = Verdict(j, n)
      /\ PairAt(j, n)' = p
  <2>1. Resolves(j)' = Resolves(j) /\ Applies(j)' = Applies(j)
    BY <1>2, <1>5, StepsFrame
  <2> QED
    BY <1>2, <1>4, <1>5, <1>b, <2>1 DEF Verdict, PairAt
<1>10. Together(p)'
  <2>1. idnMembers'[<<g, p[1]>>] = g /\ idnMembers'[<<g, p[2]>>] = g /\ g # None
    BY <1>6, <1>c, IdnNone
  <2> QED
    BY <2>1, TogetherMeans
<1>11. PlacedAt(j, n)' /\ Going(j, n)' /\ Holds(j, n)' = {} /\ ToldAt(j, n)'
  <2>1. \A d \in Try(j, n).decisions : idnDecisions[d] # None
    BY <1>1 DEF PlacedAt
  <2>2. Applies(j) => Verdict(j, n) \in VerdictsAt("setCandidate") /\ ~Resolves(j)
    BY <1>1 DEF VerdictsAt, Verdicts
  <2>3. /\ "next" \in ResolvePlaces /\ "setCandidate" \in ApplyPlaces
        /\ "setCandidate" \notin Regrouping /\ "next" \notin Regrouping
    BY DEF ResolvePlaces, ApplyPlaces, Deciding, Regrouping
  <2>4. PlacedAt(j, n)'
    BY <1>1, <1>2, <1>4, <1>5, <1>9, <1>d, <2>1, <2>2, <2>3 DEF PlacedAt
  <2>5. ToldAt(j, n)'
    BY <1>4, <1>5, <1>9, <1>10, <1>d DEF ToldAt, Kept
  <2> QED
    BY <1>4, <1>5, <1>d, <2>3, <2>4, <2>5 DEF Going, Holds
<1>12. /\ idnGroups[g] = 2
       /\ \A k \in IdnJobs, m \in Tries : <<k, m>> # <<j, n>> => g \notin Holds(k, m)
       /\ \A row \in Groups \X IdnCustomers :
            idnMembers[row] # g /\ (row[1] = g => idnMembers[row] = None)
  BY <1>0, <1>a DEF Owned, Fresh
<1>13. \A row \in Groups \X IdnCustomers :
         \/ idnMembers'[row] = idnMembers[row]
         \/ row[1] = g /\ idnMembers[row] = None /\ idnMembers'[row] = g
  BY <1>6, <1>12
<1>14. Grouped'
  <2>1. ASSUME NEW row \in Groups \X IdnCustomers, idnMembers'[row] # None
        PROVE  idnGroups'[row[1]] # None /\ idnGroups'[idnMembers'[row]] # None
    <3>1. idnGroups'[g] # None
      BY <1>2, <1>12, IdnNone
    <3> QED
      BY <1>0, <1>2, <1>13, <2>1, <3>1 DEF Grouped
  <2>2. ASSUME NEW k \in IdnJobs, NEW m \in Tries
        PROVE  /\ \A x \in Holds(k, m)' : idnGroups'[x] # None
               /\ Try(k, m)'.at = "insertMembers" => Owned(k, m)'
    <3>1. CASE <<k, m>> = <<j, n>>
      BY <1>4, <1>5, <1>11, <1>d, <3>1
    <3>2. CASE <<k, m>> # <<j, n>>
      <4>1. Try(k, m)' = Try(k, m) /\ Holds(k, m)' = Holds(k, m)
        BY <1>2, <1>5, <3>2, StepsFrame
      <4>2. \A x \in Holds(k, m)' : idnGroups'[x] # None
        BY <1>0, <1>2, <4>1 DEF Grouped
      <4>3. ASSUME Try(k, m)'.at = "insertMembers" PROVE Owned(k, m)'
        <5>0. PICK x : x = Try(k, m).groups[1]
          OBVIOUS
        <5>1. /\ Fresh(x)
              /\ \A i \in IdnJobs, l \in Tries : <<i, l>> # <<k, m>> => x \notin Holds(i, l)
          BY <1>0, <4>1, <4>3, <5>0 DEF Grouped, Owned
        <5>2. x # g
          <6>1. x \in Holds(k, m)
            BY <4>1, <4>3, <5>0 DEF Holds
          <6> QED
            BY <1>12, <3>2, <6>1
        <5>3. Fresh(x)'
          BY <1>2, <1>13, <5>1, <5>2 DEF Fresh
        <5>4. ASSUME NEW i \in IdnJobs, NEW l \in Tries, <<i, l>> # <<k, m>>
              PROVE  x \notin Holds(i, l)'
          <6>1. CASE <<i, l>> = <<j, n>>
            BY <1>11, <6>1
          <6>2. CASE <<i, l>> # <<j, n>>
            BY <1>2, <1>5, <5>1, <5>4, <6>2, StepsFrame
          <6> QED
            BY <6>1, <6>2
        <5>5. x = Try(k, m)'.groups[1]
          BY <4>1, <5>0
        <5> QED
          BY <5>3, <5>4, <5>5 DEF Owned
      <4> QED
        BY <4>2, <4>3
    <3> QED
      BY <3>1, <3>2
  <2> QED
    BY <2>1, <2>2 DEF Grouped
<1>15. \A x \in Groups : x # g => RowsIn(x)' = RowsIn(x) /\ Size(x)' = Size(x)
  <2> SUFFICES ASSUME NEW x \in Groups, x # g
               PROVE  RowsIn(x)' = RowsIn(x) /\ Size(x)' = Size(x)
    OBVIOUS
  <2>1. \A row \in Groups \X IdnCustomers : idnMembers'[row] = x <=> idnMembers[row] = x
    BY <1>13, IdnNone
  <2> QED
    BY <1>0, <1>8, <2>1, RowsStay
<1>16. Regrouped'
  <2>1. \A k \in IdnJobs, m \in Tries : <<k, m>> # <<j, n>> => \A h \in Holds(k, m) :
          RowsIn(h)' = RowsIn(h) /\ Size(h)' = Size(h) /\ idnGroups'[h] = idnGroups[h]
    BY <1>0, <1>2, <1>12, <1>15, HoldsGroups
  <2>2. Try(j, n)'.at \notin Regrouping
    BY <1>4, <1>5, <1>d DEF Regrouping
  <2>3. \A row \in Groups \X IdnCustomers :
          idnMembers[row] # None => idnMembers'[row] = idnMembers[row]
    BY <1>13
  <2> QED
    BY <1>0, <1>2, <1>5, <1>8, <2>1, <2>2, <2>3, RegroupedOthers
<1>17. Counted'
  <2>1. Exact(g)'
    <3>1. ASSUME NEW row PROVE row \in RowsIn(g)' <=> row \in {<<g, a>>, <<g, b>>}
      BY <1>6, <1>8, <1>12 DEF RowsIn, Typed
    <3>2. RowsIn(g)' = {<<g, a>>, <<g, b>>}
      BY <3>1
    <3>3. <<g, a>> # <<g, b>>
      BY <1>c
    <3>4. Cardinality({<<g, a>>, <<g, b>>}) = 2
      <4>1. IsFiniteSet({<<g, a>>}) /\ Cardinality({<<g, a>>}) = 1
        BY FS_Singleton
      <4>2. <<g, b>> \notin {<<g, a>>} /\ {<<g, a>>} \cup {<<g, b>>} = {<<g, a>>, <<g, b>>}
        BY <3>3
      <4>3. Cardinality({<<g, a>>} \cup {<<g, b>>}) = Cardinality({<<g, a>>}) + 1
        BY <4>1, <4>2, FS_AddElement
      <4> QED
        BY <4>1, <4>2, <4>3
    <3>5. Size(g)' = 2
      BY <3>2, <3>4 DEF Size
    <3> QED
      BY <1>2, <1>12, <3>5 DEF Exact
  <2>2. Unsettled(j, n) = {g}
    BY <1>0, <1>a DEF Unsettled
  <2>3. ASSUME NEW x \in Groups
        PROVE  \/ Exact(x)'
               \/ x \notin Unsettled(j, n) /\ idnGroups'[x] = idnGroups[x] /\ Size(x)' = Size(x)
    BY <1>2, <1>15, <2>1, <2>2
  <2> QED
    BY <1>0, <1>2, <1>5, <2>3, CountedWork
<1>18. ASSUME NEW q \in Pairs, Kept(q) PROVE Kept(q)'
  <2>0. q[1] \in IdnCustomers /\ q[2] \in IdnCustomers
    BY PairOf
  <2>1. ASSUME Together(q) PROVE Together(q)'
    <3>1. PICK x \in Groups, y \in Groups :
            idnMembers[<<x, q[1]>>] # None /\ idnMembers[<<x, q[1]>>] = idnMembers[<<y, q[2]>>]
      BY <2>1, TogetherMeans
    <3>2. /\ idnMembers'[<<x, q[1]>>] = idnMembers[<<x, q[1]>>]
          /\ idnMembers'[<<y, q[2]>>] = idnMembers[<<y, q[2]>>]
      BY <1>13, <2>0, <3>1
    <3> QED
      BY <3>1, <3>2, TogetherMeans
  <2> QED
    BY <1>2, <1>18, <2>1, KeptStays
<1>19. Resolves(j) => MatchedAt(j, n)'
  <2> SUFFICES ASSUME Resolves(j) PROVE MatchedAt(j, n)'
    OBVIOUS
  <2>1. ASSUME NEW x \in Try(j, n).read
        PROVE  x \in Try(j, n).pairs \/ Satisfied(x)'
    <3>1. x.pair \in Pairs
      BY <1>1 DEF IdnTry, Mark
    <3>2. Satisfied(x) => Satisfied(x)'
      BY <1>2, <1>18, <3>1 DEF Satisfied
    <3>3. InHand(j, n, x) => Satisfied(x)'
      <4>1. InHand(j, n, x) => x.pair = p /\ x.as = "auto_merge"
        BY <1>0, <1>1, <1>b DEF InHand
      <4> QED
        BY <1>10, <4>1 DEF Satisfied, Kept
    <3> QED
      BY <1>1, <3>2, <3>3 DEF MatchedAt
  <2> QED
    BY <1>4, <1>5, <1>d, <2>1 DEF MatchedAt
<1>20. /\ Try(j, n).at # "suppress"
       /\ Try(j, n)'.at \notin {"insertTask", "insertGroup", "done"}
  BY <1>0, <1>4, <1>5, <1>d
<1> QED
  BY <1>1, <1>2, <1>5, <1>8, <1>11, <1>14, <1>16, <1>17, <1>18, <1>19, <1>20, WorkStep

(***************************************************************************)
(* The theorem                                                             *)
(***************************************************************************)
LEMMA InitialIdentity == Init => IdnInv
<1> SUFFICES ASSUME Init PROVE IdnInv
  OBVIOUS
<1>1. /\ idnRuns = [r \in IdnRuns |-> None]
      /\ idnCandidates = [p \in Pairs |-> None] /\ idnTasks = [p \in Pairs |-> None]
      /\ idnGroups = [g \in Groups |-> None]
      /\ idnMembers = [row \in Groups \X IdnCustomers |-> None]
      /\ idnDecisions = [d \in DecisionIds |-> None] /\ idnSuppressed = {}
      /\ idnActors = [a \in IdnActors |-> Idle] /\ idnJobs = [j \in IdnJobs |-> NoJob]
      /\ idnFaults = 0 /\ idnOverlap = FALSE
  BY DEF Init
<1>2. Resting \in IdnTry /\ Resting.at = "none" /\ Resting.decisions = {}
  BY RestingTyped DEF Resting
<1>3. ASSUME NEW j \in IdnJobs, NEW n \in Tries
      PROVE  /\ Try(j, n) = Resting /\ ~Resolves(j) /\ ~Applies(j) /\ Holds(j, n) = {}
             /\ ~Going(j, n)
  <2>1. NoJob.run = None /\ NoJob.decisions = {} /\ NoJob.tries = [m \in Tries |-> Resting]
    BY DEF NoJob
  <2>2. Try(j, n) = Resting /\ ~Resolves(j) /\ ~Applies(j)
    BY <1>1, <2>1 DEF Try, Resolves, Applies, Run
  <2> QED
    BY <1>2, <2>2 DEF Holds, Going, Regrouping
<1>4. Typed
  <2>1. NoJob \in IdnJob
    BY <1>2 DEF NoJob, IdnJob
  <2>2. Idle \in IdnActor /\ Idle.at # "decide"
    BY DEF Idle, IdnActor
  <2>3. idnFaults \in 0..MaxIdnFaults
    BY <1>1, IdentityAssumption
  <2>4. /\ idnActors \in [IdnActors -> IdnActor]
        /\ \A a \in IdnActors : idnActors[a].at = "decide" => idnActors[a].what # None
        /\ idnJobs \in [IdnJobs -> IdnJob]
    BY <1>1, <2>1, <2>2
  <2> QED
    BY <1>1, <2>3, <2>4 DEF Typed
<1>5. Placed
  <2>1. ASSUME NEW j \in IdnJobs, NEW n \in Tries PROVE PlacedAt(j, n)
    BY <1>2, <1>3 DEF PlacedAt, Deciding, Regrouping
  <2>2. \A j \in IdnJobs : Resolves(j) => ~Applies(j)
    <3>1. 1 \in Tries
      BY DEF Tries
    <3> QED
      BY <1>3, <3>1
  <2> QED
    BY <2>1, <2>2 DEF Placed
<1>6. Grouped /\ Alone
  BY <1>1, <1>2, <1>3 DEF Grouped, Alone
<1>7. Regrouped /\ Matched
  BY <1>2, <1>3 DEF Regrouped, Matched, Regrouping
<1>8. Counted
  BY <1>1 DEF Counted
<1>9. Told
  <2>1. ASSUME NEW p \in Pairs PROVE ToldOf(p)
    <3>1. idnTasks[p] = None /\ idnCandidates[p] = None /\ p \notin idnSuppressed
      BY <1>1
    <3> QED
      BY <3>1, IdnNone DEF ToldOf, CandidateStatuses
  <2> QED
    BY <1>3, <2>1 DEF Told
<1>10. RunningHasACause
  BY <1>1, IdnNone DEF RunningHasACause, RunStatuses
<1> QED
  BY <1>4, <1>5, <1>6, <1>7, <1>8, <1>9, <1>10 DEF IdnInv

LEMMA NextIdentity == IdnInv /\ [Next]_idnVars => IdnInv'
<1> SUFFICES ASSUME IdnInv, [Next]_idnVars PROVE IdnInv'
  OBVIOUS
<1>1. ASSUME NEW a \in IdnActors,
             AskTrigger(a) \/ InsertRun(a) \/ AskDecision(a) \/ InsertDecision(a)
      PROVE  IdnInv'
  BY <1>1, RequestSteps
<1>2. ASSUME NEW j \in IdnJobs, Enqueue(j) PROVE IdnInv'
  BY <1>2, EnqueueStep
<1>3. ASSUME NEW j \in IdnJobs, NEW n \in Tries, BeginResolve(j, n) \/ BeginApply(j, n)
      PROVE  IdnInv'
  BY <1>3, BeginResolveStep, BeginApplyStep
<1>4. ASSUME NEW j \in IdnJobs, NEW n \in Tries,
             \/ Load(j, n) \/ InsertCandidate(j, n) \/ InsertTask(j, n) \/ InsertGroup(j, n)
             \/ InsertMembers(j, n) \/ Complete(j, n) \/ FailRun(j, n)
      PROVE  IdnInv'
  BY <1>4, LoadStep, InsertCandidateStep, InsertTaskStep, InsertGroupStep, InsertMembersStep,
     CompleteStep, FailRunStep
<1>5. ASSUME NEW j \in IdnJobs, NEW n \in Tries,
             \/ StartDecision(j, n) \/ ReadMembers(j, n) \/ MoveRows(j, n) \/ DeleteRow(j, n)
             \/ CountRows(j, n) \/ SetCount(j, n) \/ DeleteRows(j, n) \/ DeleteGroup(j, n)
      PROVE  IdnInv'
  BY <1>5, StartDecisionStep, ReadMembersStep, MoveRowsStep, DeleteRowStep, CountRowsStep,
     SetCountStep, DeleteRowsStep, DeleteGroupStep
<1>6. ASSUME NEW j \in IdnJobs, NEW n \in Tries,
             \/ SetCandidate(j, n) \/ Suppress(j, n) \/ ResolveTask(j, n) \/ EndApply(j, n)
             \/ Throws(j, n) \/ Dies(j, n)
      PROVE  IdnInv'
  BY <1>6, SetCandidateStep, SuppressStep, ResolveTaskStep, EndApplyStep, FaultStep
<1>7. CASE UNCHANGED idnVars
  <2>1. UNCHANGED <<idnRuns, idnCandidates, idnTasks, idnGroups, idnMembers, idnDecisions,
                    idnSuppressed, idnActors, idnJobs, idnFaults, idnOverlap>>
    BY <1>7 DEF idnVars
  <2>2. Typed /\ Placed
    BY DEF IdnInv
  <2>3. Typed'
    BY <2>1, <2>2 DEF Typed
  <2>4. \A k \in IdnJobs : idnJobs[k].run # None => idnJobs[k].decisions = {}
    BY <2>2 DEF Placed, Resolves, Applies, Run
  <2>5. Still
    BY <2>1, <2>4 DEF Still, tables
  <2> QED
    BY <2>3, <2>5, StillStep
<1> QED
  BY <1>1, <1>2, <1>3, <1>4, <1>5, <1>6, <1>7 DEF Next

\* A resolved task was applied as decided.
LEMMA ToldIsApplied ==
  ASSUME Typed, Placed, Told
  PROVE  ResolvedIsApplied
<1> SUFFICES ASSUME NEW p \in Pairs, idnTasks[p] = "resolved", Settled(p)
             PROVE  IF idnCandidates[p] = "confirmed"
                    THEN \/ AskedFor(p, {"confirm"}) /\ (Together(p) \/ SplitAsked(p) \/ idnOverlap)
                         \/ AskedFor(p, {"merge"})
                    ELSE /\ idnCandidates[p] = "rejected"
                         /\ \/ AskedFor(p, {"split"})
                            \/ AskedFor(p, {"reject"}) /\ p \in idnSuppressed
  BY DEF ResolvedIsApplied
<1>1. ToldOf(p)
  BY DEF Told
<1>2. CASE idnCandidates[p] = "confirmed"
  BY <1>1, <1>2 DEF ToldOf, Kept
<1>3. CASE idnCandidates[p] # "confirmed"
  <2>1. idnCandidates[p] = "rejected"
    BY <1>1, <1>3 DEF ToldOf
  <2>2. PICK d \in DecisionIds :
          On(d, p) /\ (idnDecisions[d].verdict = "reject" => p \in idnSuppressed)
    BY <1>1 DEF ToldOf
  <2>3. CASE AskedFor(p, {"split"})
    BY <1>3, <2>1, <2>3
  <2>4. CASE AskedFor(p, {"reject"}) /\ (p \in idnSuppressed \/ idnFaults > 0 \/ Suppressing(p))
    <3> SUFFICES p \in idnSuppressed
      BY <1>3, <2>1, <2>4
    <3> DEFINE on == {e \in DecisionIds : idnDecisions[e] # None /\ idnDecisions[e].pair = p}
    <3>1. PICK e \in DecisionIds : On(e, p) /\ idnDecisions[e].verdict = "reject"
      BY <2>4 DEF AskedFor, On
    <3>2. d \in on /\ e \in on
      BY <2>2, <3>1 DEF On
    <3>3. CASE Cardinality(on) = 1
      <4>1. IsFiniteSet(on)
        <5>1. IsFiniteSet(DecisionIds)
          BY FS_Interval, IdentityAssumption DEF DecisionIds
        <5> QED
          BY <5>1, FS_Subset
      <4>2. \E x : on = {x}
        <5> HIDE DEF on
        <5> QED
          BY <3>3, <4>1, FS_Singleton
      <4>3. d = e
        <5> HIDE DEF on
        <5> QED
          BY <3>2, <4>2
      <4> QED
        BY <2>2, <3>1, <4>3
    <3>4. CASE idnFaults = 0 /\ \A t \in Applying : Try(t[1], t[2]).decision \notin on
      <4>1. ~Suppressing(p)
        <5> SUFFICES ASSUME NEW k \in IdnJobs, NEW m \in Tries, Applies(k),
                            Try(k, m).at = "suppress", PairAt(k, m) = p
                     PROVE  FALSE
          BY DEF Suppressing
        <5>1. Try(k, m).at \in Deciding /\ Going(k, m)
          BY DEF Deciding, Going
        <5>2. /\ Try(k, m).decision \in DecisionIds
              /\ idnDecisions[Try(k, m).decision] \in Decision
              /\ idnDecisions[Try(k, m).decision].pair = p
          BY <5>1, DecisionAt
        <5>3. Try(k, m).decision \in on
          BY <5>2, IdnNone
        <5>4. <<k, m>> \in Applying
          BY <5>1 DEF Applying
        <5> HIDE DEF on
        <5> QED
          BY <3>4, <5>3, <5>4
      <4> QED
        BY <2>4, <3>4, <4>1
    <3> QED
      BY <3>3, <3>4 DEF Settled
  <2> QED
    BY <1>1, <2>1, <2>3, <2>4 DEF ToldOf
<1> QED
  BY <1>2, <1>3

LEMMA IdnInvImplies == IdnInv => IdentityInv
<1> SUFFICES ASSUME IdnInv PROVE IdentityInv
  OBVIOUS
<1>0. Typed /\ Placed /\ Counted /\ Matched /\ Told /\ RunningHasACause
  BY DEF IdnInv
<1>1. IdentityTypeOK
  BY <1>0 DEF Typed, IdentityTypeOK, RunStatuses, CandidateStatuses
<1>2. CompletedIsWhole
  <2> SUFFICES ASSUME NEW j \in IdnJobs, NEW n \in Tries, Resolves(j), Try(j, n).at = "done",
                      NEW m \in Try(j, n).read
               PROVE  IF m.as = "review" THEN idnTasks[m.pair] # None
                      ELSE idnOverlap \/ Together(m.pair) \/ SplitAsked(m.pair)
    BY DEF CompletedIsWhole
  <2>1. MatchedAt(j, n)
    BY <1>0 DEF Matched
  <2>2. Satisfied(m)
    BY <2>1 DEF MatchedAt, InHand
  <2> QED
    BY <2>2 DEF Satisfied, Kept
<1>3. ResolvedIsApplied
  BY <1>0, ToldIsApplied
<1>4. SuppressedIsRejected
  BY <1>0 DEF Typed, Told, ToldOf, SuppressedIsRejected
<1>5. CountsAreTrue
  <2> SUFFICES ASSUME idnFaults = 0, ~idnOverlap,
                      ~(\E j \in IdnJobs, n \in Tries : Going(j, n)),
                      NEW g \in Groups, idnGroups[g] \notin {None, Gone}
               PROVE  Exact(g)
    BY DEF CountsAreTrue, Exact, Size
  <2>1. ASSUME NEW j \in IdnJobs, NEW n \in Tries PROVE Unsettled(j, n) = {}
    <3>1. Try(j, n).at \in {"none", "done", "failed", "dead"}
      BY DEF Going
    <3> QED
      BY <3>1, NoneUnsettled DEF Regrouping
  <2> QED
    BY <1>0, <2>1 DEF Counted
<1> QED
  BY <1>0, <1>1, <1>2, <1>3, <1>4, <1>5 DEF IdentityInv

\* Identity resolution keeps all its promises, for any customers, matching, runs, requests
\* and jobs, however many fail, die or overlap: a completed run has merged and queued what
\* it read, a resolved task was applied as decided, only rejected pairs are suppressed,
\* members are counted, a run left 'running' has a cause.
THEOREM IdentityIsRight == Spec => []IdentityInv
<1>1. Spec => []IdnInv
  BY InitialIdentity, NextIdentity, PTL DEF Spec
<1> QED
  BY <1>1, IdnInvImplies, PTL

(***************************************************************************)
(* Digests have any runs, actors, cadence, week and bounds.  NoGap holds   *)
(* in every order of ticks, jobs and failures: what a job has read reaches *)
(* back to a period that was mailed (Weekly), and so does all between two  *)
(* completed runs while jobs do not overlap (Serial).  MailedOnce needs in *)
(* addition that the run that completed last is the one with the latest    *)
(* period (Once).  All steps but three are quiet: they read, mail and      *)
(* complete nothing.                                                       *)
(***************************************************************************)
Digest == INSTANCE Digests

\* Where a job is between reading an active subscription and completing its run.
Active == {"start", "period", "mail", "complete"}

\* A request or a tick inserts and queues a run that no job and no other knows.
Busy ==
  /\ \A a \in Actors : digActors[a].at # "idle" =>
       digActors[a].run \in DigestRuns /\ digJobs[digActors[a].run].at = "none"
  /\ \A a, b \in Actors :
       digActors[a].at # "idle" /\ digActors[b].at # "idle" /\ digActors[a].run = digActors[b].run
         => a = b

Timely == \A r \in DigestRuns : digRuns[r].end <= digNow /\ digJobs[r].end <= digNow

\* The run that completed last.
Top ==
  DigestRuns # {}
    => \E x \in DigestRuns : \A r \in DigestRuns : digRuns[r].order <= digRuns[x].order

\* What a job has read, and mailed, reaches back a week.
Weekly ==
  /\ \A r \in Completed : \A t \in (digRuns[r].end - Week)..(digRuns[r].end - 1) : Covered(t)
  /\ \A r \in DigestRuns :
       /\ digJobs[r].at = "mail" =>
            \A t \in (digJobs[r].end - Week)..(digJobs[r].start - 1) : Covered(t)
       /\ digJobs[r].at = "complete" =>
            /\ \A t \in (digJobs[r].end - Week)..(digJobs[r].end - 1) : Covered(t)
            /\ [run |-> r, start |-> digJobs[r].start, end |-> digJobs[r].end] \in digMailed
  /\ digSub = "deleted" => Completed = {}

\* Jobs that do not overlap leave nothing out between two of their digests.
Serial ==
  ~digOverlap =>
    /\ \A r, s \in DigestRuns : digJobs[r].at \in Active /\ digJobs[s].at \in Active => r = s
    /\ \A r, s \in Completed : \A t \in digRuns[s].end..(digRuns[r].end - 1) : Covered(t)
    /\ \A r \in DigestRuns : \A s \in Completed :
         /\ digJobs[r].at \in {"mail", "complete"} => digRuns[s].end <= digJobs[r].end
         /\ digJobs[r].at = "mail" =>
              \A t \in digRuns[s].end..(digJobs[r].start - 1) : Covered(t)
         /\ digJobs[r].at = "complete" =>
              \A t \in digRuns[s].end..(digJobs[r].end - 1) : Covered(t)

\* And, undisturbed, they mail nothing again: the period of the run that completed
\* last ends after all that was mailed.
Undisturbed == digFaults = 0 /\ ~digOverlap /\ digSub # "deleted"
Once ==
  Undisturbed =>
    /\ \A m, n \in digMailed : m # n => m.end <= n.start \/ n.end <= m.start
    /\ \A m \in digMailed :
         \/ digRuns[m.run].status = "completed" /\ m.end = digRuns[m.run].end
         \/ digJobs[m.run].at = "complete" /\ m.end = digJobs[m.run].end
    /\ \A r \in DigestRuns : digJobs[r].at # "fail"
    /\ \A r \in Completed : digJobs[r].at \in {"return", "ended"}
    /\ \A r, s \in Completed : digRuns[s].order <= digRuns[r].order
         => digRuns[s].end <= digRuns[r].end
    /\ \A r \in DigestRuns : digJobs[r].at = "mail" =>
         \A m \in digMailed : m.end <= digJobs[r].start

DigestIInv == DigestTypeOK /\ Busy /\ Timely /\ Top /\ Weekly /\ Serial /\ Once

(***************************************************************************)
(* Frames                                                                  *)
(***************************************************************************)
LEMMA StepFrame ==
  ASSUME DigestTypeOK, NEW r \in DigestRuns, NEW at \in DigestStages, Digest!Step(r, at)
  PROVE  /\ digJobs' \in [DigestRuns -> DigestJob]
         /\ digJobs'[r].at = at /\ digJobs'[r].start = digJobs[r].start
         /\ digJobs'[r].end = digJobs[r].end
         /\ \A s \in DigestRuns : s # r => digJobs'[s] = digJobs[s]
<1> DEFINE new == [digJobs[r] EXCEPT !.at = at]
<1>1. digJobs[r] \in DigestJob /\ digJobs' = [digJobs EXCEPT ![r] = new]
  BY DEF DigestTypeOK, Digest!Step
<1>2. /\ new \in DigestJob /\ new.at = at /\ new.start = digJobs[r].start
      /\ new.end = digJobs[r].end
  BY <1>1 DEF DigestJob
<1> HIDE DEF new
<1>3. /\ digJobs' \in [DigestRuns -> DigestJob] /\ digJobs'[r] = new
      /\ \A s \in DigestRuns : s # r => digJobs'[s] = digJobs[s]
  BY <1>1, <1>2 DEF DigestTypeOK
<1> QED
  BY <1>2, <1>3

LEMMA SetRunFrame ==
  ASSUME DigestTypeOK, NEW r \in DigestRuns, NEW status \in DigestStatuses, Digest!SetRun(r, status)
  PROVE  /\ digRuns' \in [DigestRuns -> DigestRun]
         /\ digRuns'[r].status = status /\ digRuns'[r].order = digRuns[r].order
         /\ digRuns'[r].end = digRuns[r].end
         /\ \A s \in DigestRuns : s # r => digRuns'[s] = digRuns[s]
<1> DEFINE new == [digRuns[r] EXCEPT !.status = status]
<1>1. digRuns[r] \in DigestRun /\ digRuns' = [digRuns EXCEPT ![r] = new]
  BY DEF DigestTypeOK, Digest!SetRun
<1>2. /\ new \in DigestRun /\ new.status = status /\ new.order = digRuns[r].order
      /\ new.end = digRuns[r].end
  BY <1>1 DEF DigestRun
<1> HIDE DEF new
<1>3. /\ digRuns' \in [DigestRuns -> DigestRun] /\ digRuns'[r] = new
      /\ \A s \in DigestRuns : s # r => digRuns'[s] = digRuns[s]
  BY <1>1, <1>2 DEF DigestTypeOK
<1> QED
  BY <1>2, <1>3

LEMMA CoveredStays ==
  ASSUME digMailed \subseteq digMailed', NEW t, Covered(t)
  PROVE  Covered(t)'
BY DEF Covered

(***************************************************************************)
(* Steps that mail, read and complete nothing                              *)
(***************************************************************************)
QuietRuns ==
  /\ digMailed' = digMailed /\ digNow <= digNow' /\ digNow' \in 0..MaxTime
  /\ digRuns' \in [DigestRuns -> DigestRun] /\ digJobs' \in [DigestRuns -> DigestJob]
  /\ \A r \in DigestRuns :
       /\ digRuns'[r].end = digRuns[r].end /\ digRuns'[r].order = digRuns[r].order
       /\ digJobs'[r].end = digJobs[r].end /\ digJobs'[r].start = digJobs[r].start
       /\ digRuns'[r].status = "completed" => digRuns[r].status = "completed"
       /\ digJobs'[r].at \in {"mail", "complete"} => digJobs'[r].at = digJobs[r].at

\* A job becomes active beside none, or overlaps it.
QuietJobs ==
  /\ digOverlap' \in BOOLEAN /\ (digOverlap => digOverlap')
  /\ \A r \in DigestRuns : digJobs'[r].at \in Active =>
       \/ digJobs[r].at \in Active
       \/ ~digOverlap' => \A s \in DigestRuns : s # r => digJobs'[s].at \notin Active

\* Undisturbed, a completed run stays so, and a mailed one is about to complete.
QuietOnce ==
  /\ digFaults' \in digFaults..MaxFaults
  /\ digSub' \in {"active", "inactive", "deleted"}
  /\ digSub = "deleted" => digSub' = "deleted"
  /\ digSub' = "deleted" => digSub = "deleted" \/ \A r \in DigestRuns : digRuns'[r].status = "none"
  /\ digFaults' = digFaults /\ digSub' # "deleted" =>
       \A r \in DigestRuns :
         /\ digRuns[r].status = "completed" /\ digJobs[r].at \in {"return", "ended"} =>
              digRuns'[r].status = "completed" /\ digJobs'[r].at \in {"return", "ended"}
         /\ digJobs[r].at = "complete" => digJobs'[r].at = "complete"
         /\ digJobs'[r].at = "fail" => digJobs[r].at = "fail"

Quiet == QuietRuns /\ QuietJobs /\ QuietOnce

\* What such a step leaves true.
LEMMA QuietWeekly ==
  ASSUME DigestTypeOK, Timely, Top, Weekly, Quiet
  PROVE  Timely' /\ Top' /\ Weekly'
<1> USE DEF Quiet, QuietRuns, QuietOnce
<1>1. \A t : Covered(t)' <=> Covered(t)
  BY DEF Covered
<1>2. \A r \in DigestRuns : r \in Completed' => r \in Completed
  BY DEF Completed
<1>3. Timely'
  BY DEF Timely, DigestTypeOK, DigestRun, DigestJob
<1>4. Top'
  BY DEF Top
<1>5. ASSUME NEW r \in Completed'
      PROVE  \A t \in (digRuns'[r].end - Week)..(digRuns'[r].end - 1) : Covered(t)'
  <2>1. r \in DigestRuns /\ r \in Completed
    BY <1>2, <1>5 DEF Completed
  <2> QED
    BY <1>1, <2>1 DEF Weekly
<1>6. ASSUME NEW r \in DigestRuns
      PROVE  /\ digJobs'[r].at = "mail" =>
                  \A t \in (digJobs'[r].end - Week)..(digJobs'[r].start - 1) : Covered(t)'
             /\ digJobs'[r].at = "complete" =>
                  /\ \A t \in (digJobs'[r].end - Week)..(digJobs'[r].end - 1) : Covered(t)'
                  /\ [run |-> r, start |-> digJobs'[r].start,
                       end |-> digJobs'[r].end] \in digMailed'
  BY <1>1 DEF Weekly
<1>7. digSub' = "deleted" => Completed' = {}
  BY <1>2 DEF Weekly, Completed
<1> QED
  BY <1>3, <1>4, <1>5, <1>6, <1>7 DEF Weekly

LEMMA QuietSerial ==
  ASSUME DigestTypeOK, Serial, Quiet
  PROVE  Serial'
<1> USE DEF Quiet, QuietRuns, QuietJobs
<1> SUFFICES ASSUME ~digOverlap' PROVE Serial'
  BY DEF Serial
<1>1. \A t : Covered(t)' <=> Covered(t)
  BY DEF Covered
<1>2. \A r : r \in Completed' => r \in Completed /\ r \in DigestRuns
  BY DEF Completed
<1>3. ~digOverlap
  OBVIOUS
<1>4. ASSUME NEW r \in DigestRuns, NEW s \in DigestRuns,
             digJobs'[r].at \in Active, digJobs'[s].at \in Active
      PROVE  r = s
  BY <1>3, <1>4 DEF Serial
<1>5. ASSUME NEW r \in Completed', NEW s \in Completed'
      PROVE  \A t \in digRuns'[s].end..(digRuns'[r].end - 1) : Covered(t)'
  BY <1>1, <1>2, <1>3, <1>5 DEF Serial
<1>6. ASSUME NEW r \in DigestRuns, NEW s \in Completed'
      PROVE  /\ digJobs'[r].at \in {"mail", "complete"} => digRuns'[s].end <= digJobs'[r].end
             /\ digJobs'[r].at = "mail" =>
                  \A t \in digRuns'[s].end..(digJobs'[r].start - 1) : Covered(t)'
             /\ digJobs'[r].at = "complete" =>
                  \A t \in digRuns'[s].end..(digJobs'[r].end - 1) : Covered(t)'
  BY <1>1, <1>2, <1>3, <1>6 DEF Serial
<1> QED
  BY <1>4, <1>5, <1>6 DEF Serial

LEMMA QuietlyOnce ==
  ASSUME DigestTypeOK, Once, Quiet
  PROVE  Once'
<1> USE DEF Quiet, QuietRuns, QuietJobs, QuietOnce
<1> SUFFICES ASSUME Undisturbed' PROVE Once'
  BY DEF Once
<1>1. Undisturbed /\ digFaults' = digFaults /\ digSub' # "deleted"
  BY DigestAssumption DEF Undisturbed, DigestTypeOK
<1>2. \A r : r \in Completed' => r \in Completed /\ r \in DigestRuns
  BY DEF Completed
<1>3. \A m \in digMailed : m.run \in DigestRuns
  BY DEF DigestTypeOK
<1>4. \A r \in Completed : digRuns'[r].status = "completed"
        /\ digJobs'[r].at \in {"return", "ended"}
  BY <1>1 DEF Once, Completed
<1>5. ASSUME NEW m \in digMailed'
      PROVE  \/ digRuns'[m.run].status = "completed" /\ m.end = digRuns'[m.run].end
             \/ digJobs'[m.run].at = "complete" /\ m.end = digJobs'[m.run].end
  BY <1>1, <1>3, <1>4 DEF Once, Completed
<1>6. \A r \in DigestRuns : digJobs'[r].at # "fail"
  BY <1>1 DEF Once
<1>7. \A r \in Completed' : digJobs'[r].at \in {"return", "ended"}
  BY <1>2, <1>4
<1>8. \A r, s \in Completed' :
        digRuns'[s].order <= digRuns'[r].order => digRuns'[s].end <= digRuns'[r].end
  BY <1>1, <1>2 DEF Once
<1>9. \A r \in DigestRuns : digJobs'[r].at = "mail" =>
        \A m \in digMailed' : m.end <= digJobs'[r].start
  BY <1>1 DEF Once
<1>10. \A m, n \in digMailed' : m # n => m.end <= n.start \/ n.end <= m.start
  BY <1>1 DEF Once
<1> QED
  BY <1>5, <1>6, <1>7, <1>8, <1>9, <1>10 DEF Once

LEMMA QuietSteps ==
  ASSUME DigestTypeOK, Busy,
         \/ Digest!Toggle \/ Digest!DeleteSub \/ Digest!Pass
         \/ \E a \in Actors :
              Digest!CheckSubscription(a) \/ Digest!Trigger(a) \/ Digest!InsertRun(a)
                \/ Digest!Enqueue(a) \/ Digest!SchedulingFails(a)
         \/ \E r \in DigestRuns :
              Digest!Fetch(r) \/ Digest!ReadSubscription(r) \/ Digest!StartRun(r) \/ Digest!Fail(r)
                \/ Digest!Return(r)
                \/ Digest!Throws(r) \/ Digest!Dies(r)
  PROVE  Quiet
<1> USE DEF Quiet, QuietRuns, QuietJobs, QuietOnce
<1>0. /\ digRuns \in [DigestRuns -> DigestRun] /\ digJobs \in [DigestRuns -> DigestJob]
      /\ digNow \in 0..MaxTime /\ digFaults \in 0..MaxFaults /\ digOverlap \in BOOLEAN
      /\ digSub \in {"active", "inactive", "deleted"}
      /\ digNow <= digNow /\ digFaults \in digFaults..MaxFaults
      /\ digFaults < MaxFaults => digFaults + 1 \in digFaults..MaxFaults
           /\ digFaults + 1 # digFaults
  BY DigestAssumption DEF DigestTypeOK
\* The rows and the jobs stay.
<1>1. CASE Digest!Toggle
  BY <1>0, <1>1 DEF Digest!Toggle
<1>2. CASE Digest!DeleteSub
  <2>1. /\ digSub' = "deleted"
        /\ digRuns' = [r \in DigestRuns |-> [digRuns[r] EXCEPT !.status = "none"]]
        /\ UNCHANGED <<digNow, digJobs, digActors, digMailed, digFaults, digOverlap>>
    BY <1>2 DEF Digest!DeleteSub
  <2>2. ASSUME NEW r \in DigestRuns
        PROVE  /\ digRuns'[r] \in DigestRun /\ digRuns'[r].status = "none"
               /\ digRuns'[r].end = digRuns[r].end /\ digRuns'[r].order = digRuns[r].order
    BY <1>0, <2>1 DEF DigestRun, DigestStatuses
  <2>3. digRuns' \in [DigestRuns -> DigestRun]
    BY <2>1, <2>2
  <2> QED
    BY <1>0, <2>1, <2>2, <2>3
<1>3. CASE Digest!Pass
  <2>1. digNow' \in 0..MaxTime /\ digNow <= digNow'
    BY <1>0, <1>3, DigestAssumption DEF Digest!Pass
  <2> QED
    BY <1>0, <1>3, <2>1 DEF Digest!Pass
<1>4. ASSUME NEW a \in Actors, Digest!CheckSubscription(a) \/ Digest!Trigger(a) PROVE Quiet
  BY <1>0, <1>4 DEF Digest!CheckSubscription, Digest!Trigger
<1>5. ASSUME NEW a \in Actors, Digest!InsertRun(a) PROVE Quiet
  <2> DEFINE r == digActors[a].run
  <2>1. /\ Digest!SetRun(r, "pending")
        /\ UNCHANGED <<digSub, digNow, digJobs, digMailed, digFaults, digOverlap>>
    BY <1>5 DEF Digest!InsertRun
  <2>2. r \in DigestRuns /\ digJobs[r].at = "none"
    BY <1>5 DEF Digest!InsertRun, Busy
  <2> HIDE DEF r
  <2>3. /\ digRuns' \in [DigestRuns -> DigestRun]
        /\ digRuns'[r].status = "pending" /\ digRuns'[r].order = digRuns[r].order
        /\ digRuns'[r].end = digRuns[r].end
        /\ \A s \in DigestRuns : s # r => digRuns'[s] = digRuns[s]
    BY <2>1, <2>2, SetRunFrame DEF DigestStatuses
  <2> QED
    BY <1>0, <2>1, <2>2, <2>3
\* A job moves, and maybe its row.
<1>6. ASSUME NEW r \in DigestRuns, NEW at \in DigestStages, Digest!Step(r, at), at \notin Active,
             at = "fail" => digFaults' # digFaults \/ digSub' = "deleted",
             digJobs[r].at = "complete" => digFaults' # digFaults,
             digJobs[r].at \in {"return", "ended"} => at = "ended" \/ digFaults' # digFaults,
             digFaults' \in digFaults..MaxFaults,
             UNCHANGED <<digSub, digNow, digMailed>>,
             digOverlap' \in BOOLEAN /\ (digOverlap => digOverlap'),
             \/ UNCHANGED digRuns
             \/ /\ digJobs[r].at \notin {"return", "ended"}
                /\ \E status \in {"skipped", "failed"} : Digest!SetRun(r, status)
      PROVE  Quiet
  <2>1. /\ digJobs' \in [DigestRuns -> DigestJob]
        /\ digJobs'[r].at = at /\ digJobs'[r].start = digJobs[r].start
        /\ digJobs'[r].end = digJobs[r].end
        /\ \A s \in DigestRuns : s # r => digJobs'[s] = digJobs[s]
    BY <1>6, StepFrame
  <2>2. CASE UNCHANGED digRuns
    BY <1>0, <1>6, <2>1, <2>2 DEF Active
  <2>3. ASSUME digJobs[r].at \notin {"return", "ended"},
               NEW status \in {"skipped", "failed"}, Digest!SetRun(r, status)
        PROVE  Quiet
    <3>1. /\ digRuns' \in [DigestRuns -> DigestRun]
          /\ digRuns'[r].status = status /\ digRuns'[r].order = digRuns[r].order
          /\ digRuns'[r].end = digRuns[r].end
          /\ \A s \in DigestRuns : s # r => digRuns'[s] = digRuns[s]
      BY <2>3, SetRunFrame DEF DigestStatuses
    <3> QED
      BY <1>0, <1>6, <2>1, <2>3, <3>1 DEF Active
  <2> QED
    BY <1>6, <2>2, <2>3
<1>7. ASSUME NEW a \in Actors, Digest!Enqueue(a) PROVE Quiet
  <2>1. digActors[a].run \in DigestRuns /\ digJobs[digActors[a].run].at = "none"
    BY <1>7 DEF Digest!Enqueue, Busy
  <2> QED
    BY <1>0, <1>6, <1>7, <2>1 DEF Digest!Enqueue, DigestStages, Active
<1>8. ASSUME NEW a \in Actors, Digest!SchedulingFails(a) PROVE Quiet
  <2>1. digActors[a].run \in DigestRuns /\ digJobs[digActors[a].run].at = "none"
    BY <1>8 DEF Digest!SchedulingFails, Busy
  <2>2. digFaults' \in digFaults..MaxFaults
    BY <1>0, <1>8 DEF Digest!SchedulingFails
  <2> QED
    BY <1>0, <1>6, <1>8, <2>1, <2>2 DEF Digest!SchedulingFails, DigestStages, Active
<1>9. ASSUME NEW r \in DigestRuns, Digest!Fetch(r) PROVE Quiet
  BY <1>0, <1>6, <1>9 DEF Digest!Fetch, DigestStages, Active
<1>10. ASSUME NEW r \in DigestRuns, Digest!ReadSubscription(r) PROVE Quiet
  <2>0. /\ digJobs[r].at = "read"
        /\ UNCHANGED <<digSub, digNow, digMailed, digFaults>>
        /\ digOverlap' = (digOverlap \/ \E s \in DigestRuns \ {r} : Digest!Under(s))
        /\ digOverlap' \in BOOLEAN
    BY <1>10 DEF Digest!ReadSubscription
  <2>1. CASE digSub = "active"
    <3>1. Digest!Step(r, "start") /\ UNCHANGED digRuns
      BY <1>10, <2>1 DEF Digest!ReadSubscription
    <3>2. /\ digJobs' \in [DigestRuns -> DigestJob]
          /\ digJobs'[r].at = "start" /\ digJobs'[r].start = digJobs[r].start
          /\ digJobs'[r].end = digJobs[r].end
          /\ \A s \in DigestRuns : s # r => digJobs'[s] = digJobs[s]
      BY <3>1, StepFrame DEF DigestStages
    <3>3. ~digOverlap' => \A s \in DigestRuns : s # r => digJobs'[s].at \notin Active
      BY <2>0, <3>2 DEF Digest!Under, Active
    <3> QED
      BY <1>0, <2>0, <3>1, <3>2, <3>3
  <2>2. CASE digSub = "deleted"
    <3>1. Digest!Step(r, "fail") /\ UNCHANGED digRuns
      BY <1>10, <2>2 DEF Digest!ReadSubscription
    <3> QED
      BY <1>0, <1>6, <2>0, <2>2, <3>1 DEF DigestStages, Active
  <2>3. CASE digSub = "inactive"
    <3>1. Digest!Step(r, "return") /\ Digest!SetRun(r, "skipped")
      BY <1>10, <2>3 DEF Digest!ReadSubscription
    <3> QED
      BY <1>0, <1>6, <2>0, <3>1 DEF DigestStages, Active
  <2> QED
    BY <1>0, <2>1, <2>2, <2>3
<1>11. ASSUME NEW r \in DigestRuns, Digest!StartRun(r) PROVE Quiet
  <2>0. /\ digJobs[r].at = "start" /\ Digest!Step(r, "period")
        /\ UNCHANGED <<digSub, digNow, digMailed, digFaults, digOverlap>>
    BY <1>11 DEF Digest!StartRun
  <2>1. /\ digJobs' \in [DigestRuns -> DigestJob]
        /\ digJobs'[r].at = "period" /\ digJobs'[r].start = digJobs[r].start
        /\ digJobs'[r].end = digJobs[r].end
        /\ \A s \in DigestRuns : s # r => digJobs'[s] = digJobs[s]
    BY <2>0, StepFrame DEF DigestStages
  <2>2. CASE UNCHANGED digRuns
    BY <1>0, <2>0, <2>1, <2>2 DEF Active
  <2>3. CASE Digest!SetRun(r, "running")
    <3>1. /\ digRuns' \in [DigestRuns -> DigestRun]
          /\ digRuns'[r].status = "running" /\ digRuns'[r].order = digRuns[r].order
          /\ digRuns'[r].end = digRuns[r].end
          /\ \A s \in DigestRuns : s # r => digRuns'[s] = digRuns[s]
      BY <2>3, SetRunFrame DEF DigestStatuses
    <3> QED
      BY <1>0, <2>0, <2>1, <3>1 DEF Active
  <2> QED
    BY <1>11, <2>2, <2>3 DEF Digest!StartRun
<1>12. ASSUME NEW r \in DigestRuns, Digest!Fail(r) PROVE Quiet
  BY <1>0, <1>6, <1>12 DEF Digest!Fail, DigestStages, Active
<1>13. ASSUME NEW r \in DigestRuns, Digest!Return(r) PROVE Quiet
  BY <1>0, <1>6, <1>13 DEF Digest!Return, DigestStages, Active
<1>14. ASSUME NEW r \in DigestRuns, Digest!Throws(r) PROVE Quiet
  <2>1. /\ Digest!Step(r, "fail") /\ digFaults' = digFaults + 1 /\ digFaults < MaxFaults
        /\ UNCHANGED <<digSub, digNow, digRuns, digMailed, digOverlap>>
    BY <1>14 DEF Digest!Throws
  <2> QED
    BY <1>0, <1>6, <2>1 DEF DigestStages, Active
<1>15. ASSUME NEW r \in DigestRuns, Digest!Dies(r) PROVE Quiet
  <2>1. PICK at \in {"queued", "ended"} : Digest!Step(r, at)
    BY <1>15 DEF Digest!Dies
  <2>2. /\ digFaults' = digFaults + 1 /\ digFaults < MaxFaults
        /\ UNCHANGED <<digSub, digNow, digRuns, digMailed, digOverlap>>
    BY <1>15 DEF Digest!Dies
  <2> QED
    BY <1>0, <1>6, <2>1, <2>2 DEF DigestStages, Active
<1> QED
  BY <1>1, <1>2, <1>3, <1>4, <1>5, <1>7, <1>8, <1>9, <1>10, <1>11, <1>12, <1>13, <1>14, <1>15

LEMMA ActorsStep ==
  ASSUME DigestTypeOK, Busy, Digest!Next
  PROVE  digActors' \in [Actors -> DigestActor] /\ Busy'
<1>0. /\ digActors \in [Actors -> DigestActor]
      /\ \A a \in Actors : digActors[a].at # "idle" =>
           digActors[a].run \in DigestRuns /\ digJobs[digActors[a].run].at = "none"
  BY DEF DigestTypeOK, Busy
<1>1. ASSUME UNCHANGED digActors,
             \A r \in DigestRuns : digJobs[r].at = "none" => digJobs'[r].at = "none"
      PROVE  digActors' \in [Actors -> DigestActor] /\ Busy'
  BY <1>0, <1>1 DEF Busy
<1>2. ASSUME NEW r \in DigestRuns, Digest!Send(r) \/ Digest!Throws(r) \/ Digest!Dies(r)
      PROVE  digActors' \in [Actors -> DigestActor] /\ Busy'
  <2>1. UNCHANGED digActors /\ digJobs[r].at # "none"
    <3>1. CASE Digest!Fetch(r) \/ Digest!ReadSubscription(r) \/ Digest!StartRun(r)
                 \/ Digest!ReadPeriod(r) \/ Digest!Mail(r)
      BY <3>1 DEF Digest!Fetch, Digest!ReadSubscription, Digest!StartRun, Digest!ReadPeriod,
                    Digest!Mail
    <3>2. CASE Digest!Complete(r) \/ Digest!Fail(r) \/ Digest!Return(r) \/ Digest!Throws(r)
                 \/ Digest!Dies(r)
      BY <3>2 DEF Digest!Complete, Digest!Fail, Digest!Return, Digest!Throws, Digest!Dies
    <3> QED
      BY <1>2, <3>1, <3>2 DEF Digest!Send
  <2>2. \E new : digJobs' = [digJobs EXCEPT ![r] = new]
    <3>1. ASSUME NEW at, Digest!Step(r, at) PROVE \E new : digJobs' = [digJobs EXCEPT ![r] = new]
      BY <3>1 DEF Digest!Step
    <3>2. CASE Digest!Fetch(r) \/ Digest!ReadSubscription(r) \/ Digest!StartRun(r)
      BY <3>1, <3>2 DEF Digest!Fetch, Digest!ReadSubscription, Digest!StartRun
    <3>3. CASE Digest!Mail(r) \/ Digest!Complete(r) \/ Digest!Fail(r) \/ Digest!Return(r)
                 \/ Digest!Throws(r) \/ Digest!Dies(r)
      BY <3>1, <3>3 DEF Digest!Mail, Digest!Complete, Digest!Fail, Digest!Return, Digest!Throws,
           Digest!Dies
    <3>4. CASE Digest!ReadPeriod(r)
      <4>1. PICK start : digJobs' = [digJobs EXCEPT ![r] = [at |-> "mail", start |-> start,
              end |-> digNow]]
        BY <3>4 DEF Digest!ReadPeriod
      <4> QED
        BY <4>1
    <3> QED
      BY <1>2, <3>2, <3>3, <3>4 DEF Digest!Send
  <2>3. \A s \in DigestRuns : s # r => digJobs'[s] = digJobs[s]
    BY <2>2 DEF DigestTypeOK
  <2> QED
    BY <1>1, <2>1, <2>3
<1>3. CASE Digest!Toggle \/ Digest!DeleteSub \/ Digest!Pass
  BY <1>1, <1>3 DEF Digest!Toggle, Digest!DeleteSub, Digest!Pass
<1>4. ASSUME NEW a \in Actors, Digest!CheckSubscription(a) \/ Digest!Trigger(a)
      PROVE  digActors' \in [Actors -> DigestActor] /\ Busy'
  <2>1. PICK r \in Digest!Fresh : digActors' = [digActors EXCEPT ![a] = [at |-> "insertRun",
          run |-> r]]
    BY <1>4 DEF Digest!CheckSubscription, Digest!Trigger
  <2>2. /\ r \in DigestRuns /\ digJobs[r].at = "none" /\ UNCHANGED digJobs
        /\ \A b \in Actors : digActors[b].run # r
    BY <1>4 DEF Digest!Fresh, Digest!CheckSubscription, Digest!Trigger
  <2>3. [at |-> "insertRun", run |-> r] \in DigestActor
    BY <2>2 DEF DigestActor
  <2>4. /\ digActors' \in [Actors -> DigestActor]
        /\ digActors'[a].run = r
        /\ \A b \in Actors : b # a => digActors'[b] = digActors[b]
    BY <1>0, <2>1, <2>3
  <2> QED
    BY <1>0, <2>2, <2>4 DEF Busy
<1>5. ASSUME NEW a \in Actors, Digest!InsertRun(a)
      PROVE  digActors' \in [Actors -> DigestActor] /\ Busy'
  <2> DEFINE new == [digActors[a] EXCEPT !.at = "enqueue"]
  <2>1. /\ digActors' = [digActors EXCEPT ![a] = new] /\ UNCHANGED digJobs
        /\ digActors[a].at = "insertRun" /\ digActors[a] \in DigestActor
    BY <1>0, <1>5 DEF Digest!InsertRun
  <2>2. new \in DigestActor /\ new.run = digActors[a].run
    BY <2>1 DEF DigestActor
  <2> HIDE DEF new
  <2>3. /\ digActors' \in [Actors -> DigestActor] /\ digActors'[a].run = digActors[a].run
        /\ \A b \in Actors : b # a => digActors'[b] = digActors[b]
    BY <1>0, <2>1, <2>2
  <2> QED
    BY <1>0, <2>1, <2>3 DEF Busy
<1>6. ASSUME NEW a \in Actors, Digest!Enqueue(a) \/ Digest!SchedulingFails(a)
      PROVE  digActors' \in [Actors -> DigestActor] /\ Busy'
  <2> DEFINE idle == [at |-> "idle", run |-> NoRun]
  <2>1. /\ digActors' = [digActors EXCEPT ![a] = idle] /\ digActors[a].at # "idle"
        /\ \E at : Digest!Step(digActors[a].run, at)
    BY <1>6 DEF Digest!Enqueue, Digest!SchedulingFails
  <2>2. idle \in DigestActor /\ idle.at = "idle"
    BY DEF DigestActor
  <2> HIDE DEF idle
  <2>3. /\ digActors' \in [Actors -> DigestActor] /\ digActors'[a].at = "idle"
        /\ \A b \in Actors : b # a => digActors'[b] = digActors[b]
    BY <1>0, <2>1, <2>2
  <2>4. \A r \in DigestRuns : r # digActors[a].run => digJobs'[r] = digJobs[r]
    BY <2>1 DEF Digest!Step, DigestTypeOK
  <2> QED
    BY <1>0, <2>1, <2>3, <2>4 DEF Busy
<1> QED
  BY <1>2, <1>3, <1>4, <1>5, <1>6 DEF Digest!Next, Digest!Schedule

(***************************************************************************)
(* The steps that read, mail and complete                                  *)
(***************************************************************************)
LEMMA DigestTypes ==
  ASSUME DigestTypeOK, NEW r \in DigestRuns
  PROVE  /\ digRuns[r].end \in 0..MaxTime /\ digRuns[r].order \in Nat
         /\ digRuns[r].status \in DigestStatuses
         /\ digJobs[r].start \in Times /\ digJobs[r].end \in 0..MaxTime
         /\ digNow \in 0..MaxTime /\ 0..MaxTime \subseteq Int /\ Times \subseteq Int
BY DigestAssumption DEF DigestTypeOK, DigestRun, DigestJob, Times

LEMMA ReadPeriodStep ==
  ASSUME DigestIInv, NEW r \in DigestRuns, Digest!ReadPeriod(r)
  PROVE  DigestTypeOK' /\ Timely' /\ Top' /\ Weekly' /\ Serial' /\ Once'
<1> USE DEF DigestIInv
<1>0. /\ digJobs[r].at = "period"
      /\ UNCHANGED <<digSub, digNow, digRuns, digActors, digMailed, digFaults, digOverlap>>
  BY DEF Digest!ReadPeriod
<1>1. PICK start \in IF Completed = {} THEN {digNow - Week}
                     ELSE {digRuns[s].end : s \in Digest!LastRuns} :
        digJobs' = [digJobs EXCEPT ![r] = [at |-> "mail", start |-> start, end |-> digNow]]
  BY DEF Digest!ReadPeriod, Digest!Completed, Completed
<1>2. \A s \in Completed : s \in DigestRuns
  BY DEF Completed
<1>3. \/ Completed = {} /\ start = digNow - Week
      \/ \E s \in Digest!LastRuns : s \in Completed /\ start = digRuns[s].end
  BY <1>1 DEF Digest!LastRuns, Digest!Completed, Completed
<1>4. start \in Times /\ digNow \in 0..MaxTime
  BY <1>2, <1>3, DigestTypes, DigestAssumption DEF Times
<1>5. /\ digJobs' \in [DigestRuns -> DigestJob]
      /\ digJobs'[r].at = "mail" /\ digJobs'[r].start = start /\ digJobs'[r].end = digNow
      /\ \A s \in DigestRuns : s # r => digJobs'[s] = digJobs[s]
  <2>1. [at |-> "mail", start |-> start, end |-> digNow] \in DigestJob
    BY <1>4 DEF DigestJob, DigestStages
  <2> QED
    BY <1>1, <2>1 DEF DigestTypeOK
<1>6. (\A t : Covered(t)' <=> Covered(t)) /\ Completed' = Completed
  BY <1>0 DEF Covered, Completed
<1>7. DigestTypeOK'
  BY <1>0, <1>5 DEF DigestTypeOK
<1>8. Timely' /\ Top'
  BY <1>0, <1>4, <1>5 DEF Timely, Top
<1>9. Weekly'
  <2>1. \A t \in (digNow - Week)..(start - 1) : Covered(t)
    <3>1. CASE Completed = {} /\ start = digNow - Week
      BY <1>4, <3>1, DigestAssumption
    <3>2. ASSUME NEW s \in Completed, start = digRuns[s].end
          PROVE  \A t \in (digNow - Week)..(start - 1) : Covered(t)
      <4>1. digRuns[s].end <= digNow /\ s \in DigestRuns
        BY <1>2 DEF Timely
      <4>2. \A t \in (digRuns[s].end - Week)..(digRuns[s].end - 1) : Covered(t)
        BY DEF Weekly
      <4>3. (digNow - Week)..(start - 1) \subseteq (digRuns[s].end - Week)..(digRuns[s].end - 1)
        BY <3>2, <4>1, DigestTypes, DigestAssumption
      <4> QED
        BY <4>2, <4>3
    <3> QED
      BY <1>3, <3>1, <3>2
  <2> QED
    BY <1>0, <1>5, <1>6, <2>1 DEF Weekly
<1>10. Serial'
  <2> SUFFICES ASSUME ~digOverlap PROVE Serial'
    BY <1>0 DEF Serial
  <2>1. ASSUME NEW s \in Completed
        PROVE  /\ digRuns[s].end <= digNow
               /\ \A t \in digRuns[s].end..(start - 1) : Covered(t)
    BY <1>2, <1>3 DEF Timely, Serial
  <2>2. \A q, s \in DigestRuns : digJobs'[q].at \in Active /\ digJobs'[s].at \in Active => q = s
    BY <1>0, <1>5 DEF Serial, Active
  <2> QED
    BY <1>0, <1>2, <1>5, <1>6, <2>1, <2>2 DEF Serial
<1>11. Once'
  <2> SUFFICES ASSUME Undisturbed PROVE Once'
    BY <1>0 DEF Once, Undisturbed
  <2>1. \A m \in digMailed : m.run \in DigestRuns
    BY DEF DigestTypeOK
  <2>2. \A s \in DigestRuns : digJobs[s].at # "complete"
    BY <1>0 DEF Undisturbed, Serial, Active
  <2>3. \A m \in digMailed : m.run \in Completed /\ m.end = digRuns[m.run].end
    BY <2>1, <2>2 DEF Once, Completed
  <2>4. \A m \in digMailed : m.end <= start
    <3>1. CASE Completed = {}
      BY <2>3, <3>1
    <3>2. ASSUME NEW s \in Digest!LastRuns, s \in Completed, start = digRuns[s].end
          PROVE  \A m \in digMailed : m.end <= start
      <4>1. \A q \in Completed : digRuns[q].order <= digRuns[s].order
        BY <3>2 DEF Digest!LastRuns, Digest!Completed, Completed
      <4> QED
        BY <2>3, <3>2, <4>1 DEF Once
    <3> QED
      BY <1>3, <3>1, <3>2
  <2>5. \A s \in Completed : s # r
    BY <1>0 DEF Once
  <2>6. \A m \in digMailed : digRuns'[m.run].status = "completed" /\ m.end = digRuns'[m.run].end
    BY <1>0, <2>3 DEF Completed
  <2>7. \A q \in DigestRuns : digJobs'[q].at # "fail"
    BY <1>5 DEF Once
  <2>8. \A q \in Completed' : digJobs'[q].at \in {"return", "ended"}
    BY <1>2, <1>5, <1>6, <2>5 DEF Once
  <2>9. \A q \in DigestRuns : digJobs'[q].at = "mail"
          => \A m \in digMailed : m.end <= digJobs'[q].start
    BY <1>5, <2>4 DEF Once
  <2> QED
    BY <1>0, <1>6, <2>6, <2>7, <2>8, <2>9 DEF Once
<1> QED
  BY <1>7, <1>8, <1>9, <1>10, <1>11

LEMMA MailStep ==
  ASSUME DigestIInv, NEW r \in DigestRuns, Digest!Mail(r)
  PROVE  DigestTypeOK' /\ Timely' /\ Top' /\ Weekly' /\ Serial' /\ Once'
<1> USE DEF DigestIInv
<1> DEFINE new == [run |-> r, start |-> digJobs[r].start, end |-> digJobs[r].end]
<1>0. /\ digJobs[r].at = "mail" /\ digMailed' = digMailed \cup {new} /\ Digest!Step(r, "complete")
      /\ UNCHANGED <<digSub, digNow, digRuns, digActors, digFaults, digOverlap>>
  BY DEF Digest!Mail
<1>1. new.run = r /\ new.start = digJobs[r].start /\ new.end = digJobs[r].end
  OBVIOUS
<1> HIDE DEF new
<1>2. /\ digJobs' \in [DigestRuns -> DigestJob]
      /\ digJobs'[r].at = "complete" /\ digJobs'[r].start = digJobs[r].start
      /\ digJobs'[r].end = digJobs[r].end
      /\ \A s \in DigestRuns : s # r => digJobs'[s] = digJobs[s]
  BY <1>0, StepFrame DEF DigestStages
<1>3. /\ \A t : Covered(t) => Covered(t)'
      /\ \A t \in digJobs[r].start..(digJobs[r].end - 1) : Covered(t)'
      /\ Completed' = Completed /\ \A s \in Completed : s \in DigestRuns
  <2>1. \A t : Covered(t) => Covered(t)'
    BY <1>0 DEF Covered
  <2>2. ASSUME NEW t \in digJobs[r].start..(digJobs[r].end - 1) PROVE Covered(t)'
    <3>1. new.start <= t /\ t + 1 <= new.end
      BY <1>1, DigestTypes
    <3> QED
      BY <1>0, <3>1 DEF Covered
  <2> QED
    BY <1>0, <2>1, <2>2 DEF Completed
<1>4. DigestTypeOK'
  <2>1. new.run \in DigestRuns /\ new.start \in Times /\ new.end \in 0..MaxTime
    BY <1>1, DigestTypes
  <2> QED
    BY <1>0, <1>2, <2>1 DEF DigestTypeOK
<1>5. Timely' /\ Top'
  BY <1>0, <1>2 DEF Timely, Top
<1>6. ASSUME NEW low \in Int, \A t \in low..(digJobs[r].start - 1) : Covered(t)
      PROVE  \A t \in low..(digJobs[r].end - 1) : Covered(t)'
  <2>1. ASSUME NEW t \in low..(digJobs[r].end - 1) PROVE Covered(t)'
    <3>1. CASE t < digJobs[r].start
      BY <1>3, <1>6, <3>1, DigestTypes
    <3>2. CASE t >= digJobs[r].start
      BY <1>3, <3>2, DigestTypes
    <3> QED
      BY <3>1, <3>2, DigestTypes
  <2> QED
    BY <2>1
<1>7. Weekly'
  <2>1. /\ \A t \in (digJobs'[r].end - Week)..(digJobs'[r].end - 1) : Covered(t)'
        /\ [run |-> r, start |-> digJobs'[r].start, end |-> digJobs'[r].end] \in digMailed'
    <3>1. digJobs[r].end - Week \in Int
      BY DigestTypes, DigestAssumption
    <3>2. \A t \in (digJobs[r].end - Week)..(digJobs[r].end - 1) : Covered(t)'
      BY <1>0, <1>6, <3>1 DEF Weekly
    <3> QED
      BY <1>0, <1>2, <3>2 DEF new
  <2>2. ASSUME NEW s \in DigestRuns, s # r
        PROVE  /\ digJobs'[s].at = "mail" =>
                    \A t \in (digJobs'[s].end - Week)..(digJobs'[s].start - 1) : Covered(t)'
               /\ digJobs'[s].at = "complete" =>
                    /\ \A t \in (digJobs'[s].end - Week)..(digJobs'[s].end - 1) : Covered(t)'
                    /\ [run |-> s, start |-> digJobs'[s].start,
                         end |-> digJobs'[s].end] \in digMailed'
    BY <1>0, <1>2, <1>3, <2>2 DEF Weekly
  <2>3. \A s \in Completed' : \A t \in (digRuns'[s].end - Week)..(digRuns'[s].end - 1) : Covered(t)'
    BY <1>0, <1>3 DEF Weekly
  <2> QED
    BY <1>0, <1>2, <1>3, <2>1, <2>2, <2>3 DEF Weekly
<1>8. Serial'
  <2> SUFFICES ASSUME ~digOverlap PROVE Serial'
    BY <1>0 DEF Serial
  <2>1. \A q, s \in DigestRuns : digJobs'[q].at \in Active /\ digJobs'[s].at \in Active => q = s
    BY <1>0, <1>2 DEF Serial, Active
  <2>2. \A q, s \in Completed' : \A t \in digRuns'[s].end..(digRuns'[q].end - 1) : Covered(t)'
    BY <1>0, <1>3 DEF Serial
  <2>3. ASSUME NEW s \in Completed
        PROVE  /\ digRuns[s].end <= digJobs[r].end
               /\ \A t \in digRuns[s].end..(digJobs[r].end - 1) : Covered(t)'
    <3>1. digRuns[s].end \in Int
      BY <1>3, DigestTypes
    <3> QED
      BY <1>0, <1>6, <3>1 DEF Serial
  <2>4. ASSUME NEW q \in DigestRuns, NEW s \in Completed'
        PROVE  /\ digJobs'[q].at \in {"mail", "complete"} => digRuns'[s].end <= digJobs'[q].end
               /\ digJobs'[q].at = "mail" =>
                    \A t \in digRuns'[s].end..(digJobs'[q].start - 1) : Covered(t)'
               /\ digJobs'[q].at = "complete" =>
                    \A t \in digRuns'[s].end..(digJobs'[q].end - 1) : Covered(t)'
    <3>1. CASE q = r
      BY <1>0, <1>2, <1>3, <2>3, <3>1
    <3>2. CASE q # r
      BY <1>0, <1>2, <1>3, <3>2 DEF Serial
    <3> QED
      BY <3>1, <3>2
  <2> QED
    BY <2>1, <2>2, <2>4 DEF Serial
<1>9. Once'
  <2> SUFFICES ASSUME Undisturbed PROVE Once'
    BY <1>0 DEF Once, Undisturbed
  <2>0. \A m \in digMailed : m.run \in DigestRuns
    BY DEF DigestTypeOK
  <2>1. \A m \in digMailed : m.end <= new.start
    BY <1>0, <1>1 DEF Once
  <2>2. \A m, n \in digMailed' : m # n => m.end <= n.start \/ n.end <= m.start
    BY <1>0, <2>1 DEF Once
  <2>3. ASSUME NEW m \in digMailed'
        PROVE  \/ digRuns'[m.run].status = "completed" /\ m.end = digRuns'[m.run].end
               \/ digJobs'[m.run].at = "complete" /\ m.end = digJobs'[m.run].end
    <3>1. CASE m = new
      BY <1>1, <1>2, <3>1
    <3>2. CASE m \in digMailed
      BY <1>0, <1>2, <2>0, <3>2 DEF Once
    <3> QED
      BY <1>0, <3>1, <3>2
  <2>4. \A s \in Completed : s # r
    BY <1>0 DEF Once
  <2>5. \A s \in Completed' : digJobs'[s].at \in {"return", "ended"}
    BY <1>2, <1>3, <2>4 DEF Once
  <2>6. \A q \in DigestRuns : digJobs'[q].at # "fail" /\ digJobs'[q].at # "mail"
    <3>1. \A q \in DigestRuns : q # r => digJobs[q].at # "mail"
      BY <1>0 DEF Undisturbed, Serial, Active
    <3> QED
      BY <1>2, <3>1 DEF Once
  <2> QED
    BY <1>0, <1>3, <2>2, <2>3, <2>5, <2>6 DEF Once
<1> QED
  BY <1>4, <1>5, <1>7, <1>8, <1>9

LEMMA LatestIsTop ==
  ASSUME DigestTypeOK, Top, DigestRuns # {}
  PROVE  Digest!Latest \in Nat /\ \A r \in DigestRuns : digRuns[r].order <= Digest!Latest
<1> DEFINE orders == {digRuns[s].order : s \in DigestRuns}
<1>1. \A n \in orders : n \in Nat
  BY DigestTypes
<1>2. \E n \in orders : \A m \in orders : n >= m
  BY DigestTypes DEF Top
<1>3. /\ Digest!Latest \in orders /\ \A m \in orders : Digest!Latest >= m
  BY <1>2 DEF Digest!Latest, Digest!Max
<1> QED
  BY <1>1, <1>3, DigestTypes

LEMMA DigestCompletes ==
  ASSUME DigestIInv, NEW r \in DigestRuns, Digest!Complete(r)
  PROVE  DigestTypeOK' /\ Timely' /\ Top' /\ Weekly' /\ Serial' /\ Once'
<1> USE DEF DigestIInv
<1> DEFINE row == [status |-> "completed", finished |-> digNow, order |-> Digest!Latest + 1,
                   end |-> digJobs[r].end]
<1>0. /\ digJobs[r].at = "complete" /\ Digest!Step(r, "return")
      /\ digSub # "deleted" => digRuns' = [digRuns EXCEPT ![r] = row]
      /\ digSub = "deleted" => digRuns' = digRuns
      /\ UNCHANGED <<digSub, digNow, digActors, digMailed, digFaults, digOverlap>>
  BY DEF Digest!Complete
<1>1. Digest!Latest \in Nat /\ \A s \in DigestRuns : digRuns[s].order <= Digest!Latest
  BY LatestIsTop
<1>2. /\ row \in DigestRun /\ row.status = "completed" /\ row.end = digJobs[r].end
      /\ row.order = Digest!Latest + 1
  BY <1>1, DigestTypes DEF DigestRun, DigestStatuses
<1> HIDE DEF row
<1>3. /\ digJobs' \in [DigestRuns -> DigestJob]
      /\ digJobs'[r].at = "return" /\ digJobs'[r].end = digJobs[r].end
      /\ \A s \in DigestRuns : s # r => digJobs'[s] = digJobs[s]
  BY <1>0, StepFrame DEF DigestStages
<1>4. /\ digRuns' \in [DigestRuns -> DigestRun]
      /\ \A s \in DigestRuns : s # r => digRuns'[s] = digRuns[s]
      /\ digSub # "deleted" => digRuns'[r] = row
      /\ digSub = "deleted" => digRuns' = digRuns
  BY <1>0, <1>2 DEF DigestTypeOK
<1>5. /\ \A t : Covered(t)' <=> Covered(t)
      /\ \A s \in Completed' : s \in DigestRuns
      /\ \A s \in Completed' : s # r \/ digSub = "deleted" => s \in Completed
           /\ digRuns'[s] = digRuns[s]
      /\ \A s \in Completed : s \in DigestRuns
  BY <1>0, <1>4 DEF Covered, Completed
<1>6. DigestTypeOK'
  BY <1>0, <1>3, <1>4 DEF DigestTypeOK
<1>7. Timely'
  <2>1. \A s \in DigestRuns : digJobs'[s].end = digJobs[s].end
    BY <1>3
  <2>2. \A s \in DigestRuns : digRuns'[s].end \in {digRuns[s].end, digJobs[s].end}
    BY <1>2, <1>4
  <2> QED
    BY <1>0, <2>1, <2>2 DEF Timely
<1>8. Top'
  <2>1. CASE digSub = "deleted"
    BY <1>4, <2>1 DEF Top
  <2>2. CASE digSub # "deleted"
    <3>1. \A s \in DigestRuns : digRuns'[s].order <= digRuns'[r].order
      <4>1. ASSUME NEW s \in DigestRuns PROVE digRuns'[s].order <= Digest!Latest + 1
        BY <1>1, <1>2, <1>4, <2>2, DigestTypes
      <4> QED
        BY <1>2, <1>4, <2>2, <4>1
    <3> QED
      BY <3>1 DEF Top
  <2> QED
    BY <2>1, <2>2
\* What the run covers is what its job has read and mailed.
<1>9. digSub = "deleted" => Completed' = {}
  BY <1>4 DEF Weekly, Completed
<1>10. Weekly'
  <2>1. ASSUME NEW s \in Completed'
        PROVE  \A t \in (digRuns'[s].end - Week)..(digRuns'[s].end - 1) : Covered(t)'
    <3>1. CASE s = r /\ digSub # "deleted"
      <4>1. digRuns'[s].end = digJobs[r].end
        BY <1>2, <1>4, <3>1
      <4> QED
        BY <1>0, <1>5, <4>1 DEF Weekly
    <3>2. CASE s # r \/ digSub = "deleted"
      BY <1>5, <2>1, <3>2 DEF Weekly
    <3> QED
      BY <3>1, <3>2
  <2>2. ASSUME NEW s \in DigestRuns
        PROVE  /\ digJobs'[s].at = "mail" =>
                    \A t \in (digJobs'[s].end - Week)..(digJobs'[s].start - 1) : Covered(t)'
               /\ digJobs'[s].at = "complete" =>
                    /\ \A t \in (digJobs'[s].end - Week)..(digJobs'[s].end - 1) : Covered(t)'
                    /\ [run |-> s, start |-> digJobs'[s].start,
                         end |-> digJobs'[s].end] \in digMailed'
    <3>1. CASE s = r
      BY <1>3, <3>1
    <3>2. CASE s # r
      BY <1>0, <1>3, <1>5, <3>2 DEF Weekly
    <3> QED
      BY <3>1, <3>2
  <2> QED
    BY <1>0, <1>9, <2>1, <2>2 DEF Weekly
<1>11. ASSUME ~digOverlap, NEW s \in Completed
       PROVE  /\ digRuns[s].end <= digJobs[r].end
              /\ \A t \in digRuns[s].end..(digJobs[r].end - 1) : Covered(t)
  BY <1>0, <1>11 DEF Serial
<1>12. Serial'
  <2> SUFFICES ASSUME ~digOverlap PROVE Serial'
    BY <1>0 DEF Serial
  <2>1. \A q, s \in DigestRuns : digJobs'[q].at \in Active /\ digJobs'[s].at \in Active => q = s
    <3>1. \A q \in DigestRuns : digJobs'[q].at \in Active => digJobs[q].at \in Active
      BY <1>0, <1>3 DEF Active
    <3> QED
      BY <3>1 DEF Serial
  <2>2. \A q \in DigestRuns : digJobs'[q].at \notin {"mail", "complete"}
    <3>1. \A q \in DigestRuns : q # r => digJobs[q].at \notin {"mail", "complete"}
      BY <1>0 DEF Serial, Active
    <3> QED
      BY <1>3, <3>1
  <2>3. ASSUME NEW q \in Completed', NEW s \in Completed'
        PROVE  \A t \in digRuns'[s].end..(digRuns'[q].end - 1) : Covered(t)'
    <3>0. digSub # "deleted"
      BY <1>9, <2>3
    <3>1. CASE q = r /\ s = r
      BY <1>2, <1>4, <3>0, <3>1, DigestTypes
    <3>2. CASE q = r /\ s # r
      BY <1>2, <1>4, <1>5, <1>11, <2>3, <3>0, <3>2
    <3>3. CASE q # r /\ s = r
      <4>1. digRuns'[s].end = digJobs[r].end /\ digRuns'[q].end <= digJobs[r].end
        BY <1>2, <1>4, <1>5, <1>11, <2>3, <3>0, <3>3
      <4>2. digRuns'[q].end \in Int /\ digJobs[r].end \in Int
        BY <1>5, <2>3, <3>3, DigestTypes
      <4> QED
        BY <4>1, <4>2
    <3>4. CASE q # r /\ s # r
      BY <1>5, <2>3, <3>4 DEF Serial
    <3> QED
      BY <3>1, <3>2, <3>3, <3>4
  <2> QED
    BY <1>0, <2>1, <2>2, <2>3 DEF Serial
<1>13. Once'
  <2> SUFFICES ASSUME Undisturbed PROVE Once'
    BY <1>0 DEF Once, Undisturbed
  <2>0. /\ digSub # "deleted" /\ ~digOverlap
        /\ \A m \in digMailed : m.run \in DigestRuns
    BY DEF DigestTypeOK, Undisturbed
  <2>1. ASSUME NEW m \in digMailed
        PROVE  \/ digRuns'[m.run].status = "completed" /\ m.end = digRuns'[m.run].end
               \/ digJobs'[m.run].at = "complete" /\ m.end = digJobs'[m.run].end
    <3>1. CASE m.run = r
      <4>1. r \notin Completed
        BY <1>0 DEF Once
      <4>2. m.end = digJobs[r].end
        BY <3>1, <4>1 DEF Once, Completed
      <4> QED
        BY <1>2, <1>4, <2>0, <3>1, <4>2
    <3>2. CASE m.run # r
      BY <1>3, <1>4, <2>0, <3>2 DEF Once
    <3> QED
      BY <3>1, <3>2
  <2>2. \A s \in Completed' : digJobs'[s].at \in {"return", "ended"}
    <3>1. ASSUME NEW s \in Completed' PROVE digJobs'[s].at \in {"return", "ended"}
      <4>1. CASE s = r
        BY <1>3, <4>1
      <4>2. CASE s # r
        BY <1>3, <1>5, <3>1, <4>2 DEF Once
      <4> QED
        BY <4>1, <4>2
    <3> QED
      BY <3>1
  <2>3. ASSUME NEW q \in Completed', NEW s \in Completed', digRuns'[s].order <= digRuns'[q].order
        PROVE  digRuns'[s].end <= digRuns'[q].end
    <3>1. CASE q = r /\ s = r
      BY <1>2, <1>4, <2>0, <3>1, DigestTypes
    <3>2. CASE q = r /\ s # r
      BY <1>2, <1>4, <1>5, <1>11, <2>0, <2>3, <3>2
    <3>3. CASE q # r /\ s = r
      <4>1. digRuns'[q].order <= Digest!Latest /\ digRuns'[s].order = Digest!Latest + 1
              /\ digRuns'[q].order \in Nat
        BY <1>1, <1>2, <1>4, <1>5, <2>0, <2>3, <3>3, DigestTypes
      <4> QED
        BY <1>1, <2>3, <4>1
    <3>4. CASE q # r /\ s # r
      BY <1>5, <2>3, <3>4 DEF Once
    <3> QED
      BY <3>1, <3>2, <3>3, <3>4
  <2>4. \A q \in DigestRuns : digJobs'[q].at # "fail" /\ digJobs'[q].at # "mail"
    <3>1. \A q \in DigestRuns : q # r => digJobs[q].at # "mail"
      BY <1>0, <2>0 DEF Serial, Active
    <3> QED
      BY <1>3, <3>1 DEF Once
  <2>5. \A m, n \in digMailed : m # n => m.end <= n.start \/ n.end <= m.start
    BY DEF Once
  <2> QED
    BY <1>0, <2>1, <2>2, <2>3, <2>4, <2>5 DEF Once
<1> QED
  BY <1>6, <1>7, <1>8, <1>10, <1>12, <1>13

(***************************************************************************)
(* The theorem                                                             *)
(***************************************************************************)
LEMMA DigestStarts ==
  ASSUME Digest!Init
  PROVE  DigestIInv
<1> USE DEF Digest!Init
<1>0. /\ 0 \in 0..MaxTime /\ 0 \in 0..MaxFaults /\ 0 \in Times /\ 0 \in Nat
      /\ Completed = {}
  BY DigestAssumption DEF Times, Completed
<1>1. DigestTypeOK
  BY <1>0 DEF DigestTypeOK, DigestRun, DigestJob, DigestActor, DigestStatuses, DigestStages
<1>2. Busy /\ Timely /\ Top
  BY DEF Busy, Timely, Top
<1>3. Weekly /\ Serial /\ Once
  BY <1>0 DEF Weekly, Serial, Once, Active
<1> QED
  BY <1>1, <1>2, <1>3 DEF DigestIInv

LEMMA DigestKeeps ==
  ASSUME DigestIInv, Digest!Next
  PROVE  DigestIInv'
<1>1. ASSUME Quiet PROVE DigestTypeOK' /\ Timely' /\ Top' /\ Weekly' /\ Serial' /\ Once'
  <2>1. DigestTypeOK'
    <3>1. digFaults' \in 0..MaxFaults
      BY <1>1, DigestAssumption DEF DigestIInv, DigestTypeOK, Quiet, QuietOnce
    <3>2. digActors' \in [Actors -> DigestActor]
      BY ActorsStep DEF DigestIInv
    <3> QED
      BY <1>1, <3>1, <3>2 DEF DigestIInv, DigestTypeOK, Quiet, QuietRuns, QuietJobs, QuietOnce
  <2> QED
    BY <1>1, <2>1, QuietWeekly, QuietSerial, QuietlyOnce DEF DigestIInv
<1>2. ASSUME NEW r \in DigestRuns, Digest!ReadPeriod(r) \/ Digest!Mail(r) \/ Digest!Complete(r)
      PROVE  DigestTypeOK' /\ Timely' /\ Top' /\ Weekly' /\ Serial' /\ Once'
  BY <1>2, ReadPeriodStep, MailStep, DigestCompletes
<1>3. Busy'
  BY ActorsStep DEF DigestIInv
<1>4. Quiet \/ \E r \in DigestRuns : Digest!ReadPeriod(r) \/ Digest!Mail(r) \/ Digest!Complete(r)
  BY QuietSteps DEF DigestIInv, Digest!Next, Digest!Send, Digest!Schedule
<1> QED
  BY <1>1, <1>2, <1>3, <1>4 DEF DigestIInv

LEMMA DigestInductive == Digest!Spec => []DigestIInv
<1>1. DigestIInv /\ UNCHANGED Digest!digVars => DigestIInv'
  BY DEF DigestIInv, DigestTypeOK, Busy, Timely, Top, Weekly, Serial, Once, Undisturbed, Completed,
         Covered, Digest!digVars
<1> QED
  BY <1>1, DigestStarts, DigestKeeps, PTL DEF Digest!Spec

\* Whatever ticks, triggers, failures, deaths and deletions there are, no moment falls
\* between two digests and, undisturbed, none is in two.
THEOREM NothingIsMissed == Digest!Spec => []DigestsInv
<1>1. DigestIInv => DigestsInv
  <2>1. DigestIInv => NoGap
    BY DEF DigestIInv, NoGap, Weekly, Serial
  <2>2. DigestIInv => MailedOnce
    BY DEF DigestIInv, MailedOnce, Once, Undisturbed
  <2> QED
    BY <2>1, <2>2 DEF DigestIInv, DigestsInv
<1> QED
  BY <1>1, DigestInductive, PTL

(***************************************************************************)
(* Review for any items, requests, sweeps and limit.  Asked adds to        *)
(* ReviewInv that a request about to write has read its item, and that a   *)
(* sweep never selected a decided item.                                    *)
(***************************************************************************)
Queue == INSTANCE Review


Asked ==
  /\ \A c \in Reviewers : revwReqs[c].at = "write" => revwReqs[c].item \in Items
  /\ \A s \in Sweeps : revwSweeps[s].decided = {}

ReviewIInv == ReviewInv /\ Asked

\* Writing one row of the queue.
LEMMA SetFrame ==
  ASSUME ReviewTypeOK, NEW i \in Items, NEW row \in ReviewItem, Queue!Set(i, row)
  PROVE  /\ revwItems' \in [Items -> ReviewItem] /\ revwItems'[i] = row
         /\ \A k \in Items : k # i => revwItems'[k] = revwItems[k]
BY DEF Queue!Set, ReviewTypeOK

\* A request goes on with the same question about the same item.
LEMMA GoFrame ==
  ASSUME ReviewTypeOK, Asked, NEW c \in Reviewers, NEW at \in {"done", "refused"}, Queue!Go(c, at)
  PROVE  /\ revwReqs' \in [Reviewers -> ReviewRequest]
         /\ \A d \in Reviewers : revwReqs'[d].at = "write" => revwReqs'[d].item \in Items
<1> DEFINE new == [revwReqs[c] EXCEPT !.at = at]
<1>1. revwReqs' = [revwReqs EXCEPT ![c] = new] /\ revwReqs[c] \in ReviewRequest
  BY DEF Queue!Go, ReviewTypeOK
<1>2. new \in ReviewRequest /\ new.at # "write"
  BY <1>1 DEF ReviewRequest
<1> HIDE DEF new
<1>3. /\ revwReqs' \in [Reviewers -> ReviewRequest] /\ revwReqs'[c] = new
      /\ \A d \in Reviewers : d # c => revwReqs'[d] = revwReqs[d]
  BY <1>1, <1>2 DEF ReviewTypeOK
<1> QED
  BY <1>2, <1>3 DEF Asked

\* What a step does to an item: its new row is typed, held and decided as it says,
\* and a decision is undone only for a reason.
Reason(i) ==
  \/ \E c \in Reviewers : /\ revwReqs[c].at = "write" /\ revwReqs[c].item = i
                          /\ revwReqs[c].ask \in {"assign", "release"}
  \/ \E s \in Sweeps : i \in revwSweeps[s].ids \ revwSweeps[s].decided

Sound(i) ==
  /\ revwItems'[i].status = "in_review" => revwItems'[i].holder # Nobody
  /\ revwItems'[i].status = "pending" => revwItems'[i].holder = Nobody
  /\ revwItems'[i].status \in {"resolved", "skipped"} => revwItems'[i].decider # Nobody
  /\ Decided(i) /\ revwItems'[i].status \in {"pending", "in_review"} => Reason(i)

LEMMA SetSound ==
  ASSUME ReviewIInv, NEW i \in Items, NEW row \in ReviewItem, Queue!Set(i, row),
         row.status = "in_review" => row.holder # Nobody,
         row.status = "pending" => row.holder = Nobody,
         row.status \in {"resolved", "skipped"} => row.decider # Nobody,
         Decided(i) /\ row.status \in {"pending", "in_review"} => Reason(i)
  PROVE  revwItems' \in [Items -> ReviewItem] /\ \A k \in Items : Sound(k)
<1>1. /\ revwItems' \in [Items -> ReviewItem] /\ revwItems'[i] = row
      /\ \A k \in Items : k # i => revwItems'[k] = revwItems[k]
  BY SetFrame DEF ReviewIInv, ReviewInv
<1>2. ASSUME NEW k \in Items PROVE Sound(k)
  <2>1. CASE k = i
    BY <1>1, <2>1 DEF Sound
  <2>2. CASE k # i
    BY <1>1, <2>2 DEF Sound, ReviewIInv, ReviewInv, HeldByOne, Decided
  <2> QED
    BY <2>1, <2>2
<1> QED
  BY <1>1, <1>2

LEMMA UnchangedSound ==
  ASSUME ReviewIInv, UNCHANGED revwItems
  PROVE  revwItems' \in [Items -> ReviewItem] /\ \A k \in Items : Sound(k)
BY DEF Sound, ReviewIInv, ReviewInv, ReviewTypeOK, HeldByOne, Decided

\* Each step keeps every item sound, and the requests and the sweeps typed.
LEMMA RequestStep ==
  ASSUME ReviewIInv, NEW c \in Reviewers,
         (\E i \in Items : Queue!Read(c, i) \/ Queue!Skip(c, i)) \/ Queue!Assign(c)
           \/ Queue!Resolve(c) \/ Queue!RequestFails(c)
  PROVE  /\ revwItems' \in [Items -> ReviewItem] /\ \A k \in Items : Sound(k)
         /\ revwReqs' \in [Reviewers -> ReviewRequest]
         /\ \A d \in Reviewers : revwReqs'[d].at = "write" => revwReqs'[d].item \in Items
         /\ UNCHANGED revwSweeps /\ revwFailures' \in 0..MaxFailures
<1> USE DEF ReviewIInv, ReviewInv
<1> DEFINE req == revwReqs[c]
           item == revwItems[req.item]
<1>0. /\ \A i \in Items : revwItems[i] \in ReviewItem
      /\ revwFailures \in 0..MaxFailures
      /\ req.at = "write" => req.item \in Items
  BY DEF ReviewTypeOK, Asked
<1>1. ASSUME NEW new \in ReviewRequest, revwReqs' = [revwReqs EXCEPT ![c] = new],
             new.at = "write" => new.item \in Items
      PROVE  /\ revwReqs' \in [Reviewers -> ReviewRequest]
             /\ \A d \in Reviewers : revwReqs'[d].at = "write" => revwReqs'[d].item \in Items
  BY <1>1 DEF ReviewTypeOK, Asked
<1>2. ASSUME NEW i \in Items, Queue!Read(c, i)
      PROVE  /\ UNCHANGED <<revwItems, revwSweeps, revwFailures>>
             /\ revwReqs' \in [Reviewers -> ReviewRequest]
             /\ \A d \in Reviewers : revwReqs'[d].at = "write" => revwReqs'[d].item \in Items
  <2>1. PICK ask \in {"assign", "release", "resolve"}, at \in {"refused", "write"} :
          revwReqs' = [revwReqs EXCEPT ![c] = [at |-> at, ask |-> ask, item |-> i]]
    BY <1>2 DEF Queue!Read
  <2>2. [at |-> at, ask |-> ask, item |-> i] \in ReviewRequest
    BY DEF ReviewRequest
  <2> QED
    BY <1>1, <1>2, <2>1, <2>2 DEF Queue!Read
<1>3. ASSUME NEW i \in Items, Queue!Skip(c, i)
      PROVE  /\ revwItems' \in [Items -> ReviewItem] /\ \A k \in Items : Sound(k)
             /\ UNCHANGED <<revwSweeps, revwFailures>>
             /\ revwReqs' \in [Reviewers -> ReviewRequest]
             /\ \A d \in Reviewers : revwReqs'[d].at = "write" => revwReqs'[d].item \in Items
  <2> DEFINE row == [revwItems[i] EXCEPT !.status = "skipped", !.decider = c]
             new == [at |-> "done", ask |-> "skip", item |-> i]
  <2>1. /\ Queue!Set(i, row) /\ revwReqs' = [revwReqs EXCEPT ![c] = new]
        /\ UNCHANGED <<revwSweeps, revwFailures>>
    BY <1>3 DEF Queue!Skip
  <2>2. row \in ReviewItem /\ row.status = "skipped" /\ row.decider = c
    BY <1>0 DEF ReviewItem, ReviewStatuses
  <2>3. new \in ReviewRequest /\ new.at = "done"
    BY DEF ReviewRequest
  <2> HIDE DEF row, new
  <2>4. revwItems' \in [Items -> ReviewItem] /\ \A k \in Items : Sound(k)
    BY <2>1, <2>2, SetSound, ReviewAssumption
  <2> QED
    BY <1>1, <2>1, <2>3, <2>4
<1>4. CASE Queue!Assign(c)
  <2> DEFINE row == IF req.ask = "assign"
                    THEN [item EXCEPT !.status = "in_review", !.holder = c]
                    ELSE [item EXCEPT !.status = "pending", !.holder = Nobody]
  <2>1. /\ Queue!Set(req.item, row) /\ Queue!Go(c, "done") /\ req.item \in Items
        /\ req.at = "write" /\ req.ask \in {"assign", "release"}
        /\ UNCHANGED <<revwSweeps, revwFailures>>
    BY <1>0, <1>4 DEF Queue!Assign
  <2>2. item \in ReviewItem
    BY <1>0, <2>1
  <2>3. /\ row \in ReviewItem
        /\ \/ row.status = "in_review" /\ row.holder = c
           \/ row.status = "pending" /\ row.holder = Nobody
    BY <2>2 DEF ReviewItem, ReviewStatuses
  <2>4. Reason(req.item)
    BY <2>1 DEF Reason
  <2> HIDE DEF row
  <2>5. revwItems' \in [Items -> ReviewItem] /\ \A k \in Items : Sound(k)
    BY <2>1, <2>3, <2>4, SetSound, ReviewAssumption
  <2> QED
    BY <1>0, <2>1, <2>5, GoFrame
<1>5. CASE Queue!Resolve(c)
  <2> DEFINE row == [item EXCEPT !.status = "resolved", !.decider = c]
  <2>1. /\ Queue!Set(req.item, row) /\ Queue!Go(c, "done") /\ req.item \in Items
        /\ UNCHANGED <<revwSweeps, revwFailures>>
    BY <1>0, <1>5 DEF Queue!Resolve
  <2>2. item \in ReviewItem
    BY <1>0, <2>1
  <2>3. row \in ReviewItem /\ row.status = "resolved" /\ row.decider = c
    BY <2>2 DEF ReviewItem, ReviewStatuses
  <2> HIDE DEF row
  <2>4. revwItems' \in [Items -> ReviewItem] /\ \A k \in Items : Sound(k)
    BY <2>1, <2>3, SetSound, ReviewAssumption
  <2> QED
    BY <1>0, <2>1, <2>4, GoFrame
<1>6. CASE Queue!RequestFails(c)
  <2>1. revwFailures' \in 0..MaxFailures
    BY <1>0, <1>6, ReviewAssumption DEF Queue!RequestFails
  <2> QED
    BY <1>6, <2>1, GoFrame, UnchangedSound DEF Queue!RequestFails
<1> QED
  BY <1>0, <1>2, <1>3, <1>4, <1>5, <1>6, UnchangedSound

LEMMA AgeStep ==
  ASSUME ReviewIInv, NEW i \in Items, Queue!Age(i)
  PROVE  /\ revwItems' \in [Items -> ReviewItem] /\ \A k \in Items : Sound(k)
         /\ UNCHANGED <<revwReqs, revwSweeps, revwFailures>>
<1> DEFINE row == [revwItems[i] EXCEPT !.old = TRUE]
<1>1. revwItems[i] \in ReviewItem
  BY DEF ReviewIInv, ReviewInv, ReviewTypeOK
<1>2. /\ row \in ReviewItem /\ row.status = revwItems[i].status
      /\ row.holder = revwItems[i].holder /\ row.decider = revwItems[i].decider
  BY <1>1 DEF ReviewItem
<1>3. Queue!Set(i, row) /\ UNCHANGED <<revwReqs, revwSweeps, revwFailures>>
  BY DEF Queue!Age
<1> HIDE DEF row
<1>4. /\ row.status = "in_review" => row.holder # Nobody
      /\ row.status = "pending" => row.holder = Nobody
      /\ row.status \in {"resolved", "skipped"} => row.decider # Nobody
      /\ Decided(i) => row.status \notin {"pending", "in_review"}
  BY <1>2 DEF ReviewIInv, ReviewInv, HeldByOne, Decided
<1> QED
  BY <1>2, <1>3, <1>4, SetSound

LEMMA SweepStep ==
  ASSUME ReviewIInv, NEW s \in Sweeps, Queue!Sweep(s) \/ Queue!SweepFails(s)
  PROVE  /\ revwItems' \in [Items -> ReviewItem] /\ \A k \in Items : Sound(k)
         /\ UNCHANGED revwReqs /\ revwFailures' \in 0..MaxFailures
         /\ revwSweeps' \in [Sweeps -> [ids : SUBSET Items, decided : SUBSET Items]]
         /\ \A t \in Sweeps : revwSweeps'[t].decided = {}
<1> USE DEF ReviewIInv, ReviewInv
<1>1. ASSUME NEW ids \in SUBSET Items, Queue!Take(s, ids), \A i \in ids : ~Decided(i)
      PROVE  /\ revwSweeps' \in [Sweeps -> [ids : SUBSET Items, decided : SUBSET Items]]
             /\ \A t \in Sweeps : revwSweeps'[t].decided = {}
  <2> DEFINE new == [ids |-> ids, decided |-> {i \in ids : Decided(i)}]
  <2>1. {i \in ids : Decided(i)} = {}
    BY <1>1
  <2>2. revwSweeps' = [revwSweeps EXCEPT ![s] = new]
    BY <1>1 DEF Queue!Take, Queue!Decided, Decided
  <2>3. new \in [ids : SUBSET Items, decided : SUBSET Items] /\ new.decided = {}
    BY <2>1
  <2> HIDE DEF new
  <2> QED
    BY <2>2, <2>3 DEF ReviewTypeOK, Asked
<1>2. CASE Queue!Select(s)
  <2>1. PICK ids \in SUBSET Queue!Stuck : Queue!Take(s, ids)
    BY <1>2 DEF Queue!Select
  <2>2. ids \in SUBSET Items /\ \A i \in ids : ~Decided(i)
    BY DEF Queue!Stuck, Decided
  <2>3. UNCHANGED <<revwItems, revwReqs, revwFailures>> /\ revwFailures \in 0..MaxFailures
    BY <1>2 DEF Queue!Select, ReviewTypeOK
  <2> QED
    BY <1>1, <2>1, <2>2, <2>3, UnchangedSound
<1>3. CASE Queue!GiveBack(s)
  <2> DEFINE row(i) == [revwItems[i] EXCEPT !.status = "pending", !.holder = Nobody]
  <2>1. /\ revwItems' = [i \in Items |-> IF i \in revwSweeps[s].ids THEN row(i) ELSE revwItems[i]]
        /\ Queue!Take(s, {}) /\ UNCHANGED <<revwReqs, revwFailures>>
    BY <1>3 DEF Queue!GiveBack
  <2>2. \A i \in Items : revwItems[i] \in ReviewItem
    BY DEF ReviewTypeOK
  <2>3. ASSUME NEW i \in Items
        PROVE  /\ row(i) \in ReviewItem /\ row(i).status = "pending" /\ row(i).holder = Nobody
    BY <2>2 DEF ReviewItem, ReviewStatuses
  <2> HIDE DEF row
  <2>4. revwItems' \in [Items -> ReviewItem]
    BY <2>1, <2>2, <2>3
  <2>5. ASSUME NEW k \in Items PROVE Sound(k)
    <3>1. CASE k \in revwSweeps[s].ids
      <4>1. revwItems'[k].status = "pending" /\ revwItems'[k].holder = Nobody
        BY <2>1, <2>3, <3>1
      <4>2. Reason(k)
        BY <3>1 DEF Reason, Asked
      <4> QED
        BY <4>1, <4>2 DEF Sound
    <3>2. CASE k \notin revwSweeps[s].ids
      <4>1. revwItems'[k] = revwItems[k]
        BY <2>1, <3>2
      <4> QED
        BY <4>1 DEF Sound, HeldByOne, Decided
    <3> QED
      BY <3>1, <3>2
  <2> QED
    BY <1>1, <2>1, <2>4, <2>5 DEF ReviewTypeOK
<1>4. CASE Queue!SweepFails(s)
  <2>1. /\ Queue!Take(s, {}) /\ UNCHANGED <<revwItems, revwReqs>>
        /\ revwFailures' \in 0..MaxFailures
    BY <1>4, ReviewAssumption DEF Queue!SweepFails, ReviewTypeOK
  <2> QED
    BY <1>1, <2>1, UnchangedSound
<1> QED
  BY <1>2, <1>3, <1>4 DEF Queue!Sweep

LEMMA ReviewStep ==
  ASSUME ReviewIInv, Queue!Next
  PROVE  ReviewIInv' /\ \A k \in Items : Sound(k)
<1>1. ASSUME revwItems' \in [Items -> ReviewItem], \A k \in Items : Sound(k)
      PROVE  HeldByOne'
  BY <1>1 DEF HeldByOne, Sound, Decided
<1>2. ASSUME NEW c \in Reviewers,
             (\E i \in Items : Queue!Read(c, i) \/ Queue!Skip(c, i)) \/ Queue!Assign(c)
               \/ Queue!Resolve(c) \/ Queue!RequestFails(c)
      PROVE  ReviewIInv' /\ \A k \in Items : Sound(k)
  BY <1>1, <1>2, RequestStep DEF ReviewIInv, ReviewInv, ReviewTypeOK, Asked
<1>3. ASSUME NEW i \in Items, Queue!Age(i)
      PROVE  ReviewIInv' /\ \A k \in Items : Sound(k)
  BY <1>1, <1>3, AgeStep DEF ReviewIInv, ReviewInv, ReviewTypeOK, Asked
<1>4. ASSUME NEW s \in Sweeps, Queue!Sweep(s) \/ Queue!SweepFails(s)
      PROVE  ReviewIInv' /\ \A k \in Items : Sound(k)
  BY <1>1, <1>4, SweepStep DEF ReviewIInv, ReviewInv, ReviewTypeOK, Asked
<1> QED
  BY <1>2, <1>3, <1>4 DEF Queue!Next

LEMMA ReviewStart ==
  ASSUME Queue!Init
  PROVE  ReviewIInv
<1>1. 0 \in 0..MaxFailures
  BY ReviewAssumption
<1> QED
  BY <1>1 DEF Queue!Init, ReviewIInv, ReviewInv, ReviewTypeOK, ReviewItem, ReviewRequest,
                ReviewStatuses,
              HeldByOne, Decided, Asked

LEMMA ReviewInductive == Queue!Spec => []ReviewIInv
<1>1. ReviewIInv /\ UNCHANGED revwVars => ReviewIInv'
  BY DEF ReviewIInv, ReviewInv, ReviewTypeOK, HeldByOne, Decided, Asked, revwVars
<1> QED
  BY <1>1, ReviewStart, ReviewStep, PTL DEF Queue!Spec, Queue!revwVars, revwVars

\* Whatever requests and sweeps do to the queue at once, an item in review has its
\* reviewer, a pending one has none, and a decided one says whose decision it is.
THEOREM Held == Queue!Spec => []ReviewInv
BY ReviewInductive, PTL DEF ReviewIInv

\* No sweep takes back a decision that was there when it looked.
THEOREM DecisionsAreKept == Queue!Spec => DecisionsStay
<1>1. ReviewIInv /\ [Queue!Next]_revwVars =>
        [\A i \in Items : Decided(i) /\ revwItems'[i].status \in {"pending", "in_review"} =>
           \/ \E c \in Reviewers : /\ revwReqs[c].at = "write" /\ revwReqs[c].item = i
                                   /\ revwReqs[c].ask \in {"assign", "release"}
           \/ \E s \in Sweeps : i \in revwSweeps[s].ids \ revwSweeps[s].decided]_revwVars
  BY ReviewStep DEF Sound, Reason
<1> QED
  BY <1>1, ReviewInductive, PTL DEF Queue!Spec, Queue!revwVars, revwVars, DecisionsStay
=============================================================================
