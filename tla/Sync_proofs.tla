----------------------------- MODULE Sync_proofs -----------------------------
(***************************************************************************)
(* SyncInv holds of Sync for any records, runs, requests, dates, page size *)
(* and provider.  It is not inductive: what a run will have stored when it *)
(* saves its cursor depends on where it is in the list.  IInv adds, for    *)
(* every run, the shape its job gives it (RunShape), that every date it    *)
(* holds is one a later change exceeds (RunDates), that a page names what  *)
(* is uploaded and, once inserted, stored (RunPage), and that below its    *)
(* place in the list everything present is stored or on its page, upwards  *)
(* from its 'since' for Salesforce (RunCovers), downwards from the newest  *)
(* for a full sync of Stripe (RunFull).  Enqueuers and NoConnection keep   *)
(* two requests from one run; CursorDate bounds the stored cursor.         *)
(*                                                                         *)
(* A step of one run leaves the source alone and only adds to what is      *)
(* stored, so it keeps what every other run relies on (Grows, OtherRuns).  *)
(* Each step of a run is stated on the new values of its fields (RunIs).   *)
(***************************************************************************)
EXTENDS Sync, TLAPS, FiniteSetTheorems, WellFoundedInduction

\* Where a page is in hand, and where the loop over pages is.
Paged == {"upload", "insert", "save"}
InLoop == {"fetch"} \cup Paged

\* What a run keeps by itself.
RunShape(r) ==
  LET run == synRuns[r] IN
  /\ run.status = "none" => run.at = "none"
  /\ run.at = "none" => run.tries = 0
  /\ run.at = "waiting" => run.tries < MaxTries
  /\ run.at \in {"connected", "error"} => run.status # "running"
  /\ run.at = "ended" /\ run.status = "running" => run.hurt
  /\ run.at \in {"none", "waiting", "load", "cursor"} => run.since = 0 /\ run.last = None
  /\ run.full => run.since = 0
  /\ run.at \in Paged => run.page # {}

\* A date that a later change exceeds.
Known(d) == d = 0 \/ \E x \in Records : d <= synSource[x]
Stored(x) == Version(x) \in synStored
Covered(d) == \A x \in Present : synSource[x] <= d => Stored(x)

\* A run's page and its place in the list, against the source and what is stored.
RunDates(r) == Known(synRuns[r].since) /\ \A v \in synRuns[r].page : Known(v.date)
RunPage(r) ==
  /\ synRuns[r].at \in {"insert", "save"} => synRuns[r].page \subseteq synObjects
  /\ synRuns[r].saw \subseteq Present
  /\ synProvider = "stripe" => \A v \in synRuns[r].page : v.date = synSource[v.x]
  /\ Connected /\ synRuns[r].at = "save" => synRuns[r].page \subseteq synStored
RunCovers(r) ==
  synProvider = "salesforce" /\ Connected =>
    /\ synRuns[r].at \in InLoop => Covered(synRuns[r].since)
    /\ synRuns[r].at \in Paged =>
         \A x \in Present : \A v \in synRuns[r].page :
           synSource[x] <= v.date => Stored(x) \/ Version(x) \in synRuns[r].page
RunFull(r) ==
  synProvider = "stripe" /\ Connected /\ synRuns[r].full /\ synRuns[r].whole =>
    \A x \in synRuns[r].saw :
      /\ synRuns[r].at = "fetch" /\ synRuns[r].last # None
           /\ synSource[x] >= synSource[synRuns[r].last] => Stored(x)
      /\ synRuns[r].at \in Paged =>
           /\ \A v \in synRuns[r].page :
                synSource[x] >= v.date => Stored(x) \/ Version(x) \in synRuns[r].page
           /\ ~synRuns[r].more => Stored(x) \/ Version(x) \in synRuns[r].page
      /\ synRuns[r].at \in {"complete", "connected"} => Stored(x)
RunRel(r) == RunDates(r) /\ RunPage(r) /\ RunCovers(r) /\ RunFull(r)

Enqueuers ==
  \A a \in SyncActors : synActors[a].at = "enqueue" =>
    /\ synActors[a].run \in SyncRuns
    /\ synRuns[synActors[a].run].at = "none" /\ synRuns[synActors[a].run].status # "none"
    /\ \A b \in SyncActors : Enqueues(b, synActors[a].run) => b = a

NoConnection == synConn = "none" => \A r \in SyncRuns : synRuns[r].status = "none"
CursorDate == synCursor # None => Known(synCursor.since)

IInv ==
  /\ SyncTypeOK /\ Enqueuers /\ NoConnection /\ CursorDate /\ CursorCovers
  /\ BatchesHaveObjects /\ RunningHasACause
  /\ \A r \in SyncRuns : RunShape(r) /\ RunRel(r)
-----------------------------------------------------------------------------
LEMMA MinIs ==
  ASSUME NEW S, S \subseteq Nat, S # {}
  PROVE  Min(S) \in S /\ \A y \in S : Min(S) <= y
<1>1. PICK d \in S : \A e \in S : ~(<<e, d>> \in OpToRel(<, Nat))
  BY WFMin, NatLessThanWellFounded, Zenon
<1>2. \A e \in S : ~(e < d)
  <2>1. ASSUME NEW e \in S, e < d PROVE FALSE
    <3>1. <<e, d>> \in Nat \X Nat
      OBVIOUS
    <3>2. <<e, d>> \in OpToRel(<, Nat)
      BY <2>1, <3>1, Zenon DEF OpToRel
    <3> QED
      BY <1>1, <3>2
  <2> QED
    BY <2>1
<1>3. \A e \in S : d <= e
  BY <1>2
<1> QED
  BY <1>3 DEF Min

LEMMA MaxIs ==
  ASSUME NEW n \in Nat, NEW S, S \subseteq 0..n, S # {}
  PROVE  Max(S) \in S /\ \A y \in S : Max(S) >= y
<1> DEFINE Left == {m \in Nat : \E y \in S : m = n - y}
<1>1. Left \subseteq Nat /\ Left # {}
  <2>1. PICK y \in S : TRUE
    OBVIOUS
  <2>2. n - y \in Left
    BY <2>1
  <2> QED
    BY <2>2
<1>2. PICK d \in Left : \A e \in Left : d <= e
  <2> HIDE DEF Left
  <2> QED
    BY <1>1, MinIs
<1>3. PICK x \in S : d = n - x
  OBVIOUS
<1>4. \A y \in S : n - y \in Left
  OBVIOUS
<1>5. \A y \in S : x >= y
  <2> HIDE DEF Left
  <2> QED
    BY <1>1, <1>2, <1>3, <1>4
<1> QED
  BY <1>5 DEF Max

\* The smaller the set, the fewer precede: what precedes a record of a page is in it.
LEMMA Fewer ==
  ASSUME NEW S, IsFiniteSet(S), NEW T, T \subseteq S, Cardinality(S) < PageSize
  PROVE  Cardinality(T) < PageSize
<1>1. Cardinality(T) <= Cardinality(S) /\ Cardinality(T) \in Nat /\ Cardinality(S) \in Nat
  BY FS_Subset, FS_CardinalityType
<1> QED
  BY <1>1, SyncAssumption

LEMMA FinitePresent ==
  ASSUME NEW S, S \subseteq Records PROVE IsFiniteSet(S)
  BY SyncAssumption, FS_Subset

\* Salesforce's page holds what it has not left behind, up to its dates.
LEMMA SalesforceDown ==
  ASSUME SyncTypeOK, NEW since \in Nat, NEW x \in Present, synSource[x] > since,
         NEW z \in SalesforcePage(since), synSource[x] <= synSource[z]
  PROVE  x \in SalesforcePage(since)
<1> DEFINE changed == {w \in Present : synSource[w] > since}
           Before(w) == {y \in changed : synSource[y] < synSource[w]}
<1>1. z \in changed /\ Cardinality(Before(z)) < PageSize
  BY DEF SalesforcePage
<1>2. Before(x) \subseteq Before(z) /\ Before(z) \subseteq Records
  BY <1>1 DEF SyncTypeOK, Present
<1>3. Cardinality(Before(x)) < PageSize
  <2> HIDE DEF Before
  <2> QED BY <1>1, <1>2, Fewer, FinitePresent
<1> QED
  BY <1>3 DEF SalesforcePage

\* Stripe's page holds what it lists from its oldest record on.
LEMMA StripeUp ==
  ASSUME SyncTypeOK, NEW after, NEW since, NEW x \in StripeList(after, since),
         NEW z \in StripePage(after, since), synSource[x] >= synSource[z]
  PROVE  x \in StripePage(after, since)
<1> DEFINE list == StripeList(after, since)
           Before(w) == {y \in list : synSource[y] > synSource[w]}
<1>1. z \in list /\ Cardinality(Before(z)) < PageSize
  BY DEF StripePage
<1>2. list \subseteq Records
  BY DEF StripeList, Present
<1>3. Before(x) \subseteq Before(z) /\ Before(z) \subseteq Records
  BY <1>1, <1>2 DEF SyncTypeOK
<1>4. Cardinality(Before(x)) < PageSize
  <2> HIDE DEF Before
  <2> QED BY <1>1, <1>3, Fewer, FinitePresent
<1> QED
  BY <1>4 DEF StripePage

\* A page is empty only if the list is.
LEMMA StripeStarts ==
  ASSUME SyncTypeOK, NEW after, NEW since, StripePage(after, since) = {}
  PROVE  StripeList(after, since) = {}
<1> DEFINE list == StripeList(after, since)
           Before(w) == {y \in list : synSource[y] > synSource[w]}
           dates == {synSource[y] : y \in list}
<1>1. SUFFICES ASSUME list # {} PROVE FALSE
  OBVIOUS
<1>2. list \subseteq Records /\ dates \subseteq 0..MaxDate /\ dates # {}
  BY <1>1 DEF StripeList, Present, SyncTypeOK
<1>3. PICK x \in list : synSource[x] = Max(dates)
  <2> HIDE DEF dates, list
  <2>1. Max(dates) \in dates
    BY <1>2, MaxIs, SyncAssumption
  <2> QED
    BY <2>1 DEF dates
<1>4. \A y \in list : synSource[x] >= synSource[y]
  <2>1. \A d \in dates : Max(dates) >= d
    <3> HIDE DEF dates
    <3> QED
      BY <1>2, MaxIs, SyncAssumption
  <2> QED
    BY <1>3, <2>1
<1>5. Before(x) = {}
  BY <1>2, <1>4 DEF SyncTypeOK
<1>6. Cardinality(Before(x)) < PageSize
  BY <1>5, FS_EmptySet, SyncAssumption
<1> QED
  BY <1>6 DEF StripePage

LEMMA PagesArePresent ==
  ASSUME NEW after, NEW since
  PROVE  /\ SalesforcePage(since) \subseteq Present
         /\ StripePage(after, since) \subseteq StripeList(after, since)
         /\ StripeList(after, since) \subseteq Present /\ Present \subseteq Records
  BY DEF SalesforcePage, StripePage, StripeList, Present
-----------------------------------------------------------------------------
\* What a step of job r leaves as it is.
StepOfRun(r) ==
  /\ synRuns' \in [SyncRuns -> SyncRun]
  /\ \A q \in SyncRuns \ {r} : synRuns'[q] = synRuns[q]
  /\ RunShape(r)'
  /\ synRuns[r].at # "none" /\ synRuns'[r].at # "none"
  /\ synRuns'[r].status = "none" <=> synRuns[r].status = "none"
  /\ UNCHANGED <<synProvider, synSource, synActors, synCreds, synLogin>>
  /\ Connected' <=> Connected
  /\ synConn' = "none" <=> synConn = "none"
  /\ synConn' \in {"none", "connected", "error", "gone"}
  /\ synDeaths' \in 0..MaxDeaths

QuietStep(r) ==
  \/ Take(r) \/ LoadConnection(r) \/ LoadCursor(r) \/ ObjectFails(r)
  \/ CompleteRun(r) \/ CompleteConn(r) \/ Throws(r) \/ FailRun(r) \/ FailConn(r)
  \/ CatchFails(r) \/ Dies(r)

\* What a step that neither fetches nor stores does to its run.
Quiet(r) ==
  /\ UNCHANGED data
  /\ synRuns'[r].since \in {synRuns[r].since, 0}
     \/ (synCursor # None /\ synRuns'[r].since = synCursor.since)
  /\ synRuns'[r].page \in {synRuns[r].page, {}}
  /\ synRuns'[r].saw \in {synRuns[r].saw, {}, Present}
  /\ synRuns'[r].at \notin Paged
  /\ synRuns'[r].at = "fetch" =>
       /\ synRuns[r].at = "cursor"
       /\ synRuns'[r].full => synRuns'[r].last = None
       /\ synRuns'[r].since = 0 \/ (synCursor # None /\ synRuns'[r].since = synCursor.since)
  /\ synRuns'[r].at \in {"complete", "connected"} /\ synRuns'[r].whole =>
       /\ synRuns[r].at = "complete" /\ synRuns'[r].saw = synRuns[r].saw
       /\ synRuns'[r].full = synRuns[r].full /\ synRuns[r].whole

RunIs(run, status, full, at, tries, since, last, page, more, saw, whole, hurt) ==
  /\ run \in SyncRun
  /\ run.status = status /\ run.full = full /\ run.at = at /\ run.tries = tries
  /\ run.since = since /\ run.last = last /\ run.page = page /\ run.more = more
  /\ run.saw = saw /\ run.whole = whole /\ run.hurt = hurt

LEMMA SetAt ==
  ASSUME NEW run \in SyncRun,
         NEW at \in {"none", "waiting", "ended"} \cup Active
  PROVE  RunIs([run EXCEPT !.at = at],
               run.status, run.full, at, run.tries, run.since, run.last,
               run.page, run.more, run.saw, run.whole, run.hurt)
  BY DEF RunIs, SyncRun

LEMMA SetStatusAt ==
  ASSUME NEW run \in SyncRun,
         NEW at \in {"none", "waiting", "ended"} \cup Active,
         NEW status \in {"none", "running", "completed", "failed", "gone"}
  PROVE  RunIs([run EXCEPT !.at = at, !.status = status],
               status, run.full, at, run.tries, run.since, run.last,
               run.page, run.more, run.saw, run.whole, run.hurt)
  BY DEF RunIs, SyncRun

LEMMA SetTaken ==
  ASSUME NEW run \in SyncRun,
         NEW at \in {"none", "waiting", "ended"} \cup Active,
         NEW tries \in 0..MaxTries,
         NEW whole \in BOOLEAN,
         NEW saw \in SUBSET Records
  PROVE  RunIs([run EXCEPT !.at = at, !.tries = tries, !.whole = whole, !.saw = saw],
               run.status, run.full, at, tries, run.since, run.last,
               run.page, run.more, saw, whole, run.hurt)
  BY DEF RunIs, SyncRun

LEMMA SetCursor ==
  ASSUME NEW run \in SyncRun,
         NEW at \in {"none", "waiting", "ended"} \cup Active,
         NEW since \in 0..MaxDate,
         NEW last \in Records \cup {None}
  PROVE  RunIs([run EXCEPT !.at = at, !.since = since, !.last = last],
               run.status, run.full, at, run.tries, since, last,
               run.page, run.more, run.saw, run.whole, run.hurt)
  BY DEF RunIs, SyncRun

LEMMA SetPage ==
  ASSUME NEW run \in SyncRun,
         NEW at \in {"none", "waiting", "ended"} \cup Active,
         NEW page \in SUBSET Versions,
         NEW more \in BOOLEAN
  PROVE  RunIs([run EXCEPT !.at = at, !.page = page, !.more = more],
               run.status, run.full, at, run.tries, run.since, run.last,
               page, more, run.saw, run.whole, run.hurt)
  BY DEF RunIs, SyncRun

LEMMA SetNext ==
  ASSUME NEW run \in SyncRun,
         NEW at \in {"none", "waiting", "ended"} \cup Active,
         NEW page \in SUBSET Versions,
         NEW last \in Records \cup {None}
  PROVE  RunIs([run EXCEPT !.at = at, !.page = page, !.last = last],
               run.status, run.full, at, run.tries, run.since, last,
               page, run.more, run.saw, run.whole, run.hurt)
  BY DEF RunIs, SyncRun

LEMMA SetCleared ==
  ASSUME NEW run \in SyncRun,
         NEW since \in 0..MaxDate,
         NEW last \in Records \cup {None},
         NEW page \in SUBSET Versions,
         NEW more \in BOOLEAN
  PROVE  RunIs([run EXCEPT !.since = since, !.last = last, !.page = page, !.more = more],
               run.status, run.full, run.at, run.tries, since, last,
               page, more, run.saw, run.whole, run.hurt)
  BY DEF RunIs, SyncRun

LEMMA SetWhole ==
  ASSUME NEW run \in SyncRun,
         NEW at \in {"none", "waiting", "ended"} \cup Active,
         NEW whole \in BOOLEAN
  PROVE  RunIs([run EXCEPT !.at = at, !.whole = whole],
               run.status, run.full, at, run.tries, run.since, run.last,
               run.page, run.more, run.saw, whole, run.hurt)
  BY DEF RunIs, SyncRun

LEMMA SetFresh ==
  ASSUME NEW run \in SyncRun,
         NEW at \in {"none", "waiting", "ended"} \cup Active,
         NEW whole \in BOOLEAN,
         NEW saw \in SUBSET Records
  PROVE  RunIs([run EXCEPT !.at = at, !.whole = whole, !.saw = saw],
               run.status, run.full, at, run.tries, run.since, run.last,
               run.page, run.more, saw, whole, run.hurt)
  BY DEF RunIs, SyncRun

LEMMA SetHurt ==
  ASSUME NEW run \in SyncRun,
         NEW hurt \in BOOLEAN
  PROVE  RunIs([run EXCEPT !.hurt = hurt],
               run.status, run.full, run.at, run.tries, run.since, run.last,
               run.page, run.more, run.saw, run.whole, hurt)
  BY DEF RunIs, SyncRun

LEMMA SetEnded ==
  ASSUME NEW run \in SyncRun,
         NEW at \in {"none", "waiting", "ended"} \cup Active,
         NEW status \in {"none", "running", "completed", "failed", "gone"},
         NEW hurt \in BOOLEAN
  PROVE  RunIs([run EXCEPT !.at = at, !.status = status, !.hurt = hurt],
               status, run.full, at, run.tries, run.since, run.last,
               run.page, run.more, run.saw, run.whole, hurt)
  BY DEF RunIs, SyncRun

LEMMA ResetIs ==
  ASSUME NEW run \in SyncRun
  PROVE  RunIs(Reset(run),
               run.status, run.full, run.at, run.tries, 0, None,
               {}, FALSE, run.saw, run.whole, run.hurt)
<1>1. /\ 0 \in 0..MaxDate /\ None \in Records \cup {None}
      /\ {} \in SUBSET Versions /\ FALSE \in BOOLEAN
  BY SyncAssumption
<1> QED
  BY <1>1, SetCleared DEF Reset

LEMMA ResetAt ==
  ASSUME NEW run \in SyncRun, NEW at \in {"none", "waiting", "ended"} \cup Active
  PROVE  RunIs([Reset(run) EXCEPT !.at = at],
               run.status, run.full, at, run.tries, 0, None,
               {}, FALSE, run.saw, run.whole, run.hurt)
<1> DEFINE cleared == Reset(run)
<1>1. RunIs(cleared, run.status, run.full, run.at, run.tries, 0, None,
            {}, FALSE, run.saw, run.whole, run.hurt)
  BY ResetIs
<1>2. cleared \in SyncRun
  BY <1>1 DEF RunIs
<1> HIDE DEF cleared
<1>3. RunIs([cleared EXCEPT !.at = at], run.status, run.full, at, run.tries, 0, None,
            {}, FALSE, run.saw, run.whole, run.hurt)
  BY <1>1, <1>2, SetAt DEF RunIs
<1> QED
  BY <1>3 DEF cleared

LEMMA ResetFails ==
  ASSUME NEW run \in SyncRun
  PROVE  RunIs([Reset(run) EXCEPT !.at = "complete", !.whole = FALSE],
               run.status, run.full, "complete", run.tries, 0, None,
               {}, FALSE, run.saw, FALSE, run.hurt)
<1> DEFINE cleared == Reset(run)
<1>1. RunIs(cleared, run.status, run.full, run.at, run.tries, 0, None,
            {}, FALSE, run.saw, run.whole, run.hurt)
  BY ResetIs
<1>2. cleared \in SyncRun
  BY <1>1 DEF RunIs
<1> HIDE DEF cleared
<1>3. "complete" \in {"none", "waiting", "ended"} \cup Active
  BY DEF Active, InTry
<1>4. RunIs([cleared EXCEPT !.at = "complete", !.whole = FALSE],
            run.status, run.full, "complete", run.tries, 0, None,
            {}, FALSE, run.saw, FALSE, run.hurt)
  BY <1>1, <1>2, <1>3, SetWhole DEF RunIs
<1> QED
  BY <1>4 DEF cleared

LEMMA ResetAgain ==
  ASSUME NEW run \in SyncRun
  PROVE  RunIs([Reset(run) EXCEPT !.at = "waiting", !.whole = TRUE, !.saw = {}],
               run.status, run.full, "waiting", run.tries, 0, None,
               {}, FALSE, {}, TRUE, run.hurt)
<1> DEFINE cleared == Reset(run)
<1>1. RunIs(cleared, run.status, run.full, run.at, run.tries, 0, None,
            {}, FALSE, run.saw, run.whole, run.hurt)
  BY ResetIs
<1>2. cleared \in SyncRun
  BY <1>1 DEF RunIs
<1> HIDE DEF cleared
<1>3. "waiting" \in {"none", "waiting", "ended"} \cup Active /\ {} \in SUBSET Records
  OBVIOUS
<1>4. RunIs([cleared EXCEPT !.at = "waiting", !.whole = TRUE, !.saw = {}],
            run.status, run.full, "waiting", run.tries, 0, None,
            {}, FALSE, {}, TRUE, run.hurt)
  <2>1. RunIs([cleared EXCEPT !.at = "waiting", !.whole = TRUE, !.saw = {}],
              cleared.status, cleared.full, "waiting", cleared.tries, cleared.since,
              cleared.last, cleared.page, cleared.more, {}, TRUE, cleared.hurt)
    BY <1>2, <1>3, SetFresh
  <2> QED
    BY <1>1, <2>1 DEF RunIs
<1> QED
  BY <1>4 DEF cleared

LEMMA EndedIs ==
  ASSUME NEW run \in SyncRun
  PROVE  RunIs(Ended(run),
               run.status, FALSE, "ended", 0, 0, None,
               {}, FALSE, {}, TRUE, run.hurt)
<1> DEFINE fresh == NoJob
<1>1. RunIs(fresh, "none", FALSE, "none", 0, 0, None, {}, FALSE, {}, TRUE, FALSE)
  BY SyncAssumption DEF RunIs, NoJob, SyncRun
<1>2. run.status \in {"none", "running", "completed", "failed", "gone"} /\ run.hurt \in BOOLEAN
  BY DEF SyncRun
<1> HIDE DEF fresh
<1>3. RunIs([fresh EXCEPT !.at = "ended", !.status = run.status, !.hurt = run.hurt],
            run.status, FALSE, "ended", 0, 0, None, {}, FALSE, {}, TRUE, run.hurt)
  <2>1. fresh \in SyncRun /\ "ended" \in {"none", "waiting", "ended"} \cup Active
    BY <1>1 DEF RunIs
  <2>2. RunIs([fresh EXCEPT !.at = "ended", !.status = run.status, !.hurt = run.hurt],
              run.status, fresh.full, "ended", fresh.tries, fresh.since,
              fresh.last, fresh.page, fresh.more, fresh.saw, fresh.whole, run.hurt)
    BY <1>2, <2>1, SetEnded
  <2> QED
    BY <1>1, <2>2 DEF RunIs
<1> QED
  BY <1>3 DEF fresh, Ended

\* A job that throws waits, if it may be tried again, or has ended.
LEMMA RethrownIs ==
  ASSUME NEW run \in SyncRun
  PROVE  \/ run.tries < MaxTries
            /\ RunIs(Rethrown(run), run.status, run.full, "waiting", run.tries, 0, None,
                     {}, FALSE, {}, TRUE, run.hurt)
         \/ RunIs(Rethrown(run), run.status, FALSE, "ended", 0, 0, None,
                  {}, FALSE, {}, TRUE, run.hurt)
<1>1. CASE run.tries < MaxTries
  BY <1>1, ResetAgain DEF Rethrown
<1>2. CASE ~(run.tries < MaxTries)
  BY <1>2, EndedIs DEF Rethrown
<1> QED
  BY <1>1, <1>2

LEMMA HurtIs ==
  ASSUME NEW run \in SyncRun
  PROVE  \/ run.tries < MaxTries
            /\ RunIs([Rethrown(run) EXCEPT !.hurt = TRUE], run.status, run.full, "waiting",
                     run.tries, 0, None, {}, FALSE, {}, TRUE, TRUE)
         \/ RunIs([Rethrown(run) EXCEPT !.hurt = TRUE], run.status, FALSE, "ended", 0, 0, None,
                  {}, FALSE, {}, TRUE, TRUE)
<1> DEFINE again == Rethrown(run)
<1>1. \/ run.tries < MaxTries
         /\ RunIs(again, run.status, run.full, "waiting", run.tries, 0, None,
                  {}, FALSE, {}, TRUE, run.hurt)
      \/ RunIs(again, run.status, FALSE, "ended", 0, 0, None, {}, FALSE, {}, TRUE, run.hurt)
  BY RethrownIs
<1> HIDE DEF again
<1>2. again \in SyncRun
  BY <1>1 DEF RunIs
<1>3. RunIs([again EXCEPT !.hurt = TRUE], again.status, again.full, again.at,
            again.tries, again.since, again.last, again.page, again.more, again.saw,
            again.whole, TRUE)
  BY <1>2, SetHurt
<1>4. CASE run.tries < MaxTries
           /\ RunIs(again, run.status, run.full, "waiting", run.tries, 0, None,
                    {}, FALSE, {}, TRUE, run.hurt)
  <2>1. RunIs([again EXCEPT !.hurt = TRUE], run.status, run.full, "waiting",
              run.tries, 0, None, {}, FALSE, {}, TRUE, TRUE)
    BY <1>3, <1>4 DEF RunIs
  <2> QED
    BY <1>4, <2>1 DEF again
<1>5. CASE RunIs(again, run.status, FALSE, "ended", 0, 0, None, {}, FALSE, {}, TRUE, run.hurt)
  <2>1. RunIs([again EXCEPT !.hurt = TRUE], run.status, FALSE, "ended", 0, 0, None,
              {}, FALSE, {}, TRUE, TRUE)
    BY <1>3, <1>5 DEF RunIs
  <2> QED
    BY <2>1 DEF again
<1> QED
  BY <1>1, <1>4, <1>5
LEMMA RunTyped ==
  ASSUME SyncTypeOK, NEW r \in SyncRuns PROVE synRuns[r] \in SyncRun
  BY DEF SyncTypeOK

LEMMA Moved ==
  ASSUME SyncTypeOK, NEW r \in SyncRuns, NEW STATE run, run \in SyncRun, Move(r, run)
  PROVE  /\ synRuns' \in [SyncRuns -> SyncRun] /\ synRuns'[r] = run
         /\ \A q \in SyncRuns \ {r} : synRuns'[q] = synRuns[q]
<1>1. synRuns \in [SyncRuns -> SyncRun]
  BY DEF SyncTypeOK
<1> QED
  BY <1>1 DEF Move

LEMMA QuietSteps ==
  ASSUME SyncTypeOK, NEW r \in SyncRuns, RunShape(r), QuietStep(r)
  PROVE  StepOfRun(r) /\ Quiet(r)
<1>0. synRuns[r] \in SyncRun /\ r \in SyncRuns /\ MaxTries \in Nat \ {0} /\ MaxDate \in Nat /\ MaxDeaths \in Nat
  BY SyncAssumption, RunTyped
<1> DEFINE old == synRuns[r]
<1>1. CASE Take(r)
  <2> DEFINE new == [synRuns[r] EXCEPT
             !.at = "load", !.tries = @ + 1, !.whole = TRUE,
             !.saw = IF synProvider = "stripe" /\ synRuns[r].full THEN Present ELSE {}]
         saw == IF synProvider = "stripe" /\ synRuns[r].full THEN Present ELSE {}
         tries == old.tries + 1
  <2>1. Move(r, new) /\ old.at = "waiting"
    BY <1>1 DEF Take
  <2>2. saw \in SUBSET Records /\ saw \in {{}, Present}
    BY DEF Present
  <2>3. tries \in 0..MaxTries /\ "load" \in {"none", "waiting", "ended"} \cup Active
    BY <1>0, <2>1 DEF RunShape, SyncRun, Active, InTry
  <2> HIDE DEF saw, tries
  <2>41. new = [old EXCEPT !.at = "load", !.tries = tries, !.whole = TRUE, !.saw = saw]
    BY DEF saw, tries
  <2>4. RunIs(new, old.status, old.full, "load", tries, old.since, old.last,
              old.page, old.more, saw, TRUE, old.hurt)
    BY <1>0, <2>2, <2>3, <2>41, SetTaken
  <2>5. new \in SyncRun
    BY <2>4 DEF RunIs
  <2> HIDE DEF new
  <2>6. /\ synRuns' \in [SyncRuns -> SyncRun] /\ synRuns'[r] = new
        /\ \A q \in SyncRuns \ {r} : synRuns'[q] = synRuns[q]
    BY <2>1, <2>5, Moved
  <2>7. RunShape(r)'
    BY <1>0, <2>1, <2>2, <2>3, <2>4, <2>6 DEF RunIs, RunShape, Paged, SyncRun
  <2>8. Quiet(r)
    BY <1>0, <2>1, <2>2, <2>3, <2>4, <2>6, <1>1 DEF Take, RunIs, RunShape, Quiet, Paged, source, conn, data
  <2>9. StepOfRun(r)
    BY <1>0, <2>1, <2>2, <2>3, <2>4, <2>6, <2>7, <1>1
    DEF Take, RunIs, RunShape, StepOfRun, SyncTypeOK, Connected, Active, InTry, InObject, source, conn, data
  <2> QED
    BY <2>8, <2>9
<1>2. CASE LoadConnection(r)
  <2> DEFINE new == [synRuns[r] EXCEPT !.at = IF Connected /\ synCreds THEN "cursor" ELSE "fail"]
         at == IF Connected /\ synCreds THEN "cursor" ELSE "fail"
  <2>1. Move(r, new) /\ old.at = "load"
    BY <1>2 DEF LoadConnection
  <2>2. at \in {"none", "waiting", "ended"} \cup Active /\ at \in {"cursor", "fail"}
    BY DEF Active, InTry, InObject
  <2>3. RunIs(new, old.status, old.full, at, old.tries, old.since, old.last,
              old.page, old.more, old.saw, old.whole, old.hurt)
    BY <1>0, <2>1, <2>2, SetAt
  <2>4. new \in SyncRun
    BY <2>3 DEF RunIs
  <2> HIDE DEF new, at
  <2>5. /\ synRuns' \in [SyncRuns -> SyncRun] /\ synRuns'[r] = new
        /\ \A q \in SyncRuns \ {r} : synRuns'[q] = synRuns[q]
    BY <2>1, <2>4, Moved
  <2>6. RunShape(r)'
    BY <1>0, <2>1, <2>2, <2>3, <2>5 DEF RunIs, RunShape, Paged, SyncRun
  <2>7. Quiet(r)
    BY <1>0, <2>1, <2>2, <2>3, <2>5, <1>2 DEF LoadConnection, RunIs, RunShape, Quiet, Paged, source, conn, data
  <2>8. StepOfRun(r)
    BY <1>0, <2>1, <2>2, <2>3, <2>5, <2>6, <1>2
    DEF LoadConnection, RunIs, RunShape, StepOfRun, SyncTypeOK, Connected, Active, InTry, InObject, source, conn, data
  <2> QED
    BY <2>7, <2>8
<1>3. CASE LoadCursor(r)
  <2>0. "fetch" \in {"none", "waiting", "ended"} \cup Active
    BY DEF Active, InTry, InObject
  <2>1. CASE synRuns[r].full \/ synCursor = None
    <3> DEFINE new == [synRuns[r] EXCEPT !.at = "fetch"]
    <3>1. Move(r, new) /\ old.at = "cursor"
      BY <2>1, <1>3 DEF LoadCursor
    <3>2. RunIs(new, old.status, old.full, "fetch", old.tries, old.since, old.last,
                old.page, old.more, old.saw, old.whole, old.hurt)
      BY <1>0, <2>0, <2>1, <3>1, SetAt
    <3>3. new \in SyncRun
      BY <3>2 DEF RunIs
    <3> HIDE DEF new
    <3>4. /\ synRuns' \in [SyncRuns -> SyncRun] /\ synRuns'[r] = new
          /\ \A q \in SyncRuns \ {r} : synRuns'[q] = synRuns[q]
      BY <3>1, <3>3, Moved
    <3>5. RunShape(r)'
      BY <1>0, <2>0, <2>1, <3>1, <3>2, <3>4 DEF RunIs, RunShape, Paged, SyncRun
    <3>6. Quiet(r)
      BY <1>0, <2>0, <2>1, <3>1, <3>2, <3>4, <1>3 DEF LoadCursor, RunIs, RunShape, Quiet, Paged, source, conn, data
    <3>7. StepOfRun(r)
      BY <1>0, <2>0, <2>1, <3>1, <3>2, <3>4, <3>5, <1>3
      DEF LoadCursor, RunIs, RunShape, StepOfRun, SyncTypeOK, Connected, Active, InTry, InObject, source, conn, data
    <3> QED
      BY <3>6, <3>7
  <2>2. CASE ~(synRuns[r].full \/ synCursor = None)
    <3> DEFINE new == [synRuns[r] EXCEPT !.at = "fetch", !.since = synCursor.since,
                                       !.last = synCursor.last]
    <3>1. Move(r, new) /\ old.at = "cursor"
      BY <2>2, <1>3 DEF LoadCursor
    <3>2. synCursor.since \in 0..MaxDate /\ synCursor.last \in Records \cup {None}
      BY <2>2 DEF SyncTypeOK, Cursor
    <3>3. RunIs(new, old.status, old.full, "fetch", old.tries, synCursor.since, synCursor.last,
                old.page, old.more, old.saw, old.whole, old.hurt)
      BY <1>0, <2>0, <2>2, <3>1, <3>2, SetCursor
    <3>4. new \in SyncRun
      BY <3>3 DEF RunIs
    <3> HIDE DEF new
    <3>5. /\ synRuns' \in [SyncRuns -> SyncRun] /\ synRuns'[r] = new
          /\ \A q \in SyncRuns \ {r} : synRuns'[q] = synRuns[q]
      BY <3>1, <3>4, Moved
    <3>6. RunShape(r)'
      BY <1>0, <2>0, <2>2, <3>1, <3>2, <3>3, <3>5 DEF RunIs, RunShape, Paged, SyncRun
    <3>7. Quiet(r)
      BY <1>0, <2>0, <2>2, <3>1, <3>2, <3>3, <3>5, <1>3 DEF LoadCursor, RunIs, RunShape, Quiet, Paged, source, conn, data
    <3>8. StepOfRun(r)
      BY <1>0, <2>0, <2>2, <3>1, <3>2, <3>3, <3>5, <3>6, <1>3
      DEF LoadCursor, RunIs, RunShape, StepOfRun, SyncTypeOK, Connected, Active, InTry, InObject, source, conn, data
    <3> QED
      BY <3>7, <3>8
  <2> QED
    BY <2>1, <2>2
<1>4. CASE ObjectFails(r)
  <2> DEFINE new == [Reset(synRuns[r]) EXCEPT !.at = "complete", !.whole = FALSE]
  <2>1. Move(r, new) /\ old.at \in InObject
    BY <1>4 DEF ObjectFails
  <2>2. RunIs(new, old.status, old.full, "complete", old.tries, 0, None,
              {}, FALSE, old.saw, FALSE, old.hurt)
    BY <1>0, <2>1, ResetFails
  <2>3. new \in SyncRun
    BY <2>2 DEF RunIs
  <2> HIDE DEF new
  <2>4. /\ synRuns' \in [SyncRuns -> SyncRun] /\ synRuns'[r] = new
        /\ \A q \in SyncRuns \ {r} : synRuns'[q] = synRuns[q]
    BY <2>1, <2>3, Moved
  <2>5. RunShape(r)'
    BY <1>0, <2>1, <2>2, <2>4 DEF RunIs, RunShape, Paged, SyncRun, Active, InTry, InObject
  <2>6. Quiet(r)
    BY <1>0, <2>1, <2>2, <2>4, <1>4 DEF ObjectFails, RunIs, RunShape, Quiet, Paged, source, conn, data
  <2>7. StepOfRun(r)
    BY <1>0, <2>1, <2>2, <2>4, <2>5, <1>4
    DEF ObjectFails, RunIs, RunShape, StepOfRun, SyncTypeOK, Connected, Active, InTry, InObject, source, conn, data
  <2> QED
    BY <2>6, <2>7
<1>5. CASE CompleteRun(r)
  <2> DEFINE new == [synRuns[r] EXCEPT !.at = "connected",
             !.status = IF @ \in {"none", "gone"} THEN @ ELSE "completed"]
         status == IF old.status \in {"none", "gone"} THEN old.status ELSE "completed"
  <2>1. Move(r, new) /\ old.at = "complete"
    BY <1>5 DEF CompleteRun, SetStatus
  <2>2. status \in {"none", "running", "completed", "failed", "gone"} /\ "connected" \in {"none", "waiting", "ended"} \cup Active
    BY <1>0 DEF SyncRun, Active, InTry
  <2>3. status # "running" /\ (status = "none" <=> old.status = "none")
    OBVIOUS
  <2>41. new = [old EXCEPT !.at = "connected", !.status = status]
    OBVIOUS
  <2>42. RunIs([old EXCEPT !.at = "connected", !.status = status], status, old.full, "connected", old.tries, old.since, old.last,
              old.page, old.more, old.saw, old.whole, old.hurt)
    <3> HIDE DEF status, old
    <3> QED
      BY <1>0, <2>2, SetStatusAt DEF old
  <2>4. RunIs(new, status, old.full, "connected", old.tries, old.since, old.last,
              old.page, old.more, old.saw, old.whole, old.hurt)
    BY <2>41, <2>42
  <2>5. new \in SyncRun
    BY <2>4 DEF RunIs
  <2> HIDE DEF new, status
  <2>6. /\ synRuns' \in [SyncRuns -> SyncRun] /\ synRuns'[r] = new
        /\ \A q \in SyncRuns \ {r} : synRuns'[q] = synRuns[q]
    BY <2>1, <2>5, Moved
  <2>7. RunShape(r)'
    BY <1>0, <2>1, <2>2, <2>3, <2>4, <2>6 DEF RunIs, RunShape, Paged, SyncRun
  <2>8. Quiet(r)
    BY <1>0, <2>1, <2>2, <2>3, <2>4, <2>6, <1>5 DEF CompleteRun, RunIs, RunShape, Quiet, Paged, source, conn, data
  <2>9. StepOfRun(r)
    BY <1>0, <2>1, <2>2, <2>3, <2>4, <2>6, <2>7, <1>5
    DEF CompleteRun, RunIs, RunShape, StepOfRun, SyncTypeOK, Connected, Active, InTry, InObject, source, conn, data
  <2> QED
    BY <2>8, <2>9
<1>6. CASE CompleteConn(r)
  <2> DEFINE new == Ended(synRuns[r])
  <2>1. Move(r, new) /\ old.at = "connected"
    BY <1>6 DEF CompleteConn
  <2>2. RunIs(new, old.status, FALSE, "ended", 0, 0, None,
              {}, FALSE, {}, TRUE, old.hurt)
    BY <1>0, <2>1, EndedIs
  <2>3. new \in SyncRun
    BY <2>2 DEF RunIs
  <2> HIDE DEF new
  <2>4. /\ synRuns' \in [SyncRuns -> SyncRun] /\ synRuns'[r] = new
        /\ \A q \in SyncRuns \ {r} : synRuns'[q] = synRuns[q]
    BY <2>1, <2>3, Moved
  <2>5. RunShape(r)'
    BY <1>0, <2>1, <2>2, <2>4 DEF RunIs, RunShape, Paged, SyncRun
  <2>6. Quiet(r)
    BY <1>0, <2>1, <2>2, <2>4, <1>6 DEF CompleteConn, RunIs, RunShape, Quiet, Paged, source, conn, data
  <2>7. StepOfRun(r)
    BY <1>0, <2>1, <2>2, <2>4, <2>5, <1>6
    DEF CompleteConn, RunIs, RunShape, StepOfRun, SyncTypeOK, Connected, Active, InTry, InObject, source, conn, data
  <2> QED
    BY <2>6, <2>7
<1>7. CASE Throws(r)
  <2> DEFINE new == [synRuns[r] EXCEPT !.at = "fail"]
  <2>1. Move(r, new) /\ old.at \in InTry \ InObject
    BY <1>7 DEF Throws
  <2>2. "fail" \in {"none", "waiting", "ended"} \cup Active
    BY DEF Active
  <2>3. RunIs(new, old.status, old.full, "fail", old.tries, old.since, old.last,
              old.page, old.more, old.saw, old.whole, old.hurt)
    BY <1>0, <2>1, <2>2, SetAt
  <2>4. new \in SyncRun
    BY <2>3 DEF RunIs
  <2> HIDE DEF new
  <2>5. /\ synRuns' \in [SyncRuns -> SyncRun] /\ synRuns'[r] = new
        /\ \A q \in SyncRuns \ {r} : synRuns'[q] = synRuns[q]
    BY <2>1, <2>4, Moved
  <2>6. RunShape(r)'
    BY <1>0, <2>1, <2>2, <2>3, <2>5 DEF RunIs, RunShape, Paged, SyncRun, Active, InTry, InObject
  <2>7. Quiet(r)
    BY <1>0, <2>1, <2>2, <2>3, <2>5, <1>7 DEF Throws, RunIs, RunShape, Quiet, Paged, source, conn, data
  <2>8. StepOfRun(r)
    BY <1>0, <2>1, <2>2, <2>3, <2>5, <2>6, <1>7
    DEF Throws, RunIs, RunShape, StepOfRun, SyncTypeOK, Connected, Active, InTry, InObject, source, conn, data
  <2> QED
    BY <2>7, <2>8
<1>8. CASE FailRun(r)
  <2> DEFINE new == [synRuns[r] EXCEPT !.at = "error",
             !.status = IF @ \in {"none", "gone"} THEN @ ELSE "failed"]
         status == IF old.status \in {"none", "gone"} THEN old.status ELSE "failed"
  <2>1. Move(r, new) /\ old.at = "fail"
    BY <1>8 DEF FailRun, SetStatus
  <2>2. status \in {"none", "running", "completed", "failed", "gone"} /\ "error" \in {"none", "waiting", "ended"} \cup Active
    BY <1>0 DEF SyncRun, Active, InTry
  <2>3. status # "running" /\ (status = "none" <=> old.status = "none")
    OBVIOUS
  <2>41. new = [old EXCEPT !.at = "error", !.status = status]
    OBVIOUS
  <2>42. RunIs([old EXCEPT !.at = "error", !.status = status], status, old.full, "error", old.tries, old.since, old.last,
              old.page, old.more, old.saw, old.whole, old.hurt)
    <3> HIDE DEF status, old
    <3> QED
      BY <1>0, <2>2, SetStatusAt DEF old
  <2>4. RunIs(new, status, old.full, "error", old.tries, old.since, old.last,
              old.page, old.more, old.saw, old.whole, old.hurt)
    BY <2>41, <2>42
  <2>5. new \in SyncRun
    BY <2>4 DEF RunIs
  <2> HIDE DEF new, status
  <2>6. /\ synRuns' \in [SyncRuns -> SyncRun] /\ synRuns'[r] = new
        /\ \A q \in SyncRuns \ {r} : synRuns'[q] = synRuns[q]
    BY <2>1, <2>5, Moved
  <2>7. RunShape(r)'
    BY <1>0, <2>1, <2>2, <2>3, <2>4, <2>6 DEF RunIs, RunShape, Paged, SyncRun
  <2>8. Quiet(r)
    BY <1>0, <2>1, <2>2, <2>3, <2>4, <2>6, <1>8 DEF FailRun, RunIs, RunShape, Quiet, Paged, source, conn, data
  <2>9. StepOfRun(r)
    BY <1>0, <2>1, <2>2, <2>3, <2>4, <2>6, <2>7, <1>8
    DEF FailRun, RunIs, RunShape, StepOfRun, SyncTypeOK, Connected, Active, InTry, InObject, source, conn, data
  <2> QED
    BY <2>8, <2>9
<1>9. CASE FailConn(r)
  <2> DEFINE new == Rethrown(synRuns[r])
  <2>1. Move(r, new) /\ old.at = "error"
    BY <1>9 DEF FailConn
  <2>2. \/ old.tries < MaxTries /\ RunIs(new, old.status, old.full, "waiting", old.tries, 0, None,
              {}, FALSE, {}, TRUE, old.hurt)
        \/ RunIs(new, old.status, FALSE, "ended", 0, 0, None,
              {}, FALSE, {}, TRUE, old.hurt)
    BY <1>0, <2>1, RethrownIs
  <2>3. new \in SyncRun
    BY <2>2 DEF RunIs
  <2> HIDE DEF new
  <2>4. /\ synRuns' \in [SyncRuns -> SyncRun] /\ synRuns'[r] = new
        /\ \A q \in SyncRuns \ {r} : synRuns'[q] = synRuns[q]
    BY <2>1, <2>3, Moved
  <2>5. RunShape(r)'
    BY <1>0, <2>1, <2>2, <2>4 DEF RunIs, RunShape, Paged, SyncRun
  <2>6. Quiet(r)
    BY <1>0, <2>1, <2>2, <2>4, <1>9 DEF FailConn, RunIs, RunShape, Quiet, Paged, source, conn, data
  <2>7. StepOfRun(r)
    BY <1>0, <2>1, <2>2, <2>4, <2>5, <1>9
    DEF FailConn, RunIs, RunShape, StepOfRun, SyncTypeOK, Connected, Active, InTry, InObject, source, conn, data
  <2> QED
    BY <2>6, <2>7
<1>10. CASE CatchFails(r)
  <2> DEFINE new == [Rethrown(synRuns[r]) EXCEPT !.hurt = TRUE]
  <2>1. Move(r, new) /\ old.at \in {"fail", "error"}
    BY <1>10 DEF CatchFails
  <2>2. \/ old.tries < MaxTries /\ RunIs(new, old.status, old.full, "waiting", old.tries, 0, None,
              {}, FALSE, {}, TRUE, TRUE)
        \/ RunIs(new, old.status, FALSE, "ended", 0, 0, None,
              {}, FALSE, {}, TRUE, TRUE)
    BY <1>0, <2>1, HurtIs
  <2>3. new \in SyncRun
    BY <2>2 DEF RunIs
  <2> HIDE DEF new
  <2>4. /\ synRuns' \in [SyncRuns -> SyncRun] /\ synRuns'[r] = new
        /\ \A q \in SyncRuns \ {r} : synRuns'[q] = synRuns[q]
    BY <2>1, <2>3, Moved
  <2>5. RunShape(r)'
    BY <1>0, <2>1, <2>2, <2>4 DEF RunIs, RunShape, Paged, SyncRun
  <2>6. Quiet(r)
    BY <1>0, <2>1, <2>2, <2>4, <1>10 DEF CatchFails, RunIs, RunShape, Quiet, Paged, source, conn, data
  <2>7. StepOfRun(r)
    BY <1>0, <2>1, <2>2, <2>4, <2>5, <1>10
    DEF CatchFails, RunIs, RunShape, StepOfRun, SyncTypeOK, Connected, Active, InTry, InObject, source, conn, data
  <2> QED
    BY <2>6, <2>7
<1>11. CASE Dies(r)
  <2> DEFINE new == [Rethrown(synRuns[r]) EXCEPT !.hurt = TRUE]
  <2>1. Move(r, new) /\ old.at \in Active
    BY <1>11 DEF Dies
  <2>2. \/ old.tries < MaxTries /\ RunIs(new, old.status, old.full, "waiting", old.tries, 0, None,
              {}, FALSE, {}, TRUE, TRUE)
        \/ RunIs(new, old.status, FALSE, "ended", 0, 0, None,
              {}, FALSE, {}, TRUE, TRUE)
    BY <1>0, <2>1, HurtIs
  <2>3. new \in SyncRun
    BY <2>2 DEF RunIs
  <2> HIDE DEF new
  <2>4. /\ synRuns' \in [SyncRuns -> SyncRun] /\ synRuns'[r] = new
        /\ \A q \in SyncRuns \ {r} : synRuns'[q] = synRuns[q]
    BY <2>1, <2>3, Moved
  <2>5. RunShape(r)'
    BY <1>0, <2>1, <2>2, <2>4 DEF RunIs, RunShape, Paged, SyncRun, Active, InTry, InObject
  <2>6. Quiet(r)
    BY <1>0, <2>1, <2>2, <2>4, <1>11 DEF Dies, RunIs, RunShape, Quiet, Paged, source, conn, data
  <2>7. StepOfRun(r)
    BY <1>0, <2>1, <2>2, <2>4, <2>5, <1>11
    DEF Dies, RunIs, RunShape, StepOfRun, SyncTypeOK, Connected, Active, InTry, InObject, source, conn, data
  <2> QED
    BY <2>6, <2>7
<1> QED
  BY <1>1, <1>2, <1>3, <1>4, <1>5, <1>6, <1>7, <1>8, <1>9, <1>10, <1>11 DEF QuietStep
LEMMA CursorOfIs ==
  ASSUME NEW run \in SyncRun, run.page # {}
  PROVE  /\ CursorOf(run) \in Cursor
         /\ synProvider = "salesforce" =>
              \E v \in run.page : CursorOf(run).since = v.date
         /\ CursorOf(run).since \in {v.date : v \in run.page} \cup {run.since}
         /\ synProvider # "salesforce" =>
              \E v \in run.page : /\ CursorOf(run).last = v.x
                                  /\ \A w \in run.page : v.date <= w.date
<1> DEFINE dates == {v.date : v \in run.page}
           oldest == CHOOSE v \in run.page : v.date = Min(dates)
<1>1. run.page \subseteq Versions /\ run.since \in 0..MaxDate /\ MaxDate \in Nat
  BY SyncAssumption DEF SyncRun
<1>2. \A v \in run.page : v.x \in Records /\ v.date \in 1..MaxDate
  BY <1>1 DEF Versions
<1>3. dates \subseteq 0..MaxDate /\ dates # {} /\ dates \subseteq Nat
  BY <1>1, <1>2
<1>4. Max(dates) \in dates
  <2> HIDE DEF dates
  <2> QED
    BY <1>1, <1>3, MaxIs
<1>5. Max(dates \cup {run.since}) \in dates \cup {run.since}
  <2> HIDE DEF dates
  <2>1. dates \cup {run.since} \subseteq 0..MaxDate /\ dates \cup {run.since} # {}
    BY <1>1, <1>3
  <2> QED
    BY <1>1, <2>1, MaxIs
<1>6. Min(dates) \in dates /\ \A d \in dates : Min(dates) <= d
  <2> HIDE DEF dates
  <2> QED
    BY <1>3, MinIs
<1>7. oldest \in run.page /\ oldest.date = Min(dates)
  <2>1. \E v \in run.page : v.date = Min(dates)
    BY <1>6
  <2> QED
    BY <2>1
<1>8. \A w \in run.page : oldest.date <= w.date
  <2> HIDE DEF oldest
  <2> QED
    BY <1>6, <1>7
<1>9. CASE synProvider = "salesforce"
  <2> DEFINE since == Max(dates)
  <2>1. CursorOf(run) = [since |-> since, last |-> None]
    BY <1>9 DEF CursorOf
  <2>2. PICK v \in run.page : since = v.date
    BY <1>4
  <2>3. since \in 0..MaxDate
    <3> HIDE DEF dates
    <3> QED
      BY <1>3, <1>4
  <2>4. since \in {w.date : w \in run.page} \cup {run.since}
    BY <2>2
  <2> HIDE DEF since
  <2>5. CursorOf(run).since = since /\ CursorOf(run) \in Cursor
    BY <2>1, <2>3 DEF Cursor
  <2> QED
    BY <1>9, <2>2, <2>4, <2>5
<1>10. CASE synProvider # "salesforce"
  <2>1. CursorOf(run) = [since |-> Max(dates \cup {run.since}), last |-> oldest.x]
    BY <1>10 DEF CursorOf
  <2>2. oldest.x \in Records
    <3> HIDE DEF oldest
    <3> QED
      BY <1>2, <1>7
  <2>3. Max(dates \cup {run.since}) \in 0..MaxDate
    <3> HIDE DEF dates
    <3> QED
      BY <1>1, <1>3, <1>5
  <2> DEFINE since == Max(dates \cup {run.since})
             last == oldest.x
  <2>4. CursorOf(run).since = since /\ CursorOf(run).last = last /\ CursorOf(run) \in Cursor
    <3> HIDE DEF dates, oldest
    <3> HIDE DEF since, last
    <3>1. CursorOf(run) = [since |-> since, last |-> last] /\ last \in Records /\ since \in 0..MaxDate
      BY <2>1, <2>2, <2>3 DEF since, last
    <3> QED
      BY <3>1 DEF Cursor
  <2> HIDE DEF oldest
  <2> QED
    BY <1>5, <1>7, <1>8, <1>10, <2>4
<1> QED
  BY <1>9, <1>10

\* The versions on a page that is fetched.
LEMMA FetchedIs ==
  ASSUME SyncTypeOK, NEW run
  PROVE  /\ Fetched(run) \subseteq Present
         /\ {Version(x) : x \in Fetched(run)} \in SUBSET Versions
<1>1. Fetched(run) \subseteq Present
  BY PagesArePresent DEF Fetched
<1>2. \A x \in Present : Version(x) \in Versions
  BY SyncAssumption DEF Present, SyncTypeOK, Version, Versions
<1> QED
  BY <1>1, <1>2

LEMMA FetchSteps ==
  ASSUME SyncTypeOK, NEW r \in SyncRuns, RunShape(r), Fetch(r)
  PROVE  /\ StepOfRun(r) /\ UNCHANGED data
         /\ LET page == Fetched(synRuns[r])
                old == synRuns[r]
            IN  \/ /\ page = {}
                   /\ RunIs(synRuns'[r], old.status, old.full, "complete", old.tries, 0, None,
                            {}, FALSE, old.saw, old.whole, old.hurt)
                \/ /\ page # {}
                   /\ RunIs(synRuns'[r], old.status, old.full, "upload", old.tries,
                            old.since, old.last, {Version(x) : x \in page},
                            synProvider = "stripe" /\ StripeList(old.last, old.since) # page,
                            old.saw, old.whole, old.hurt)
<1>0. synRuns[r] \in SyncRun /\ r \in SyncRuns /\ MaxTries \in Nat \ {0} /\ MaxDate \in Nat /\ MaxDeaths \in Nat
  BY SyncAssumption, RunTyped
<1> DEFINE old == synRuns[r]
           page == Fetched(synRuns[r])
<1>1. CASE page = {} /\ Fetch(r)
  <2> DEFINE new == [Reset(synRuns[r]) EXCEPT !.at = "complete"]
  <2>1. Move(r, new) /\ old.at = "fetch"
    BY <1>1 DEF Fetch
  <2>2. "complete" \in {"none", "waiting", "ended"} \cup Active
    BY DEF Active, InTry
  <2>3. RunIs(new, old.status, old.full, "complete", old.tries, 0, None,
              {}, FALSE, old.saw, old.whole, old.hurt)
    BY <1>0, <2>1, <2>2, ResetAt
  <2>4. new \in SyncRun
    BY <2>3 DEF RunIs
  <2> HIDE DEF new
  <2>5. /\ synRuns' \in [SyncRuns -> SyncRun] /\ synRuns'[r] = new
        /\ \A q \in SyncRuns \ {r} : synRuns'[q] = synRuns[q]
    BY <2>1, <2>4, Moved
  <2>6. RunShape(r)'
    BY <1>0, <2>1, <2>2, <2>3, <2>5 DEF RunIs, RunShape, Paged, SyncRun
  <2>7. UNCHANGED data
    BY <1>1 DEF Fetch, source, conn, data
  <2>8. StepOfRun(r)
    BY <1>0, <2>1, <2>2, <2>3, <2>5, <2>6, <1>1
    DEF Fetch, RunIs, RunShape, StepOfRun, SyncTypeOK, Connected, Active, InTry, InObject, source, conn, data
  <2> QED
    BY <2>7, <2>8, <2>1, <2>3, <2>5, <1>1
<1>2. CASE page # {} /\ Fetch(r)
  <2> DEFINE new == [synRuns[r] EXCEPT
             !.at = "upload", !.page = {Version(x) : x \in page},
             !.more = /\ synProvider = "stripe"
                      /\ StripeList(synRuns[r].last, synRuns[r].since) # page]
         versions == {Version(x) : x \in page}
         more == /\ synProvider = "stripe"
                 /\ StripeList(synRuns[r].last, synRuns[r].since) # page
  <2>1. Move(r, new) /\ old.at = "fetch"
    BY <1>2 DEF Fetch
  <2>2. versions \in SUBSET Versions /\ versions # {} /\ more \in BOOLEAN
    BY <1>2, FetchedIs
  <2>3. "upload" \in {"none", "waiting", "ended"} \cup Active
    BY DEF Active, InTry, InObject
  <2>41. new = [old EXCEPT !.at = "upload", !.page = versions, !.more = more]
    OBVIOUS
  <2>42. RunIs([old EXCEPT !.at = "upload", !.page = versions, !.more = more], old.status, old.full, "upload", old.tries, old.since, old.last,
              versions, more, old.saw, old.whole, old.hurt)
    <3> HIDE DEF versions, more, old
    <3> QED
      BY <1>0, <2>2, <2>3, SetPage DEF old
  <2>4. RunIs(new, old.status, old.full, "upload", old.tries, old.since, old.last,
              versions, more, old.saw, old.whole, old.hurt)
    BY <2>41, <2>42
  <2>5. new \in SyncRun
    BY <2>4 DEF RunIs
  <2> HIDE DEF new, versions, more
  <2>6. /\ synRuns' \in [SyncRuns -> SyncRun] /\ synRuns'[r] = new
        /\ \A q \in SyncRuns \ {r} : synRuns'[q] = synRuns[q]
    BY <2>1, <2>5, Moved
  <2>7. RunShape(r)'
    BY <1>0, <2>1, <2>2, <2>3, <2>4, <2>6 DEF RunIs, RunShape, Paged, SyncRun
  <2>8. UNCHANGED data
    BY <1>2 DEF Fetch, source, conn, data
  <2>9. StepOfRun(r)
    BY <1>0, <2>1, <2>2, <2>3, <2>4, <2>6, <2>7, <1>2
    DEF Fetch, RunIs, RunShape, StepOfRun, SyncTypeOK, Connected, Active, InTry, InObject, source, conn, data
  <2> USE DEF versions, more
  <2> QED
    BY <2>8, <2>9, <2>1, <2>4, <2>6, <1>2
<1> QED
  BY <1>1, <1>2

LEMMA UploadSteps ==
  ASSUME SyncTypeOK, NEW r \in SyncRuns, RunShape(r), Upload(r)
  PROVE  /\ StepOfRun(r) /\ synRuns[r].at = "upload"
         /\ UNCHANGED <<synCursor, synStored>> /\ synObjects' = synObjects \cup synRuns[r].page
         /\ LET old == synRuns[r]
            IN  RunIs(synRuns'[r], old.status, old.full, "insert", old.tries,
                      old.since, old.last, old.page, old.more, old.saw, old.whole, old.hurt)
<1>0. synRuns[r] \in SyncRun /\ r \in SyncRuns /\ MaxTries \in Nat \ {0} /\ MaxDate \in Nat /\ MaxDeaths \in Nat
  BY SyncAssumption, RunTyped
<1> DEFINE old == synRuns[r]
<1>1. CASE Upload(r)
  <2> DEFINE new == [synRuns[r] EXCEPT !.at = "insert"]
  <2>1. Move(r, new) /\ old.at = "upload"
    BY <1>1 DEF Upload
  <2>2. "insert" \in {"none", "waiting", "ended"} \cup Active
    BY DEF Active, InTry, InObject
  <2>3. RunIs(new, old.status, old.full, "insert", old.tries, old.since, old.last,
              old.page, old.more, old.saw, old.whole, old.hurt)
    BY <1>0, <2>1, <2>2, SetAt
  <2>4. new \in SyncRun
    BY <2>3 DEF RunIs
  <2> HIDE DEF new
  <2>5. /\ synRuns' \in [SyncRuns -> SyncRun] /\ synRuns'[r] = new
        /\ \A q \in SyncRuns \ {r} : synRuns'[q] = synRuns[q]
    BY <2>1, <2>4, Moved
  <2>6. RunShape(r)'
    BY <1>0, <2>1, <2>2, <2>3, <2>5 DEF RunIs, RunShape, Paged, SyncRun
  <2>7. UNCHANGED <<synCursor, synStored>> /\ synObjects' = synObjects \cup synRuns[r].page
    BY <1>1 DEF Upload, source, conn, data
  <2>8. StepOfRun(r)
    BY <1>0, <2>1, <2>2, <2>3, <2>5, <2>6, <1>1
    DEF Upload, RunIs, RunShape, StepOfRun, SyncTypeOK, Connected, Active, InTry, InObject, source, conn, data
  <2> QED
    BY <2>7, <2>8, <2>1, <2>3, <2>5, <1>1
<1> QED
  BY <1>1

LEMMA InsertSteps ==
  ASSUME SyncTypeOK, NEW r \in SyncRuns, RunShape(r), InsertBatch(r)
  PROVE  /\ StepOfRun(r) /\ synRuns[r].at = "insert"
         /\ Connected /\ UNCHANGED <<synCursor, synObjects>> /\ synStored' = synStored \cup synRuns[r].page
         /\ LET old == synRuns[r]
            IN  RunIs(synRuns'[r], old.status, old.full, "save", old.tries,
                      old.since, old.last, old.page, old.more, old.saw, old.whole, old.hurt)
<1>0. synRuns[r] \in SyncRun /\ r \in SyncRuns /\ MaxTries \in Nat \ {0} /\ MaxDate \in Nat /\ MaxDeaths \in Nat
  BY SyncAssumption, RunTyped
<1> DEFINE old == synRuns[r]
<1>1. CASE InsertBatch(r)
  <2> DEFINE new == [synRuns[r] EXCEPT !.at = "save"]
  <2>1. Move(r, new) /\ old.at = "insert"
    BY <1>1 DEF InsertBatch
  <2>2. "save" \in {"none", "waiting", "ended"} \cup Active
    BY DEF Active, InTry, InObject
  <2>3. RunIs(new, old.status, old.full, "save", old.tries, old.since, old.last,
              old.page, old.more, old.saw, old.whole, old.hurt)
    BY <1>0, <2>1, <2>2, SetAt
  <2>4. new \in SyncRun
    BY <2>3 DEF RunIs
  <2> HIDE DEF new
  <2>5. /\ synRuns' \in [SyncRuns -> SyncRun] /\ synRuns'[r] = new
        /\ \A q \in SyncRuns \ {r} : synRuns'[q] = synRuns[q]
    BY <2>1, <2>4, Moved
  <2>6. RunShape(r)'
    BY <1>0, <2>1, <2>2, <2>3, <2>5 DEF RunIs, RunShape, Paged, SyncRun
  <2>7. Connected /\ UNCHANGED <<synCursor, synObjects>> /\ synStored' = synStored \cup synRuns[r].page
    BY <1>1 DEF InsertBatch, source, conn, data
  <2>8. StepOfRun(r)
    BY <1>0, <2>1, <2>2, <2>3, <2>5, <2>6, <1>1
    DEF InsertBatch, RunIs, RunShape, StepOfRun, SyncTypeOK, Connected, Active, InTry, InObject, source, conn, data
  <2> QED
    BY <2>7, <2>8, <2>1, <2>3, <2>5, <1>1
<1> QED
  BY <1>1

LEMMA SaveSteps ==
  ASSUME SyncTypeOK, NEW r \in SyncRuns, RunShape(r), SaveCursor(r)
  PROVE  /\ StepOfRun(r) /\ synRuns[r].at = "save" /\ synRuns[r].page # {}
         /\ Connected /\ UNCHANGED <<synStored, synObjects>> /\ synCursor' = CursorOf(synRuns[r])
         /\ LET old == synRuns[r]
            IN  \/ /\ ~old.more
                   /\ RunIs(synRuns'[r], old.status, old.full, "complete", old.tries, 0, None,
                            {}, FALSE, old.saw, old.whole, old.hurt)
                \/ /\ old.more
                   /\ RunIs(synRuns'[r], old.status, old.full, "fetch", old.tries,
                            old.since, CursorOf(old).last, {}, old.more, old.saw, old.whole, old.hurt)
<1>0. synRuns[r] \in SyncRun /\ r \in SyncRuns /\ MaxTries \in Nat \ {0} /\ MaxDate \in Nat /\ MaxDeaths \in Nat
  BY SyncAssumption, RunTyped
<1> DEFINE old == synRuns[r]
<1>3. old.page # {}
  BY DEF SaveCursor, RunShape, Paged
<1>1. CASE ~old.more /\ SaveCursor(r)
  <2> DEFINE new == [Reset(synRuns[r]) EXCEPT !.at = "complete"]
  <2>1. Move(r, new) /\ old.at = "save"
    BY <1>1 DEF SaveCursor
  <2>2. "complete" \in {"none", "waiting", "ended"} \cup Active
    BY DEF Active, InTry
  <2>3. RunIs(new, old.status, old.full, "complete", old.tries, 0, None,
              {}, FALSE, old.saw, old.whole, old.hurt)
    BY <1>0, <2>1, <2>2, ResetAt
  <2>4. new \in SyncRun
    BY <2>3 DEF RunIs
  <2> HIDE DEF new
  <2>5. /\ synRuns' \in [SyncRuns -> SyncRun] /\ synRuns'[r] = new
        /\ \A q \in SyncRuns \ {r} : synRuns'[q] = synRuns[q]
    BY <2>1, <2>4, Moved
  <2>6. RunShape(r)'
    BY <1>0, <2>1, <2>2, <2>3, <2>5 DEF RunIs, RunShape, Paged, SyncRun
  <2>7. Connected /\ UNCHANGED <<synStored, synObjects>> /\ synCursor' = CursorOf(synRuns[r])
    BY <1>1 DEF SaveCursor, source, conn, data
  <2>8. StepOfRun(r)
    BY <1>0, <2>1, <2>2, <2>3, <2>5, <2>6, <1>1
    DEF SaveCursor, RunIs, RunShape, StepOfRun, SyncTypeOK, Connected, Active, InTry, InObject, source, conn, data
  <2> QED
    BY <2>7, <2>8, <2>1, <2>3, <2>5, <1>1, <1>3
<1>2. CASE old.more /\ SaveCursor(r)
  <2> DEFINE new == [synRuns[r] EXCEPT !.at = "fetch", !.page = {}, !.last = CursorOf(synRuns[r]).last]
         last == CursorOf(synRuns[r]).last
  <2>1. Move(r, new) /\ old.at = "save"
    BY <1>2 DEF SaveCursor
  <2>2. last \in Records \cup {None} /\ {} \in SUBSET Versions
    BY <1>0, <1>3, CursorOfIs DEF Cursor
  <2>3. "fetch" \in {"none", "waiting", "ended"} \cup Active
    BY DEF Active, InTry, InObject
  <2>41. new = [old EXCEPT !.at = "fetch", !.page = {}, !.last = last]
    BY DEF last
  <2> HIDE DEF last
  <2>4. RunIs(new, old.status, old.full, "fetch", old.tries, old.since, last,
              {}, old.more, old.saw, old.whole, old.hurt)
    BY <1>0, <2>2, <2>3, <2>41, SetNext
  <2>5. new \in SyncRun
    BY <2>4 DEF RunIs
  <2> HIDE DEF new
  <2>6. /\ synRuns' \in [SyncRuns -> SyncRun] /\ synRuns'[r] = new
        /\ \A q \in SyncRuns \ {r} : synRuns'[q] = synRuns[q]
    BY <2>1, <2>5, Moved
  <2>7. RunShape(r)'
    BY <1>0, <2>1, <2>2, <2>3, <2>4, <2>6 DEF RunIs, RunShape, Paged, SyncRun
  <2>8. Connected /\ UNCHANGED <<synStored, synObjects>> /\ synCursor' = CursorOf(synRuns[r])
    BY <1>2 DEF SaveCursor, source, conn, data
  <2>9. StepOfRun(r)
    BY <1>0, <2>1, <2>2, <2>3, <2>4, <2>6, <2>7, <1>2
    DEF SaveCursor, RunIs, RunShape, StepOfRun, SyncTypeOK, Connected, Active, InTry, InObject, source, conn, data
  <2> USE DEF last
  <2> QED
    BY <2>8, <2>9, <2>1, <2>4, <2>6, <1>2, <1>3
<1> QED
  BY <1>1, <1>2, <1>3

-----------------------------------------------------------------------------
\* What is in the bucket and in raw batches only grows while there is a connection.
Grows ==
  /\ UNCHANGED <<synProvider, synSource>>
  /\ synObjects \subseteq synObjects'
  /\ Connected' => Connected /\ synStored \subseteq synStored'

LEMMA OtherRuns ==
  ASSUME SyncTypeOK, NEW q \in SyncRuns, RunRel(q), synRuns'[q] = synRuns[q], Grows
  PROVE  RunRel(q)'
<1> USE DEF Grows
<1>1. RunDates(q)'
  BY DEF RunRel, RunDates, Known
<1>2. RunPage(q)'
  BY DEF RunRel, RunPage, Present
<1>3. RunCovers(q)'
  BY DEF RunRel, RunCovers, Covered, Stored, Present, Version
<1>4. RunFull(q)'
  BY DEF RunRel, RunFull, Stored, Version
<1> QED
  BY <1>1, <1>2, <1>3, <1>4 DEF RunRel

LEMMA QuietRel ==
  ASSUME SyncTypeOK, CursorDate, CursorCovers, NEW r \in SyncRuns, RunRel(r),
         StepOfRun(r), Quiet(r)
  PROVE  RunRel(r)'
<1>0. /\ UNCHANGED <<synProvider, synSource, synCursor, synStored, synObjects>>
      /\ Connected' <=> Connected
  BY DEF StepOfRun, Quiet, data
<1>1. RunDates(r)'
  <2>1. Known(synRuns'[r].since)
    BY DEF Quiet, RunRel, RunDates, Known, CursorDate
  <2>2. \A v \in synRuns'[r].page : Known(v.date)
    BY DEF Quiet, RunRel, RunDates
  <2> QED
    BY <1>0, <2>1, <2>2 DEF RunDates, Known
<1>2. RunPage(r)'
  BY <1>0 DEF Quiet, RunRel, RunPage, Present, Paged
<1>3. RunCovers(r)'
  <2>1. SUFFICES ASSUME synProvider = "salesforce", Connected, synRuns'[r].at = "fetch"
                 PROVE  Covered(synRuns'[r].since)
    BY <1>0 DEF Quiet, RunCovers, Covered, Stored, Present, Version, InLoop
  <2>2. \A x \in Present : ~(synSource[x] <= 0)
    BY DEF Present, SyncTypeOK
  <2> QED
    BY <2>1, <2>2 DEF Quiet, Covered, CursorCovers, Stored
<1>4. RunFull(r)'
  BY <1>0 DEF Quiet, RunRel, RunFull, Stored, Version
<1> QED
  BY <1>1, <1>2, <1>3, <1>4 DEF RunRel

LEMMA RecordDates ==
  ASSUME SyncTypeOK, NEW x \in Records PROVE synSource[x] \in 0..MaxDate /\ synSource[x] \in Nat
  BY SyncAssumption DEF SyncTypeOK

LEMMA FetchRel ==
  ASSUME SyncTypeOK, NEW r \in SyncRuns, RunShape(r), RunRel(r), Fetch(r)
  PROVE  RunRel(r)'
<1> DEFINE old == synRuns[r]
           page == Fetched(synRuns[r])
           versions == {Version(x) : x \in page}
<1>1. /\ UNCHANGED <<synProvider, synSource, synCursor, synStored, synObjects>>
      /\ Connected' <=> Connected
  BY FetchSteps DEF StepOfRun, data
<1>2. page \subseteq Present /\ Present \subseteq Records /\ old \in SyncRun /\ old.at = "fetch"
  BY FetchedIs, RunTyped DEF Present, Fetch
<1>3. \/ /\ page = {}
         /\ RunIs(synRuns'[r], old.status, old.full, "complete", old.tries, 0, None,
                  {}, FALSE, old.saw, old.whole, old.hurt)
      \/ /\ page # {}
         /\ RunIs(synRuns'[r], old.status, old.full, "upload", old.tries,
                  old.since, old.last, versions,
                  synProvider = "stripe" /\ StripeList(old.last, old.since) # page,
                  old.saw, old.whole, old.hurt)
  BY FetchSteps
<1>4. RunDates(r)'
  <2>1. \A v \in versions : Known(v.date)
    <3>1. \A x \in page : synSource[x] <= synSource[x] /\ x \in Records
      BY <1>2, RecordDates
    <3> QED
      BY <3>1 DEF Known, Version
  <2> HIDE DEF versions, page
  <2> QED
    BY <1>1, <1>3, <2>1 DEF RunRel, RunDates, RunIs, Known
<1>5. RunPage(r)'
  <2>1. \A v \in versions : v.date = synSource[v.x]
    BY DEF Version
  <2> HIDE DEF versions, page
  <2> QED
    BY <1>1, <1>3, <2>1 DEF RunRel, RunPage, RunIs, Present
<1>6. RunCovers(r)'
  <2>1. SUFFICES ASSUME synProvider = "salesforce", Connected, page # {}
                 PROVE  /\ Covered(old.since)
                        /\ \A x \in Present : \A v \in versions :
                             synSource[x] <= v.date => Stored(x) \/ Version(x) \in versions
    <3> HIDE DEF versions, page
    <3> QED
      BY <1>1, <1>3 DEF RunCovers, RunIs, InLoop, Paged, Present, Stored, Covered, Version
  <2>2. Covered(old.since)
    BY <1>2, <2>1 DEF RunRel, RunCovers, InLoop
  <2>3. ASSUME NEW x \in Present, NEW z \in page, synSource[x] <= synSource[z], ~Stored(x)
        PROVE  x \in page
    <3>1. synSource[x] > old.since /\ old.since \in Nat
      BY <1>2, <2>2, <2>3, RecordDates, SyncAssumption DEF Covered, SyncRun
    <3>2. page = SalesforcePage(old.since)
      BY <2>1 DEF Fetched
    <3> HIDE DEF page
    <3> QED
      BY <2>3, <3>1, <3>2, SalesforceDown
  <2>4. ASSUME NEW x \in Present, NEW v \in versions, synSource[x] <= v.date
        PROVE  Stored(x) \/ Version(x) \in versions
    <3>1. PICK z \in page : v = Version(z)
      OBVIOUS
    <3>2. v.date = synSource[z]
      BY <3>1 DEF Version
    <3>3. CASE ~Stored(x)
      <4>1. x \in page
        BY <2>3, <2>4, <3>2, <3>3
      <4> QED
        BY <4>1
    <3> QED
      BY <3>3
  <2> QED
    BY <2>2, <2>4
<1>7. RunFull(r)'
  <2> DEFINE list == StripeList(old.last, old.since)
  <2>1. SUFFICES ASSUME synProvider = "stripe", Connected, old.full, old.whole, NEW x \in old.saw
        PROVE  /\ page = {} => Stored(x)
               /\ page # {} =>
                    /\ \A v \in versions :
                         synSource[x] >= v.date => Stored(x) \/ Version(x) \in versions
                    /\ list = page => Stored(x) \/ Version(x) \in versions
    <3>1. ASSUME synProvider = "stripe", Connected, old.full, old.whole,
                 page = {} => \A x \in old.saw : Stored(x),
                 page # {} => \A x \in old.saw :
                    /\ \A v \in versions :
                         synSource[x] >= v.date => Stored(x) \/ Version(x) \in versions
                    /\ list = page => Stored(x) \/ Version(x) \in versions
          PROVE  RunFull(r)'
      <4> HIDE DEF versions, page, list
      <4> QED
        BY <1>1, <1>3, <3>1 DEF RunFull, RunIs, Paged, Stored, Version, list
    <3>2. CASE ~(synProvider = "stripe" /\ Connected /\ old.full /\ old.whole)
      <4> HIDE DEF versions, page, list
      <4> QED
        BY <1>1, <1>3, <3>2 DEF RunFull, RunIs
    <3> QED
      BY <3>1, <3>2
  <2>2. page = StripePage(old.last, old.since) /\ old.since = 0
    BY <2>1 DEF Fetched, RunShape
  <2>3. x \in Present /\ x \in Records
    BY <1>2, <2>1 DEF RunRel, RunPage
  <2>4. ~Stored(x) => x \in list
    <3>1. ASSUME ~Stored(x), old.last # None PROVE synSource[x] < synSource[old.last]
      <4>1. ~(synSource[x] >= synSource[old.last])
        BY <1>2, <2>1, <3>1 DEF RunRel, RunFull
      <4>2. old.last \in Records
        BY <1>2, <3>1 DEF SyncRun
      <4> QED
        BY <2>3, <4>1, <4>2, RecordDates
    <3> QED
      BY <2>2, <2>3, <3>1, RecordDates DEF StripeList
  <2>5. page = {} => list = {}
    <3> HIDE DEF page
    <3> QED
      BY <2>2, StripeStarts
  <2>6. ASSUME NEW v \in versions, synSource[x] >= v.date, ~Stored(x)
        PROVE  Version(x) \in versions
    <3>1. PICK z \in page : v = Version(z)
      OBVIOUS
    <3>2. v.date = synSource[z]
      BY <3>1 DEF Version
    <3>3. x \in page
      <4> HIDE DEF page
      <4> QED
        BY <2>2, <2>4, <2>6, <3>1, <3>2, StripeUp
    <3> QED
      BY <3>3
  <2> QED
    BY <2>4, <2>5, <2>6
<1> QED
  BY <1>4, <1>5, <1>6, <1>7 DEF RunRel

LEMMA UploadRel ==
  ASSUME SyncTypeOK, NEW r \in SyncRuns, RunShape(r), RunRel(r), Upload(r)
  PROVE  RunRel(r)'
<1>1. /\ StepOfRun(r) /\ synRuns[r].at = "upload" /\ UNCHANGED <<synCursor, synStored>>
      /\ synObjects' = synObjects \cup synRuns[r].page
  BY UploadSteps
<1>2. RunIs(synRuns'[r], synRuns[r].status, synRuns[r].full, "insert", synRuns[r].tries,
            synRuns[r].since, synRuns[r].last, synRuns[r].page, synRuns[r].more,
            synRuns[r].saw, synRuns[r].whole, synRuns[r].hurt)
  BY UploadSteps
<1>3. RunDates(r)'
  BY <1>1, <1>2 DEF StepOfRun, RunIs, RunRel, RunDates, Known
<1>4. RunPage(r)'
  BY <1>1, <1>2 DEF StepOfRun, RunIs, RunRel, RunPage, Present
<1>5. RunCovers(r)'
  BY <1>1, <1>2 DEF StepOfRun, RunIs, RunRel, RunCovers, Covered, Stored, Present, Version, InLoop, Paged
<1>6. RunFull(r)'
  BY <1>1, <1>2 DEF StepOfRun, RunIs, RunRel, RunFull, Stored, Version, Paged
<1> QED
  BY <1>3, <1>4, <1>5, <1>6 DEF RunRel

LEMMA InsertRel ==
  ASSUME SyncTypeOK, NEW r \in SyncRuns, RunShape(r), RunRel(r), InsertBatch(r)
  PROVE  RunRel(r)'
<1>1. /\ StepOfRun(r) /\ synRuns[r].at = "insert" /\ Connected
      /\ UNCHANGED <<synCursor, synObjects>>
      /\ synStored' = synStored \cup synRuns[r].page
  BY InsertSteps
<1>2. RunIs(synRuns'[r], synRuns[r].status, synRuns[r].full, "save", synRuns[r].tries,
            synRuns[r].since, synRuns[r].last, synRuns[r].page, synRuns[r].more,
            synRuns[r].saw, synRuns[r].whole, synRuns[r].hurt)
  BY InsertSteps
<1>3. RunDates(r)'
  BY <1>1, <1>2 DEF StepOfRun, RunIs, RunRel, RunDates, Known
<1>4. RunPage(r)'
  BY <1>1, <1>2 DEF StepOfRun, RunIs, RunRel, RunPage, Present
<1>5. RunCovers(r)'
  BY <1>1, <1>2 DEF StepOfRun, RunIs, RunRel, RunCovers, Covered, Stored, Present, Version, InLoop, Paged
<1>6. RunFull(r)'
  BY <1>1, <1>2 DEF StepOfRun, RunIs, RunRel, RunFull, Stored, Version, Paged
<1> QED
  BY <1>3, <1>4, <1>5, <1>6 DEF RunRel

LEMMA SaveRel ==
  ASSUME SyncTypeOK, NEW r \in SyncRuns, RunShape(r), RunRel(r), SaveCursor(r)
  PROVE  RunRel(r)' /\ CursorDate' /\ (synProvider = "salesforce" => CursorCovers')
<1> DEFINE old == synRuns[r]
           cursor == CursorOf(synRuns[r])
<1>1. /\ StepOfRun(r) /\ old.at = "save" /\ old.page # {} /\ Connected
      /\ UNCHANGED <<synStored, synObjects>> /\ synCursor' = cursor
  BY SaveSteps
<1>2. /\ UNCHANGED <<synProvider, synSource, synStored, synObjects>>
      /\ Connected' <=> Connected
  BY <1>1 DEF StepOfRun
<1>3. \/ /\ ~old.more
         /\ RunIs(synRuns'[r], old.status, old.full, "complete", old.tries, 0, None,
                  {}, FALSE, old.saw, old.whole, old.hurt)
      \/ /\ old.more
         /\ RunIs(synRuns'[r], old.status, old.full, "fetch", old.tries,
                  old.since, cursor.last, {}, old.more, old.saw, old.whole, old.hurt)
  BY SaveSteps
<1>4. /\ old \in SyncRun /\ old.page \subseteq synStored
      /\ old.page \subseteq Versions
  BY <1>1, RunTyped DEF RunRel, RunPage, SyncRun
<1>5. /\ cursor \in Cursor
      /\ synProvider = "salesforce" => \E v \in old.page : cursor.since = v.date
      /\ cursor.since \in {v.date : v \in old.page} \cup {old.since}
      /\ synProvider # "salesforce" =>
           \E v \in old.page : cursor.last = v.x /\ \A w \in old.page : v.date <= w.date
  BY <1>1, <1>4, CursorOfIs
<1> HIDE DEF cursor
<1>6. RunDates(r)'
  BY <1>2, <1>3 DEF RunRel, RunDates, RunIs, Known
<1>7. RunPage(r)'
  BY <1>2, <1>3 DEF RunRel, RunPage, RunIs, Present
<1>8. RunCovers(r)'
  BY <1>1, <1>2, <1>3 DEF RunRel, RunCovers, RunIs, Covered, Stored, Present, Version, InLoop, Paged
<1>9. RunFull(r)'
  <2>1. SUFFICES ASSUME synProvider = "stripe", Connected, old.full, old.whole, NEW x \in old.saw
        PROVE  /\ ~old.more => Stored(x)
               /\ old.more /\ synSource[x] >= synSource[cursor.last] => Stored(x)
    <3>1. ASSUME synProvider = "stripe", Connected, old.full, old.whole,
                 ~old.more => \A x \in old.saw : Stored(x),
                 old.more => \A x \in old.saw :
                    synSource[x] >= synSource[cursor.last] => Stored(x)
          PROVE  RunFull(r)'
        BY <1>2, <1>3, <3>1 DEF RunFull, RunIs, Paged, Stored, Version
    <3>2. CASE ~(synProvider = "stripe" /\ Connected /\ old.full /\ old.whole)
        BY <1>2, <1>3, <3>2 DEF RunFull, RunIs
    <3> QED
      BY <3>1, <3>2
  <2>2. Version(x) \in old.page => Stored(x)
    BY <1>4 DEF Stored
  <2>3. ~old.more => Stored(x)
    BY <1>1, <2>1, <2>2 DEF RunRel, RunFull, Paged
  <2>4. ASSUME old.more, synSource[x] >= synSource[cursor.last] PROVE Stored(x)
    <3>1. PICK v \in old.page : cursor.last = v.x
      BY <1>5, <2>1
    <3>2. v.date = synSource[v.x]
      BY <2>1 DEF RunRel, RunPage
    <3> QED
      BY <1>1, <2>1, <2>2, <2>4, <3>1, <3>2 DEF RunRel, RunFull, Paged
  <2> QED
    BY <2>3, <2>4
<1>10. CursorDate'
  <2>1. Known(cursor.since)
    BY <1>5 DEF RunRel, RunDates
  <2> QED
    BY <1>1, <1>2, <2>1 DEF CursorDate, Known
<1>11. ASSUME synProvider = "salesforce" PROVE CursorCovers'
  <2>1. PICK v \in old.page : cursor.since = v.date
    BY <1>5, <1>11
  <2>2. \A x \in Present : synSource[x] <= v.date => Stored(x)
    BY <1>1, <1>4, <1>11 DEF RunRel, RunCovers, Paged, Stored
  <2> QED
    BY <1>1, <1>2, <2>1, <2>2 DEF CursorCovers, Present, Stored, Version
<1> QED
  BY <1>6, <1>7, <1>8, <1>9, <1>10, <1>11 DEF RunRel

LEMMA ProcessSteps ==
  ASSUME IInv, NEW r \in SyncRuns, Process(r)
  PROVE  /\ StepOfRun(r) /\ RunRel(r)' /\ CursorDate' /\ CursorCovers' /\ Grows
         /\ synCursor' \in {None} \cup Cursor
         /\ synStored' \subseteq Versions /\ synObjects' \subseteq Versions
         /\ synStored' \subseteq synObjects'
<1>0. SyncTypeOK /\ RunShape(r) /\ RunRel(r) /\ CursorDate /\ CursorCovers /\ synStored \subseteq synObjects
  BY DEF IInv, BatchesHaveObjects
<1>1. /\ synCursor \in {None} \cup Cursor /\ synStored \subseteq Versions /\ synObjects \subseteq Versions
      /\ synRuns[r].page \subseteq Versions
  BY <1>0, RunTyped DEF SyncTypeOK, SyncRun
<1>2. ASSUME StepOfRun(r), synCursor' = synCursor, synStored \subseteq synStored'
      PROVE  CursorDate' /\ CursorCovers'
  <2>1. CursorDate'
    BY <1>0, <1>2 DEF StepOfRun, CursorDate, Known
  <2>2. CursorCovers'
    BY <1>0, <1>2 DEF StepOfRun, CursorCovers, Present, Version
  <2> QED
    BY <2>1, <2>2
<1>3. CASE QuietStep(r)
  <2>1. StepOfRun(r) /\ Quiet(r)
    BY <1>0, <1>3, QuietSteps
  <2>2. RunRel(r)'
    BY <1>0, <2>1, QuietRel
  <2>3. UNCHANGED <<synCursor, synStored, synObjects>>
    BY <2>1 DEF Quiet, data
  <2>4. Grows
    BY <2>1, <2>3 DEF Grows, StepOfRun
  <2> QED
    BY <1>0, <1>1, <1>2, <2>1, <2>2, <2>3, <2>4
<1>4. CASE Fetch(r)
  <2>1. StepOfRun(r) /\ UNCHANGED <<synCursor, synStored, synObjects>>
    BY <1>0, <1>4, FetchSteps DEF data
  <2>2. RunRel(r)'
    BY <1>0, <1>4, FetchRel
  <2>3. Grows
    BY <2>1 DEF Grows, StepOfRun
  <2> QED
    BY <1>0, <1>1, <1>2, <2>1, <2>2, <2>3
<1>5. CASE Upload(r)
  <2>1. /\ StepOfRun(r) /\ UNCHANGED <<synCursor, synStored>>
        /\ synObjects' = synObjects \cup synRuns[r].page
    BY <1>0, <1>5, UploadSteps
  <2>2. RunRel(r)'
    BY <1>0, <1>5, UploadRel
  <2>3. Grows
    BY <2>1 DEF Grows, StepOfRun
  <2> QED
    BY <1>0, <1>1, <1>2, <2>1, <2>2, <2>3
<1>6. CASE InsertBatch(r)
  <2>1. /\ StepOfRun(r) /\ UNCHANGED <<synCursor, synObjects>> /\ synRuns[r].at = "insert"
        /\ synStored' = synStored \cup synRuns[r].page
    BY <1>0, <1>6, InsertSteps
  <2>2. RunRel(r)'
    BY <1>0, <1>6, InsertRel
  <2>3. Grows
    BY <2>1 DEF Grows, StepOfRun
  <2>4. synRuns[r].page \subseteq synObjects
    BY <1>0, <2>1 DEF RunRel, RunPage
  <2> QED
    BY <1>0, <1>1, <1>2, <2>1, <2>2, <2>3, <2>4
<1>7. CASE SaveCursor(r)
  <2>1. /\ StepOfRun(r) /\ UNCHANGED <<synStored, synObjects>> /\ synRuns[r].page # {}
        /\ synCursor' = CursorOf(synRuns[r])
    BY <1>0, <1>7, SaveSteps
  <2>2. RunRel(r)' /\ CursorDate' /\ (synProvider = "salesforce" => CursorCovers')
    BY <1>0, <1>7, SaveRel
  <2>3. Grows
    BY <2>1 DEF Grows, StepOfRun
  <2>4. synProvider # "salesforce" => CursorCovers'
    BY <2>1 DEF StepOfRun, CursorCovers
  <2>5. synCursor' \in Cursor
    BY <1>0, <2>1, CursorOfIs, RunTyped
  <2> QED
    BY <1>0, <1>1, <2>1, <2>2, <2>3, <2>4, <2>5
<1> QED
  BY <1>3, <1>4, <1>5, <1>6, <1>7 DEF Process, QuietStep

LEMMA ProcessKeeps ==
  ASSUME IInv, NEW r \in SyncRuns, Process(r) PROVE IInv'
<1>1. /\ StepOfRun(r) /\ RunRel(r)' /\ CursorDate' /\ CursorCovers' /\ Grows
      /\ synCursor' \in {None} \cup Cursor
      /\ synStored' \subseteq Versions /\ synObjects' \subseteq Versions
      /\ synStored' \subseteq synObjects'
  BY ProcessSteps
<1>2. /\ SyncTypeOK /\ Enqueuers /\ NoConnection /\ RunningHasACause
      /\ \A q \in SyncRuns : RunShape(q) /\ RunRel(q)
  BY DEF IInv
<1>3. SyncTypeOK'
  BY <1>1, <1>2 DEF StepOfRun, SyncTypeOK, Cursor
<1>4. Enqueuers'
  BY <1>1, <1>2 DEF StepOfRun, Enqueuers, Enqueues
<1>5. NoConnection'
  BY <1>1, <1>2 DEF StepOfRun, NoConnection
<1>6. RunningHasACause'
  <2>1. SUFFICES ASSUME NEW q \in SyncRuns, synRuns'[q].status = "running",
                        synRuns'[q].at \in {"none", "ended"}, \A b \in SyncActors : ~Enqueues(b, q)'
                 PROVE  synRuns'[q].hurt
    BY DEF RunningHasACause
  <2>2. CASE q = r
    BY <1>1, <2>1, <2>2 DEF StepOfRun, RunShape
  <2>3. CASE q # r
    BY <1>1, <1>2, <2>1, <2>3 DEF StepOfRun, RunningHasACause, Enqueues
  <2> QED
    BY <2>2, <2>3
<1>7. ASSUME NEW q \in SyncRuns PROVE RunShape(q)' /\ RunRel(q)'
  <2>1. CASE q = r
    BY <1>1, <2>1 DEF StepOfRun
  <2>2. CASE q # r
    <3>1. synRuns'[q] = synRuns[q]
      BY <1>1, <2>2 DEF StepOfRun
    <3>2. RunShape(q)'
      BY <1>2, <3>1 DEF RunShape
    <3>3. RunRel(q)'
      BY <1>1, <1>2, <3>1, OtherRuns
    <3> QED
      BY <3>2, <3>3
  <2> QED
    BY <2>1, <2>2
<1> QED
  BY <1>1, <1>3, <1>4, <1>5, <1>6, <1>7 DEF IInv, BatchesHaveObjects
-----------------------------------------------------------------------------
\* The requests that leave the runs alone.
PlainRequest(a) ==
  \/ ReadVerifier(a) \/ DeleteVerifier(a) \/ Exchange(a) \/ GiveApiKey(a)
  \/ InsertConn(a) \/ InsertCreds(a) \/ AskSync(a) \/ AskHealth(a) \/ SetHealth(a)
  \/ synActors[a].at # "enqueue" /\ RequestFails(a)

\* What a request does to the requests.
StepOfActor(a) ==
  /\ synActors' \in [SyncActors -> SyncActor]
  /\ \A b \in SyncActors \ {a} : synActors'[b] = synActors[b]
  /\ UNCHANGED <<synProvider, synSource, synObjects, synDeaths>>
  /\ Connected' => Connected \/ synConn = "none"
  /\ synConn' = "none" => synConn = "none"
  /\ synConn' \in {"none", "connected", "error", "gone"} /\ synCreds' \in BOOLEAN
  /\ synLogin' \in [verifier : BOOLEAN, code : BOOLEAN]

LEMMA ActorMoves ==
  ASSUME SyncTypeOK, NEW a \in SyncActors, NEW STATE actor, actor \in SyncActor, Go(a, actor)
  PROVE  /\ synActors' \in [SyncActors -> SyncActor] /\ synActors'[a] = actor
         /\ \A b \in SyncActors \ {a} : synActors'[b] = synActors[b]
<1>1. synActors \in [SyncActors -> SyncActor]
  BY DEF SyncTypeOK
<1> QED
  BY <1>1 DEF Go

LEMMA Asked ==
  ASSUME NEW op \in {"callback", "key", "sync", "health"},
         NEW at \in {"verifier", "exchange", "insertConn", "insertRun"}
  PROVE  /\ [Idle EXCEPT !.op = op, !.at = at] \in SyncActor
         /\ [Idle EXCEPT !.op = op, !.at = at].at = at
  BY DEF Idle, SyncActor

LEMMA Answers ==
  ASSUME SyncTypeOK, NEW a \in SyncActors, Answered(a)
  PROVE  /\ synActors' \in [SyncActors -> SyncActor] /\ synActors'[a].at = "done"
         /\ \A b \in SyncActors \ {a} : synActors'[b] = synActors[b]
<1> DEFINE done == [Idle EXCEPT !.at = "done"]
<1>1. done \in SyncActor /\ done.at = "done" /\ Go(a, done)
  BY DEF Idle, SyncActor, Answered
<1> HIDE DEF done
<1> QED
  BY <1>1, ActorMoves

LEMMA PlainSteps ==
  ASSUME SyncTypeOK, NEW a \in SyncActors, PlainRequest(a)
  PROVE  /\ StepOfActor(a) /\ UNCHANGED <<synCursor, synStored, synRuns>>
         /\ synActors[a].at # "enqueue" /\ synActors'[a].at # "enqueue"
<1>1. synActors[a] \in SyncActor
  BY DEF SyncTypeOK
<1>2. \A at \in {"exchange", "insertConn", "insertCreds"} :
        /\ [synActors[a] EXCEPT !.at = at] \in SyncActor
        /\ [synActors[a] EXCEPT !.at = at].at = at
  BY <1>1 DEF SyncActor
<1> USE DEF StepOfActor, source, conn, data, Connected
<1>3. CASE ReadVerifier(a)
  <2> DEFINE at == IF synProvider = "salesforce" THEN "verifier" ELSE "exchange"
  <2>1. Go(a, [Idle EXCEPT !.op = "callback", !.at = at])
    BY <1>3 DEF ReadVerifier
  <2>2. at \in {"verifier", "exchange"}
    OBVIOUS
  <2> HIDE DEF at
  <2> DEFINE actor == [Idle EXCEPT !.op = "callback", !.at = at]
  <2>4. actor \in SyncActor /\ actor.at = at /\ Go(a, actor)
    BY <2>1, <2>2, Asked
  <2> HIDE DEF actor
  <2>3. /\ synActors' \in [SyncActors -> SyncActor] /\ synActors'[a].at = at
        /\ \A b \in SyncActors \ {a} : synActors'[b] = synActors[b]
    BY <2>4, ActorMoves
  <2> QED
    BY <1>3, <2>2, <2>3 DEF ReadVerifier, SyncTypeOK
<1>4. CASE DeleteVerifier(a)
  <2>1. /\ synActors' \in [SyncActors -> SyncActor] /\ synActors'[a].at = "exchange"
        /\ \A b \in SyncActors \ {a} : synActors'[b] = synActors[b]
    BY <1>2, <1>4, ActorMoves DEF DeleteVerifier
  <2> QED
    BY <1>4, <2>1 DEF DeleteVerifier, SyncTypeOK
<1>5. CASE Exchange(a)
  <2>1. /\ synActors' \in [SyncActors -> SyncActor] /\ synActors'[a].at = "insertConn"
        /\ \A b \in SyncActors \ {a} : synActors'[b] = synActors[b]
    BY <1>2, <1>5, ActorMoves DEF Exchange
  <2> QED
    BY <1>5, <2>1 DEF Exchange, SyncTypeOK
<1>6. CASE GiveApiKey(a)
  <2> DEFINE actor == [Idle EXCEPT !.op = "key", !.at = "insertConn"]
  <2>0. actor \in SyncActor /\ actor.at = "insertConn" /\ Go(a, actor)
    BY <1>6, Asked DEF GiveApiKey
  <2> HIDE DEF actor
  <2>1. /\ synActors' \in [SyncActors -> SyncActor] /\ synActors'[a].at = "insertConn"
        /\ \A b \in SyncActors \ {a} : synActors'[b] = synActors[b]
    BY <2>0, ActorMoves
  <2> QED
    BY <1>6, <2>1 DEF GiveApiKey, SyncTypeOK
<1>7. CASE InsertConn(a)
  <2>1. /\ synActors' \in [SyncActors -> SyncActor] /\ synActors'[a].at = "insertCreds"
        /\ \A b \in SyncActors \ {a} : synActors'[b] = synActors[b]
    BY <1>2, <1>7, ActorMoves DEF InsertConn
  <2> QED
    BY <1>7, <2>1 DEF InsertConn, SyncTypeOK
<1>8. CASE InsertCreds(a)
  <2>1. /\ synActors' \in [SyncActors -> SyncActor] /\ synActors'[a].at = "done"
        /\ \A b \in SyncActors \ {a} : synActors'[b] = synActors[b]
    BY <1>8, Answers DEF InsertCreds
  <2> QED
    BY <1>8, <2>1 DEF InsertCreds, SyncTypeOK
<1>9. CASE AskSync(a)
  <2> DEFINE actor == [Idle EXCEPT !.op = "sync", !.at = "insertRun"]
  <2>0. actor \in SyncActor /\ actor.at = "insertRun" /\ Go(a, actor)
    BY <1>9, Asked DEF AskSync
  <2> HIDE DEF actor
  <2>1. /\ synActors' \in [SyncActors -> SyncActor] /\ synActors'[a].at = "insertRun"
        /\ \A b \in SyncActors \ {a} : synActors'[b] = synActors[b]
    BY <2>0, ActorMoves
  <2> QED
    BY <1>9, <2>1 DEF AskSync, SyncTypeOK
<1>10. CASE AskHealth(a)
  <2>1. PICK healthy \in BOOLEAN :
          Go(a, [Idle EXCEPT !.op = "health", !.at = "setHealth", !.healthy = healthy])
    BY <1>10 DEF AskHealth
  <2> DEFINE actor == [Idle EXCEPT !.op = "health", !.at = "setHealth", !.healthy = healthy]
  <2>3. actor \in SyncActor /\ actor.at = "setHealth" /\ Go(a, actor)
    BY <2>1 DEF Idle, SyncActor
  <2> HIDE DEF actor
  <2>2. /\ synActors' \in [SyncActors -> SyncActor] /\ synActors'[a].at = "setHealth"
        /\ \A b \in SyncActors \ {a} : synActors'[b] = synActors[b]
    BY <2>3, ActorMoves
  <2> QED
    BY <1>10, <2>2 DEF AskHealth, SyncTypeOK
<1>11. CASE SetHealth(a)
  <2>1. /\ synActors' \in [SyncActors -> SyncActor] /\ synActors'[a].at = "done"
        /\ \A b \in SyncActors \ {a} : synActors'[b] = synActors[b]
    BY <1>11, Answers DEF SetHealth
  <2> QED
    BY <1>11, <2>1 DEF SetHealth, SyncTypeOK
<1>12. CASE synActors[a].at # "enqueue" /\ RequestFails(a)
  <2>1. /\ synActors' \in [SyncActors -> SyncActor] /\ synActors'[a].at = "done"
        /\ \A b \in SyncActors \ {a} : synActors'[b] = synActors[b]
    BY <1>12, Answers DEF RequestFails
  <2> QED
    BY <1>12, <2>1 DEF RequestFails, SyncTypeOK
<1> QED
  BY <1>3, <1>4, <1>5, <1>6, <1>7, <1>8, <1>9, <1>10, <1>11, <1>12 DEF PlainRequest

\* A run that a request leaves where it is, or that is not at work.
LEMMA RelStays ==
  ASSUME SyncTypeOK, NEW q \in SyncRuns, RunRel(q), RunShape(q),
         UNCHANGED <<synProvider, synSource, synObjects>>,
         synRuns'[q].since = synRuns[q].since, synRuns'[q].page = synRuns[q].page,
         synRuns'[q].saw = synRuns[q].saw,
         synRuns'[q].at \in {"none", "waiting"} \/ synRuns'[q].at = synRuns[q].at,
         \/ synRuns'[q].at \in {"none", "waiting"}
         \/ ~Connected'
         \/ /\ Connected /\ synStored' = synStored
            /\ synRuns'[q].last = synRuns[q].last /\ synRuns'[q].more = synRuns[q].more
            /\ synRuns'[q].full = synRuns[q].full /\ synRuns'[q].whole = synRuns[q].whole
  PROVE  RunRel(q)'
<1>1. RunDates(q)'
  BY DEF RunRel, RunDates, Known
<1>2. RunPage(q)'
  BY DEF RunRel, RunPage, Present
<1>3. RunCovers(q)'
  BY DEF RunRel, RunCovers, Covered, Stored, Present, Version, InLoop, Paged
<1>4. RunFull(q)'
  BY DEF RunRel, RunFull, Stored, Version, Paged
<1> QED
  BY <1>1, <1>2, <1>3, <1>4 DEF RunRel

LEMMA PlainKeeps ==
  ASSUME IInv, NEW a \in SyncActors, PlainRequest(a) PROVE IInv'
<1>0. /\ SyncTypeOK /\ Enqueuers /\ NoConnection /\ CursorDate /\ CursorCovers
      /\ BatchesHaveObjects /\ RunningHasACause
      /\ \A q \in SyncRuns : RunShape(q) /\ RunRel(q)
  BY DEF IInv
<1>1. /\ StepOfActor(a) /\ UNCHANGED <<synCursor, synStored, synRuns>>
      /\ synActors[a].at # "enqueue" /\ synActors'[a].at # "enqueue"
  BY <1>0, PlainSteps
<1>2. SyncTypeOK'
  BY <1>0, <1>1 DEF StepOfActor, SyncTypeOK
<1>3. \A b \in SyncActors, q \in SyncRuns : Enqueues(b, q)' <=> Enqueues(b, q)
  BY <1>1 DEF StepOfActor, Enqueues
<1>4. Enqueuers'
  BY <1>0, <1>1 DEF StepOfActor, Enqueuers, Enqueues
<1>5. NoConnection' /\ CursorDate' /\ CursorCovers' /\ BatchesHaveObjects'
  BY <1>0, <1>1 DEF StepOfActor, NoConnection, CursorDate, Known, CursorCovers, Present, Version,
                    BatchesHaveObjects
<1>6. RunningHasACause'
  BY <1>0, <1>1, <1>3 DEF RunningHasACause
<1>7. ASSUME NEW q \in SyncRuns PROVE RunShape(q)' /\ RunRel(q)'
  <2>1. RunShape(q)'
    BY <1>0, <1>1 DEF RunShape
  <2>2. Connected' => Connected \/ synRuns[q].at = "none"
    BY <1>0, <1>1 DEF StepOfActor, NoConnection, RunShape
  <2>3. RunRel(q)'
    BY <1>0, <1>1, <2>2, RelStays DEF StepOfActor
  <2> QED
    BY <2>1, <2>3
<1> QED
  BY <1>2, <1>4, <1>5, <1>6, <1>7 DEF IInv

LEMMA InsertRunKeeps ==
  ASSUME IInv, NEW a \in SyncActors, InsertRun(a) PROVE IInv'
<1>0. /\ SyncTypeOK /\ Enqueuers /\ NoConnection /\ CursorDate /\ CursorCovers
      /\ BatchesHaveObjects /\ RunningHasACause
      /\ \A q \in SyncRuns : RunShape(q) /\ RunRel(q)
  BY DEF IInv
<1>1. /\ synActors[a].at = "insertRun" /\ Connected
      /\ UNCHANGED <<synProvider, synSource, synConn, synCreds, synLogin, synCursor, synStored,
                     synObjects, synDeaths>>
  BY DEF InsertRun, source, conn, data
<1>2. PICK r \in SyncRuns, full \in BOOLEAN :
        /\ synRuns[r].status = "none"
        /\ synRuns' = [synRuns EXCEPT ![r].status = "running", ![r].full = full]
        /\ Go(a, [synActors[a] EXCEPT !.at = "enqueue", !.run = r])
  BY DEF InsertRun
<1> DEFINE new == [synRuns[r] EXCEPT !.status = "running", !.full = full]
           actor == [synActors[a] EXCEPT !.at = "enqueue", !.run = r]
<1>3. actor \in SyncActor /\ actor.at = "enqueue" /\ actor.run = r
  BY <1>0 DEF SyncActor, SyncTypeOK
<1>4. /\ new \in SyncRun /\ new.status = "running" /\ new.full = full
      /\ new.at = synRuns[r].at /\ new.tries = synRuns[r].tries /\ new.since = synRuns[r].since
      /\ new.last = synRuns[r].last /\ new.page = synRuns[r].page /\ new.saw = synRuns[r].saw
  <2>1. synRuns[r] \in SyncRun
    BY <1>0, RunTyped
  <2> QED
    BY <2>1 DEF SyncRun
<1>5. synRuns' = [synRuns EXCEPT ![r] = new]
  BY <1>0, <1>2 DEF SyncTypeOK
<1> HIDE DEF new, actor
<1>6. /\ synRuns' \in [SyncRuns -> SyncRun] /\ synRuns'[r] = new
      /\ \A q \in SyncRuns \ {r} : synRuns'[q] = synRuns[q]
  BY <1>0, <1>4, <1>5, Moved DEF Move
<1>7. /\ synActors' \in [SyncActors -> SyncActor] /\ synActors'[a] = actor
      /\ \A b \in SyncActors \ {a} : synActors'[b] = synActors[b]
  BY <1>0, <1>2, <1>3, ActorMoves DEF actor
<1>8. synRuns[r].at = "none" /\ synRuns[r].since = 0 /\ synRuns[r].last = None /\ synRuns[r].tries = 0
  BY <1>0, <1>2 DEF RunShape
<1>9. \A b \in SyncActors : ~Enqueues(b, r)
  BY <1>0, <1>2 DEF Enqueuers, Enqueues
<1>10. SyncTypeOK'
  BY <1>0, <1>1, <1>6, <1>7 DEF SyncTypeOK
<1>11. Enqueuers'
  BY <1>0, <1>1, <1>3, <1>4, <1>6, <1>7, <1>8, <1>9 DEF Enqueuers, Enqueues
<1>12. NoConnection' /\ CursorDate' /\ CursorCovers' /\ BatchesHaveObjects'
  BY <1>0, <1>1 DEF Connected, NoConnection, CursorDate, Known, CursorCovers, Present, Version,
                    BatchesHaveObjects
<1>13. RunningHasACause'
  <2>1. Enqueues(a, r)'
    BY <1>3, <1>7 DEF Enqueues
  <2>2. \A b \in SyncActors, q \in SyncRuns : Enqueues(b, q) => Enqueues(b, q)'
    BY <1>1, <1>7 DEF Enqueues
  <2> QED
    BY <1>0, <1>6, <2>1, <2>2 DEF RunningHasACause
<1>14. ASSUME NEW q \in SyncRuns PROVE RunShape(q)' /\ RunRel(q)'
  <2>1. RunShape(q)'
    <3>1. CASE q = r
      BY <1>4, <1>6, <1>8, <3>1 DEF RunShape, Paged
    <3>2. CASE q # r
      BY <1>0, <1>6, <3>2 DEF RunShape
    <3> QED
      BY <3>1, <3>2
  <2>2. RunRel(q)'
    BY <1>0, <1>1, <1>4, <1>6, <1>8, RelStays
  <2> QED
    BY <2>1, <2>2
<1> QED
  BY <1>10, <1>11, <1>12, <1>13, <1>14 DEF IInv

\* A run is queued, or the request that would have queued it fails.
LEMMA EnqueueKeeps ==
  ASSUME IInv, NEW a \in SyncActors, synActors[a].at = "enqueue",
         EnqueueSync(a) \/ RequestFails(a)
  PROVE  IInv'
<1>0. /\ SyncTypeOK /\ Enqueuers /\ NoConnection /\ CursorDate /\ CursorCovers
      /\ BatchesHaveObjects /\ RunningHasACause
      /\ \A q \in SyncRuns : RunShape(q) /\ RunRel(q)
  BY DEF IInv
<1> DEFINE r == synActors[a].run
           old == synRuns[r]
<1>1. /\ Answered(a)
      /\ UNCHANGED <<synProvider, synSource, synConn, synCreds, synLogin, synCursor, synStored,
                     synObjects, synDeaths>>
  BY DEF EnqueueSync, RequestFails, source, conn, data
<1>2. /\ r \in SyncRuns /\ old.at = "none" /\ old.status # "none"
      /\ \A b \in SyncActors : Enqueues(b, r) => b = a
  BY <1>0 DEF Enqueuers
<1>3. /\ synActors' \in [SyncActors -> SyncActor] /\ synActors'[a].at = "done"
      /\ \A b \in SyncActors \ {a} : synActors'[b] = synActors[b]
  BY <1>0, <1>1, Answers
<1>4. /\ synRuns' \in [SyncRuns -> SyncRun]
      /\ \A q \in SyncRuns \ {r} : synRuns'[q] = synRuns[q]
      /\ synRuns'[r].at = "waiting" \/ (synRuns'[r].at = "none" /\ synRuns'[r].hurt)
      /\ synRuns'[r].status = old.status /\ synRuns'[r].tries = old.tries
      /\ synRuns'[r].since = old.since /\ synRuns'[r].last = old.last
      /\ synRuns'[r].page = old.page /\ synRuns'[r].saw = old.saw /\ synRuns'[r].full = old.full
  <2>1. synRuns \in [SyncRuns -> SyncRun] /\ old \in SyncRun
    BY <1>0, <1>2, RunTyped DEF SyncTypeOK
  <2>2. CASE EnqueueSync(a)
    <3> DEFINE new == [old EXCEPT !.at = "waiting"]
    <3>1. synRuns' = [synRuns EXCEPT ![r] = new]
      BY <2>1, <2>2 DEF EnqueueSync
    <3>2. RunIs(new, old.status, old.full, "waiting", old.tries, old.since, old.last,
                old.page, old.more, old.saw, old.whole, old.hurt)
      BY <2>1, SetAt
    <3> HIDE DEF new, old, r
    <3>3. new \in SyncRun /\ Move(r, new)
      BY <3>1, <3>2 DEF RunIs, Move
    <3> QED
      BY <1>0, <1>2, <3>2, <3>3, Moved DEF RunIs
  <2>3. CASE RequestFails(a)
    <3> DEFINE new == [old EXCEPT !.hurt = TRUE]
    <3>1. synRuns' = [synRuns EXCEPT ![r] = new]
      BY <2>1, <2>3 DEF RequestFails
    <3>2. RunIs(new, old.status, old.full, old.at, old.tries, old.since, old.last,
                old.page, old.more, old.saw, old.whole, TRUE)
      BY <2>1, SetHurt
    <3> HIDE DEF new, old, r
    <3>3. new \in SyncRun /\ Move(r, new)
      BY <3>1, <3>2 DEF RunIs, Move
    <3> QED
      BY <1>0, <1>2, <3>2, <3>3, Moved DEF RunIs, old
  <2> QED
    BY <2>2, <2>3
<1>5. RunShape(r)
  BY <1>0, <1>2
<1> HIDE DEF r
<1>6. SyncTypeOK'
  BY <1>0, <1>1, <1>3, <1>4 DEF SyncTypeOK
<1>7. \A b \in SyncActors, q \in SyncRuns : q # r /\ Enqueues(b, q) => Enqueues(b, q)'
  BY <1>2, <1>3 DEF Enqueues, r
<1>8. Enqueuers'
  BY <1>0, <1>2, <1>3, <1>4 DEF Enqueuers, Enqueues
<1>9. NoConnection' /\ CursorDate' /\ CursorCovers' /\ BatchesHaveObjects'
  BY <1>0, <1>1, <1>2, <1>4 DEF NoConnection, CursorDate, Known, CursorCovers, Present, Version,
                    BatchesHaveObjects
<1>10. RunningHasACause'
  BY <1>0, <1>2, <1>4, <1>7 DEF RunningHasACause
<1>11. ASSUME NEW q \in SyncRuns PROVE RunShape(q)' /\ RunRel(q)'
  <2>1. RunShape(q)'
    <3>1. CASE q = r
      BY <1>2, <1>4, <1>5, <3>1, SyncAssumption DEF RunShape, Paged
    <3>2. CASE q # r
      BY <1>0, <1>4, <3>2 DEF RunShape
    <3> QED
      BY <3>1, <3>2
  <2>2. RunRel(q)'
    <3>1. CASE q = r
      BY <1>0, <1>1, <1>2, <1>4, <3>1, RelStays
    <3>2. CASE q # r
      <4>1. synRuns'[q] = synRuns[q] /\ (Connected' <=> Connected)
        BY <1>1, <1>4, <3>2 DEF Connected
      <4> QED
        BY <1>0, <1>1, <4>1, RelStays
    <3> QED
      BY <3>1, <3>2
  <2> QED
    BY <2>1, <2>2
<1> QED
  BY <1>6, <1>8, <1>9, <1>10, <1>11 DEF IInv

LEMMA DeleteKeeps ==
  ASSUME IInv, NEW a \in SyncActors, DeleteConn(a) PROVE IInv'
<1>0. /\ SyncTypeOK /\ Enqueuers /\ NoConnection /\ RunningHasACause
      /\ \A q \in SyncRuns : RunShape(q) /\ RunRel(q)
  BY DEF IInv
<1>1. /\ synActors[a].at = "idle" /\ synConn' = "gone" /\ synCreds' = FALSE
      /\ synCursor' = None /\ synStored' = {} /\ Answered(a)
      /\ UNCHANGED <<synProvider, synSource, synLogin, synObjects, synDeaths>>
  BY DEF DeleteConn, source
<1>2. /\ synActors' \in [SyncActors -> SyncActor] /\ synActors'[a].at = "done"
      /\ \A b \in SyncActors \ {a} : synActors'[b] = synActors[b]
  BY <1>0, <1>1, Answers
<1>3. ASSUME NEW q \in SyncRuns
      PROVE  LET old == synRuns[q] IN
             RunIs(synRuns'[q], IF old.status = "none" THEN old.status ELSE "gone",
                   old.full, old.at, old.tries, old.since, old.last,
                   old.page, old.more, old.saw, old.whole, old.hurt)
  <2> DEFINE old == synRuns[q]
             status == IF old.status = "none" THEN old.status ELSE "gone"
  <2>1. synRuns'[q] = [old EXCEPT !.status = status]
    BY DEF DeleteConn
  <2>2. old \in SyncRun
    BY <1>0, RunTyped
  <2>3. status \in {"none", "running", "completed", "failed", "gone"}
    OBVIOUS
  <2> HIDE DEF old, status
  <2>4. RunIs([old EXCEPT !.status = status], status,
                   old.full, old.at, old.tries, old.since, old.last,
                   old.page, old.more, old.saw, old.whole, old.hurt)
    BY <2>2, <2>3 DEF RunIs, SyncRun
  <2> QED
    BY <2>1, <2>4 DEF old, status
<1>4. synRuns' \in [SyncRuns -> SyncRun]
  <2>1. \A q \in SyncRuns : synRuns'[q] \in SyncRun
    BY <1>3 DEF RunIs
  <2>2. synRuns' = [q \in SyncRuns |-> synRuns'[q]]
    BY DEF DeleteConn
  <2> QED
    BY <2>1, <2>2
<1>5. SyncTypeOK'
  BY <1>0, <1>1, <1>2, <1>4 DEF SyncTypeOK
<1>6. \A b \in SyncActors, q \in SyncRuns : Enqueues(b, q)' <=> Enqueues(b, q)
  BY <1>1, <1>2 DEF Enqueues
<1>7. Enqueuers'
  <2>1. SUFFICES ASSUME NEW b \in SyncActors, synActors'[b].at = "enqueue"
                 PROVE  /\ synActors'[b].run \in SyncRuns
                        /\ synRuns'[synActors'[b].run].at = "none"
                        /\ synRuns'[synActors'[b].run].status # "none"
                        /\ \A c \in SyncActors :
                             synActors'[c].at = "enqueue"
                             /\ synActors'[c].run = synActors'[b].run => c = b
    BY DEF Enqueuers, Enqueues
  <2>2. b # a /\ synActors'[b] = synActors[b]
    BY <1>2, <2>1
  <2>3. PICK q \in SyncRuns : q = synActors[b].run /\ synRuns[q].at = "none" /\ synRuns[q].status # "none"
                              /\ \A c \in SyncActors : Enqueues(c, q) => c = b
    BY <1>0, <2>1, <2>2 DEF Enqueuers
  <2>4. synRuns'[q].at = "none" /\ synRuns'[q].status # "none"
    BY <1>3, <2>3 DEF RunIs
  <2>5. \A c \in SyncActors : synActors'[c].at = "enqueue" => synActors'[c] = synActors[c]
    BY <1>2
  <2> QED
    BY <2>2, <2>3, <2>4, <2>5 DEF Enqueues
<1>8. NoConnection' /\ CursorDate' /\ CursorCovers' /\ BatchesHaveObjects'
  BY <1>1 DEF NoConnection, CursorDate, CursorCovers, BatchesHaveObjects
<1>9. RunningHasACause'
  BY <1>3 DEF RunningHasACause, RunIs
<1>10. ASSUME NEW q \in SyncRuns PROVE RunShape(q)' /\ RunRel(q)'
  <2>1. RunShape(q)'
    <3>1. RunShape(q)
      BY <1>0
    <3> QED
      BY <1>3, <3>1 DEF RunShape, RunIs, Paged
  <2>2. ~Connected'
    BY <1>1 DEF Connected
  <2>3. RunRel(q)'
    <3>1. /\ synRuns'[q].since = synRuns[q].since /\ synRuns'[q].page = synRuns[q].page
          /\ synRuns'[q].saw = synRuns[q].saw /\ synRuns'[q].at = synRuns[q].at
      BY <1>3 DEF RunIs
    <3> QED
      BY <1>0, <1>1, <2>2, <3>1, RelStays
  <2> QED
    BY <2>1, <2>3
<1> QED
  BY <1>5, <1>7, <1>8, <1>9, <1>10 DEF IInv

\* The date of a change is past every date known.
LEMMA Changes ==
  ASSUME SyncTypeOK, NEW x \in Records, Change(x)
  PROVE  /\ synSource' \in [Records -> 0..MaxDate]
         /\ \A z \in Records \ {x} : synSource'[z] = synSource[z]
         /\ \A z \in Records : synSource'[z] >= synSource[z] /\ synSource'[x] > synSource[z]
         /\ synProvider = "stripe" => synSource[x] = 0
         /\ UNCHANGED <<synProvider, synConn, synCreds, synLogin, synCursor, synStored,
                        synObjects, synRuns, synActors, synDeaths>>
<1> DEFINE dates == Dates(Records)
           latest == Max(Dates(Records))
<1>1. /\ latest < MaxDate /\ synSource' = [synSource EXCEPT ![x] = latest + 1]
      /\ UNCHANGED <<synProvider, synConn, synCreds, synLogin, synCursor, synStored,
                     synObjects, synRuns, synActors, synDeaths>>
      /\ synProvider = "stripe" => synSource[x] = 0
  BY DEF Change, conn, data
<1>2. MaxDate \in Nat /\ dates \subseteq 0..MaxDate /\ dates # {}
  BY SyncAssumption DEF SyncTypeOK, Dates
<1>3. latest \in dates /\ \A d \in dates : latest >= d
  <2> HIDE DEF dates
  <2> QED
    BY <1>2, MaxIs DEF dates
<1>4. \A z \in Records : synSource[z] <= latest /\ synSource[z] \in Nat
  BY <1>2, <1>3 DEF Dates
<1>5. latest \in Nat /\ latest + 1 \in 0..MaxDate
  BY <1>1, <1>2, <1>3
<1> HIDE DEF latest, dates
<1>6. synSource' \in [Records -> 0..MaxDate] /\ synSource'[x] = latest + 1
      /\ \A z \in Records \ {x} : synSource'[z] = synSource[z]
  BY <1>1, <1>5 DEF SyncTypeOK
<1> QED
  BY <1>1, <1>4, <1>5, <1>6

LEMMA ChangeKeeps ==
  ASSUME IInv, NEW x \in Records, Change(x) PROVE IInv'
<1>0. /\ SyncTypeOK /\ Enqueuers /\ NoConnection /\ CursorDate /\ CursorCovers
      /\ BatchesHaveObjects /\ RunningHasACause
      /\ \A q \in SyncRuns : RunShape(q) /\ RunRel(q)
  BY DEF IInv
<1>1. /\ synSource' \in [Records -> 0..MaxDate]
      /\ \A z \in Records \ {x} : synSource'[z] = synSource[z]
      /\ \A z \in Records : synSource'[z] >= synSource[z] /\ synSource'[x] > synSource[z]
      /\ synProvider = "stripe" => synSource[x] = 0
      /\ UNCHANGED <<synProvider, synConn, synCreds, synLogin, synCursor, synStored,
                     synObjects, synRuns, synActors, synDeaths>>
  BY <1>0, Changes
<1>2. \A z \in Records : synSource[z] \in Nat /\ synSource'[z] \in Nat
  BY <1>0, <1>1, SyncAssumption DEF SyncTypeOK
<1>3. ASSUME NEW d \in Nat, Known(d) PROVE Known(d)' /\ ~(synSource'[x] <= d)
  BY <1>1, <1>2, <1>3 DEF Known
<1>4. ASSUME NEW z \in Present', z # x
      PROVE  z \in Present /\ synSource'[z] = synSource[z] /\ Version(z)' = Version(z)
  BY <1>1, <1>4 DEF Present, Version
<1>5. \A z \in Present : z \in Present' /\ (synProvider = "stripe" => Version(z)' = Version(z))
  BY <1>1, <1>2 DEF Present, Version
<1>6. SyncTypeOK'
  BY <1>0, <1>1 DEF SyncTypeOK
<1>7. Enqueuers' /\ NoConnection' /\ BatchesHaveObjects' /\ RunningHasACause'
  BY <1>0, <1>1 DEF Enqueuers, Enqueues, NoConnection, BatchesHaveObjects, RunningHasACause
<1>8. CursorDate' /\ CursorCovers'
  <2>1. CASE synCursor = None
    BY <1>1, <2>1 DEF CursorDate, CursorCovers
  <2>2. CASE synCursor # None
    <3>1. synCursor.since \in Nat /\ Known(synCursor.since)
      BY <1>0, <2>2, SyncAssumption DEF CursorDate, SyncTypeOK, Cursor
    <3>2. Known(synCursor.since)' /\ ~(synSource'[x] <= synCursor.since)
      <4> DEFINE d == synCursor.since
      <4> HIDE DEF d
      <4>1. Known(d) /\ d \in Nat /\ d' = d
        BY <1>1, <3>1 DEF d
      <4>2. (d = 0 \/ \E y \in Records : d <= synSource'[y]) /\ ~(synSource'[x] <= d)
        BY <1>1, <1>2, <4>1 DEF Known
      <4> QED
        BY <4>1, <4>2 DEF Known, d
    <3>3. CursorDate'
      BY <3>2 DEF CursorDate
    <3>4. CursorCovers'
      BY <1>0, <1>1, <1>4, <2>2, <3>2 DEF CursorCovers
    <3> QED
      BY <3>3, <3>4
  <2> QED
    BY <2>1, <2>2
<1>9. ASSUME NEW q \in SyncRuns PROVE RunShape(q)' /\ RunRel(q)'
  <2> DEFINE run == synRuns[q]
  <2>1. run \in SyncRun /\ run.since \in Nat
        /\ \A v \in run.page : v \in Versions /\ v.x \in Records /\ v.date \in Nat /\ v.date > 0
    BY <1>0, RunTyped, SyncAssumption DEF SyncRun, Versions
  <2>2. RunRel(q) /\ synRuns'[q] = run
    BY <1>0, <1>1
  <2>3. ~(synSource'[x] <= run.since) /\ \A v \in run.page : ~(synSource'[x] <= v.date)
    BY <1>1, <1>2, <2>1, <2>2 DEF RunRel, RunDates, Known
  <2>4. RunShape(q)'
    BY <1>0, <1>1 DEF RunShape
  <2>5. RunDates(q)'
    BY <1>1, <1>2, <2>1, <2>2 DEF RunRel, RunDates, Known
  <2>6. RunPage(q)'
    <3>1. synProvider = "stripe" => \A v \in run.page : v.date = synSource'[v.x]
      BY <1>1, <2>1, <2>2 DEF RunRel, RunPage
    <3> QED
      BY <1>1, <1>5, <2>2, <3>1 DEF RunRel, RunPage, Connected
  <2>7. RunCovers(q)'
    BY <1>1, <1>4, <2>2, <2>3 DEF RunRel, RunCovers, Covered, Stored, Connected
  <2>8. RunFull(q)'
    <3>1. SUFFICES ASSUME synProvider = "stripe", Connected, run.full, run.whole, NEW z \in run.saw
                   PROVE  /\ run.at = "fetch" /\ run.last # None
                               /\ synSource'[z] >= synSource'[run.last] => Stored(z)
                          /\ run.at \in Paged =>
                               /\ \A v \in run.page :
                                    synSource'[z] >= v.date => Stored(z) \/ Version(z) \in run.page
                               /\ ~run.more => Stored(z) \/ Version(z) \in run.page
                          /\ run.at \in {"complete", "connected"} => Stored(z)
      <4>1. synProvider = "stripe" => \A z \in run.saw : (Stored(z)' <=> Stored(z)) /\ Version(z)' = Version(z)
        BY <1>1, <1>5, <2>2 DEF RunRel, RunPage, Stored
      <4> QED
        BY <1>1, <2>2, <3>1, <4>1 DEF RunFull, Connected
    <3>2. z \in Present /\ z \in Records /\ z # x /\ synSource'[z] = synSource[z]
      BY <1>1, <1>2, <2>2, <3>1 DEF RunRel, RunPage, Present
    <3>3. run.last # None => run.last \in Records
      BY <2>1 DEF SyncRun
    <3>4. run.last # None /\ synSource'[z] >= synSource'[run.last] => synSource[z] >= synSource[run.last]
      BY <1>1, <1>2, <3>2, <3>3
    <3> QED
      BY <2>2, <3>1, <3>2, <3>4 DEF RunRel, RunFull
  <2> QED
    BY <2>4, <2>5, <2>6, <2>7, <2>8 DEF RunRel
<1> QED
  BY <1>6, <1>7, <1>8, <1>9 DEF IInv

LEMMA InitSatisfies == ASSUME Init PROVE IInv
<1>1. synRuns = [r \in SyncRuns |-> NoJob] /\ synActors = [a \in SyncActors |-> Idle]
      /\ synCursor = None /\ synStored = {} /\ synObjects = {} /\ synDeaths = 0
  BY DEF Init
<1>2. RunIs(NoJob, "none", FALSE, "none", 0, 0, None, {}, FALSE, {}, TRUE, FALSE)
  BY SyncAssumption DEF RunIs, NoJob, SyncRun
<1>3. Idle \in SyncActor /\ Idle.at = "idle"
  BY DEF Idle, SyncActor
<1>4. synSource \in [Records -> 0..MaxDate]
  <2>1. Cardinality(Records) \in Nat /\ Cardinality(Records) <= MaxDate /\ MaxDate \in Nat
    BY FS_CardinalityType, SyncAssumption
  <2>2. synSource \in [Records -> 0..Cardinality(Records)]
    BY DEF Init
  <2> QED
    BY <2>1, <2>2
<1>5. SyncTypeOK
  <2>1. synDeaths \in 0..MaxDeaths
    BY <1>1, SyncAssumption
  <2>2. synRuns \in [SyncRuns -> SyncRun] /\ synActors \in [SyncActors -> SyncActor]
    BY <1>1, <1>2, <1>3 DEF RunIs
  <2>3. /\ synProvider \in {"salesforce", "stripe"} /\ synConn \in {"none", "connected", "error", "gone"}
    BY DEF Init
  <2>4. synCreds \in BOOLEAN
    BY DEF Init
  <2>5. synLogin \in [verifier : BOOLEAN, code : BOOLEAN]
    <3>1. /\ [verifier |-> TRUE, code |-> TRUE] \in [verifier : BOOLEAN, code : BOOLEAN]
          /\ [verifier |-> FALSE, code |-> FALSE] \in [verifier : BOOLEAN, code : BOOLEAN]
      OBVIOUS
    <3> QED
      BY <3>1 DEF Init
  <2> QED
    BY <1>1, <1>4, <2>1, <2>2, <2>3, <2>4, <2>5 DEF SyncTypeOK
<1>6. Enqueuers
  BY <1>1, <1>3 DEF Enqueuers
<1>7. \A r \in SyncRuns : synRuns[r].status = "none" /\ synRuns[r].at = "none"
  BY <1>1, <1>2 DEF RunIs
<1>8. NoConnection /\ CursorDate /\ CursorCovers /\ BatchesHaveObjects /\ RunningHasACause
  BY <1>1, <1>7 DEF NoConnection, CursorDate, CursorCovers, BatchesHaveObjects, RunningHasACause
<1>9. ASSUME NEW r \in SyncRuns PROVE RunShape(r) /\ RunRel(r)
  <2>1. RunIs(synRuns[r], "none", FALSE, "none", 0, 0, None, {}, FALSE, {}, TRUE, FALSE)
    BY <1>1, <1>2
  <2>2. RunShape(r)
    BY <2>1 DEF RunIs, RunShape, Paged
  <2>3. RunDates(r) /\ RunPage(r)
    BY <2>1 DEF RunIs, RunDates, RunPage, Known
  <2>4. RunCovers(r) /\ RunFull(r)
    BY <2>1 DEF RunIs, RunCovers, RunFull, InLoop, Paged
  <2> QED
    BY <2>2, <2>3, <2>4 DEF RunRel
<1> QED
  BY <1>5, <1>6, <1>8, <1>9 DEF IInv

LEMMA NextKeeps == ASSUME IInv, [Next]_syncVars PROVE IInv'
<1>1. ASSUME NEW a \in SyncActors, Request(a) PROVE IInv'
  <2>1. CASE synActors[a].at = "enqueue" /\ (EnqueueSync(a) \/ RequestFails(a))
    BY <2>1, EnqueueKeeps
  <2>2. EnqueueSync(a) => synActors[a].at = "enqueue"
    BY DEF EnqueueSync
  <2> QED
    BY <1>1, <2>1, <2>2, PlainKeeps, InsertRunKeeps, DeleteKeeps DEF Request, PlainRequest
<1>2. CASE UNCHANGED syncVars
  <2>1. /\ SyncTypeOK' /\ Enqueuers' /\ NoConnection' /\ CursorDate' /\ CursorCovers'
        /\ BatchesHaveObjects' /\ RunningHasACause'
    BY <1>2 DEF IInv, syncVars, SyncTypeOK, Enqueuers, Enqueues, NoConnection, CursorDate, Known,
                CursorCovers, Present, Version, BatchesHaveObjects, RunningHasACause
  <2>2. ASSUME NEW q \in SyncRuns PROVE RunShape(q)' /\ RunRel(q)'
    <3>1. RunShape(q)'
      BY <1>2 DEF IInv, syncVars, RunShape
    <3>2. Grows /\ synRuns'[q] = synRuns[q]
      BY <1>2 DEF syncVars, Grows, Connected
    <3> QED
      BY <3>1, <3>2, OtherRuns DEF IInv
  <2> QED
    BY <2>1, <2>2 DEF IInv
<1> QED
  BY <1>1, <1>2, ProcessKeeps, ChangeKeeps DEF Next

LEMMA InvariantImplies == IInv => SyncInv
<1>1. SUFFICES ASSUME IInv PROVE FullSyncIsFull
  BY DEF IInv, SyncInv
<1>2. ASSUME NEW r \in SyncRuns PROVE RunFull(r)
  BY <1>1, <1>2 DEF IInv, RunRel
<1> QED
  BY <1>2 DEF FullSyncIsFull, RunFull, Stored

\* Whatever runs of whatever length overlap, fail, are repeated or lose their
\* worker while the source changes, and whoever connects, asks and disconnects:
\* the cursor of a Salesforce connection covers what is stored, a full sync of
\* Stripe that completes is full, a batch has its object, and a run is left
\* 'running' only for a cause (processors/sync.ts, the connectors, the routes).
THEOREM SyncIsCovered == Spec => []SyncInv
<1>1. Spec => []IInv
  BY InitSatisfies, NextKeeps, PTL DEF Spec
<1> QED
  BY <1>1, InvariantImplies, PTL
=============================================================================
