--------------------------- MODULE Services_proofs ---------------------------
(***************************************************************************)
(* Proofs about Simulations, for any requests, overrides, runs and         *)
(* failures, about RevRecJobs, for any jobs, versions, obligations, tables *)
(* and periods, about RevRec, for any prices, days, months and invoices,   *)
(* about SimEngine, for any books and overrides, and about Rules, for any  *)
(* books.  None of the five takes a step of another.                       *)
(*                                                                         *)
(* IInv says what of a simulation is whose: a run is queued by the request *)
(* that inserted it, once, with the draft closed; one of the tries of its  *)
(* job inserts the result, and that one the deltas; and without a failure  *)
(* what waits waits for a request about to queue or for the job.  JobsInv  *)
(* says where the one job that is busy stands among the rows of the        *)
(* contract, while none overlaps it, and while nothing fails.              *)
(* ScheduleIInv says that each step of the computation keeps what the one  *)
(* before it gave; what that comes to is a matter of sums, whose laws are  *)
(* proved first, a member at a time.  WhatIfIInv says which overrides, in  *)
(* the order that sorting gives, have been applied to the copy.  RulInv    *)
(* says that the key of an issue tells its contract and its severity,      *)
(* which holds rule by rule, and what of the issues raised is kept.        *)
(***************************************************************************)
EXTENDS RevRecState, Simulations, ScheduleState, WhatIfState, RulesState, TLAPS,
        FiniteSetTheorems, FunctionTheorems, SequenceTheorems, WellFoundedInduction

Jobs == INSTANCE RevRecJobs
Engine == INSTANCE RevRec

(***************************************************************************)
(* Simulations                                                             *)
(***************************************************************************)
\* The draft is closed: what a request still writes to it comes late.
Sealed == simLate \/ simStatus # "draft"

Writing == {"copy", "insert override", "delete override", "update"}
Queueing == {"set pending", "enqueue"}
Queues(a, n) == simActors[a].at \in Queueing /\ simActors[a].what = n
Tries(n, places) == \E d \in 1..2 : simJobs[n][d].at \in places

Untouched ==
  ~simCreated =>
    /\ simStatus = None
    /\ \A a \in SimActors : simActors[a].at = "idle"
    /\ \A n \in Numbers : simJobs[n][1].at = "none"
Gone == simStatus = None => \A n \in Numbers : simRuns[n] = None
Drafts == \A a \in SimActors : simActors[a].at \in Writing => simActors[a].read = "draft"

\* A run is queued by the request that inserted it, once.
Queued(a) ==
  \A n \in Numbers : Queues(a, n) =>
    /\ simJobs[n][1].at = "none" /\ (simStatus # None => simRuns[n] # None)
    /\ \A b \in SimActors : Queues(b, n) => b = a
    /\ simActors[a].at = "enqueue" => Sealed

JobShape(n) ==
  /\ simJobs[n][1].at = "none" =>
       /\ simJobs[n][2].at = "none"
       /\ simRuns[n] # None => simRuns[n].result = None /\ simRuns[n].deltas = 0
  /\ simJobs[n][1].at # "none" => Sealed /\ (simStatus # None => simRuns[n] # None)
  /\ \A d \in 1..2 : simJobs[n][d].at = "result" =>
       simJobs[n][d].read # None /\ (~simLate /\ simStatus # None => IsCurrent(simJobs[n][d].read))

\* One of the tries of a job inserts the result, and that one the deltas.
RunShape(n) ==
  simRuns[n] # None =>
    /\ simRuns[n].result = None =>
         simRuns[n].deltas = 0 /\ ~Tries(n, {"deltas", "complete run"})
    /\ simRuns[n].result # None /\ ~simLate => IsCurrent(simRuns[n].result)
    /\ \A d \in 1..2 : simJobs[n][d].at = "deltas" =>
         /\ simRuns[n].deltas = 0
         /\ \A e \in 1..2 : simJobs[n][e].at \in {"deltas", "complete run"} => e = d
    /\ Tries(n, {"complete run"}) => simRuns[n].deltas = 1
    /\ simRuns[n].status = "completed" =>
         simRuns[n].result # None /\ simRuns[n].deltas = 1 /\ ~Tries(n, {"deltas"})

\* Without a failure, what waits waits for a request about to queue or a job.
Awaited(n) ==
  /\ simJobs[n][2].at = "none" /\ simJobs[n][1].at # "dead"
  /\ simRuns[n] # None /\ simRuns[n].status \in {"pending", "running"} =>
       \/ \E a \in SimActors : Queues(a, n)
       \/ simJobs[n][1].at \in {"start", "load", "result", "deltas", "complete run", "fail run"}
PendingIsAwaited ==
  simStatus = "pending" =>
    \/ \E a \in SimActors : simActors[a].at = "enqueue"
    \/ \E n \in Numbers : simJobs[n][1].at \in (InTry \ {"audit"}) \cup InCatch

IInv ==
  /\ SimTypeOK /\ Untouched /\ Gone /\ Drafts
  /\ \A a \in SimActors : Queued(a)
  /\ \A n \in Numbers : JobShape(n) /\ RunShape(n)
  /\ simFaults = 0 => PendingIsAwaited /\ \A n \in Numbers : Awaited(n)
-----------------------------------------------------------------------------
(***************************************************************************)
(* Frames                                                                  *)
(***************************************************************************)
\* A request goes on with these fields.
RowIs(a, at, read, what) ==
  simActors' = [simActors EXCEPT ![a] = [at |-> at, read |-> read, what |-> what]]

LEMMA ActorOf ==
  ASSUME SimTypeOK, NEW a \in SimActors
  PROVE  /\ simActors[a] = [at |-> simActors[a].at, read |-> simActors[a].read,
                            what |-> simActors[a].what]
         /\ simActors[a].read \in Statuses \cup {None} /\ Holds(a)
         /\ simActors[a].at \in {"idle", "insert run"} \cup Writing \cup Queueing
BY DEF SimTypeOK, Holds, Writing, Queueing

LEMMA ActorIs ==
  ASSUME SimTypeOK, NEW a \in SimActors, NEW at, NEW read, NEW what, RowIs(a, at, read, what)
  PROVE  /\ simActors'[a].at = at /\ simActors'[a].read = read /\ simActors'[a].what = what
         /\ \A b \in SimActors : b # a => simActors'[b] = simActors[b]
         /\ simActors' = [b \in SimActors |-> [at |-> simActors'[b].at, read |-> simActors'[b].read,
                                               what |-> simActors'[b].what]]
<1>1. DOMAIN simActors = SimActors
  BY DEF SimTypeOK
<1>2. /\ DOMAIN simActors' = SimActors /\ simActors'[a] = [at |-> at, read |-> read, what |-> what]
      /\ \A b \in SimActors : b # a => simActors'[b] = simActors[b]
      /\ simActors' = [b \in SimActors |-> simActors'[b]]
  BY <1>1 DEF RowIs
<1>3. \A b \in SimActors : simActors'[b] = [at |-> simActors'[b].at, read |-> simActors'[b].read,
                                             what |-> simActors'[b].what]
  BY <1>2, ActorOf
<1> QED
  BY <1>2, <1>3

LEMMA Moves ==
  ASSUME SimTypeOK, NEW a \in SimActors
  PROVE  /\ Answered(a) => RowIs(a, "idle", None, None)
         /\ \A at, what : Go(a, at, what) => RowIs(a, at, simStatus, what)
         /\ \A at : On(a, at) => RowIs(a, at, simActors[a].read, simActors[a].what)
<1>1. simActors[a] = [at |-> simActors[a].at, read |-> simActors[a].read, what |-> simActors[a].what]
  BY ActorOf
<1>2. ASSUME NEW at
      PROVE  [simActors[a] EXCEPT !.at = at]
               = [at |-> at, read |-> simActors[a].read, what |-> simActors[a].what]
  BY <1>1
<1> QED
  BY <1>2 DEF Answered, Go, On, RowIs, Idle

\* The types after a step of a request.
LEMMA ActorTypes ==
  ASSUME SimTypeOK, NEW a \in SimActors, NEW at, NEW read, NEW what, RowIs(a, at, read, what),
         read \in Statuses \cup {None}, Holds(a)',
         simStatus' \in Statuses \cup {None}, simCreated' \in BOOLEAN,
         simRows' \in [Places -> Row \cup {None}], simRuns' \in [Numbers -> SimRun \cup {None}],
         simJobs' \in [Numbers -> [1..2 -> SimJob]],
         simLate' \in BOOLEAN, simFaults' \in 0..MaxSimFaults
  PROVE  SimTypeOK'
<1>1. /\ simActors'[a].at = at /\ simActors'[a].read = read /\ simActors'[a].what = what
      /\ \A b \in SimActors : b # a => simActors'[b] = simActors[b]
      /\ simActors' = [b \in SimActors |-> [at |-> simActors'[b].at, read |-> simActors'[b].read,
                                            what |-> simActors'[b].what]]
  BY ActorIs
<1>2. \A b \in SimActors : b # a => Holds(b)'
  BY <1>1, ActorOf DEF Holds
<1>3. \A b \in SimActors : simActors'[b].read \in Statuses \cup {None} /\ Holds(b)'
  BY <1>1, <1>2, ActorOf
<1> QED
  BY <1>1, <1>3 DEF SimTypeOK

LEMMA HoldsAfter ==
  ASSUME SimTypeOK, NEW a \in SimActors, NEW at, NEW read, NEW what, RowIs(a, at, read, what),
         \/ at = "idle" /\ what = None
         \/ at = "copy" /\ what \in 1..Len(SimTemplate)
         \/ at \in {"insert run", "set pending", "enqueue"} /\ what \in Numbers
  PROVE  Holds(a)'
<1>1. simActors'[a].at = at /\ simActors'[a].what = what
  BY ActorIs
<1> QED
  BY <1>1 DEF Holds

\* What everybody may rely on: what came late stays late, a closed draft stays
\* closed, and then nothing comes to its overrides in time.
Onward ==
  /\ simLate => simLate'
  /\ Sealed => Sealed'
  /\ Sealed /\ ~simLate' /\ simStatus' # None => UNCHANGED simRows
  /\ simStatus = None => simStatus' = None

LEMMA OtherRuns ==
  ASSUME IInv, Onward, Gone', NEW n \in Numbers,
         simRuns'[n] = simRuns[n], simJobs'[n] = simJobs[n]
  PROVE  JobShape(n)' /\ RunShape(n)'
<1>1. JobShape(n) /\ RunShape(n)
  BY DEF IInv
<1>2. ~simLate' /\ simStatus' # None /\ simJobs[n][1].at # "none" => simRows' = simRows
  BY <1>1 DEF JobShape, Onward
<1>3. \A d \in 1..2 : simJobs[n][d].at # "none" => simJobs[n][1].at # "none"
  BY <1>1 DEF JobShape
<1>4. JobShape(n)'
  <2>1. simJobs[n][1].at # "none" => Sealed' /\ (simStatus' # None => simRuns[n] # None)
    BY <1>1 DEF JobShape, Onward
  <2>2. ASSUME NEW d \in 1..2, simJobs[n][d].at = "result", ~simLate', simStatus' # None
        PROVE  IsCurrent(simJobs[n][d].read)'
    <3>1. IsCurrent(simJobs[n][d].read)
      BY <1>1, <2>2 DEF JobShape, Onward
    <3>2. simRows' = simRows /\ simJobs'[n][d].read = simJobs[n][d].read
      BY <1>2, <1>3, <2>2
    <3> QED
      BY <3>1, <3>2 DEF IsCurrent, Rows
  <2>3. simJobs[n][1].at = "none" =>
          /\ simJobs[n][2].at = "none"
          /\ simRuns[n] # None => simRuns[n].result = None /\ simRuns[n].deltas = 0
    BY <1>1 DEF JobShape
  <2>4. \A d \in 1..2 : simJobs[n][d].at = "result" => simJobs[n][d].read # None
    BY <1>1 DEF JobShape
  <2> QED
    BY <2>1, <2>2, <2>3, <2>4 DEF JobShape
<1>5. RunShape(n)'
  <2>1. ASSUME simRuns[n] # None, simRuns[n].result # None, ~simLate'
        PROVE  IsCurrent(simRuns[n].result)'
    <3>1. simJobs[n][1].at # "none"
      BY <1>1, <2>1 DEF JobShape
    <3>2. IsCurrent(simRuns[n].result)
      BY <1>1, <2>1 DEF RunShape, Onward
    <3>3. simStatus' # None
      BY <2>1 DEF Gone
    <3>4. simRows' = simRows
      BY <1>2, <2>1, <3>1, <3>3
    <3> QED
      BY <3>2, <3>4 DEF IsCurrent, Rows
  <2> QED
    BY <1>1, <2>1 DEF RunShape, Tries
<1> QED
  BY <1>4, <1>5

(***************************************************************************)
(* Requests                                                                *)
(***************************************************************************)
\* A step of a request that leaves runs and jobs alone, and queues nothing it was
\* not about to.
LEMMA QuietKeeps ==
  ASSUME IInv, NEW a \in SimActors, NEW at, NEW read, NEW what, RowIs(a, at, read, what),
         SimTypeOK', simCreated', UNCHANGED <<simRuns, simJobs>>, Onward,
         simStatus # None => simStatus' # None,
         simFaults' = 0 => simFaults = 0,
         at \in Writing => read = "draft",
         at \in Queueing => /\ simActors[a].at \in Queueing /\ what = simActors[a].what
                            /\ (at = "enqueue" => Sealed'),
         simFaults' = 0 =>
           /\ simStatus' = "pending" =>
                at = "enqueue" \/ (simStatus = "pending" /\ simActors[a].at # "enqueue")
           /\ simActors[a].at \in Queueing => at \in Queueing \/ simStatus = None
  PROVE  IInv'
<1>1. /\ simActors'[a].at = at /\ simActors'[a].read = read /\ simActors'[a].what = what
      /\ \A b \in SimActors : b # a => simActors'[b] = simActors[b]
  BY ActorIs DEF IInv
<1>2. Untouched' /\ Gone'
  BY DEF Untouched, Gone, IInv
<1>3. Drafts'
  BY <1>1 DEF Drafts, IInv
<1>4. \A b \in SimActors, n \in Numbers : Queues(b, n)' => Queues(b, n)
  BY <1>1 DEF Queues
<1>5. ASSUME NEW b \in SimActors PROVE Queued(b)'
  <2>1. SUFFICES ASSUME NEW n \in Numbers, Queues(b, n)'
                 PROVE  /\ simJobs'[n][1].at = "none" /\ (simStatus' # None => simRuns'[n] # None)
                        /\ \A c \in SimActors : Queues(c, n)' => c = b
                        /\ simActors'[b].at = "enqueue" => Sealed'
    BY DEF Queued
  <2>2. Queues(b, n) /\ Queued(b)
    BY <1>4, <2>1 DEF IInv
  <2>3. simActors'[b].at = "enqueue" => Sealed'
    BY <1>1, <2>1, <2>2 DEF Queued, Onward, Queueing
  <2> QED
    BY <1>4, <2>2, <2>3 DEF Queued, Onward
<1>6. \A n \in Numbers : JobShape(n)' /\ RunShape(n)'
  BY <1>2, OtherRuns
<1>7. ASSUME simFaults' = 0 PROVE PendingIsAwaited'
  <2>1. simFaults = 0 /\ PendingIsAwaited
    BY <1>7 DEF IInv
  <2>2. ASSUME simStatus' = "pending", at # "enqueue"
        PROVE  \/ \E b \in SimActors : simActors'[b].at = "enqueue"
               \/ \E n \in Numbers : simJobs'[n][1].at \in (InTry \ {"audit"}) \cup InCatch
    <3>1. simStatus = "pending" /\ simActors[a].at # "enqueue"
      BY <1>7, <2>2
    <3> QED
      BY <1>1, <2>1, <3>1 DEF PendingIsAwaited
  <2> QED
    BY <1>1, <2>2 DEF PendingIsAwaited
<1>8. ASSUME simFaults' = 0, NEW n \in Numbers PROVE Awaited(n)'
  <2>1. Awaited(n)
    BY <1>8 DEF IInv
  <2>2. ASSUME NEW b \in SimActors, Queues(b, n), simRuns[n] # None
        PROVE  \E c \in SimActors : Queues(c, n)'
    <3>1. CASE b # a
      BY <1>1, <2>2, <3>1 DEF Queues
    <3>2. CASE b = a
      <4>1. simStatus # None
        BY <2>2 DEF IInv, Gone
      <4>2. at \in Queueing /\ what = n
        BY <1>8, <2>2, <3>2, <4>1 DEF Queues
      <4> QED
        BY <1>1, <4>2 DEF Queues
    <3> QED
      BY <3>1, <3>2
  <2> QED
    BY <2>1, <2>2 DEF Awaited
<1> QED
  BY <1>2, <1>3, <1>5, <1>6, <1>7, <1>8 DEF IInv

\* A request that is under way has a simulation to be about, or had.
LEMMA HasBegun ==
  ASSUME IInv, NEW a \in SimActors, simActors[a].at # "idle" \/ simStatus # None
  PROVE  simCreated
BY DEF IInv, Untouched

LEMMA StateTypes ==
  ASSUME IInv
  PROVE  /\ simStatus \in Statuses \cup {None} /\ simCreated \in BOOLEAN
         /\ simRows \in [Places -> Row \cup {None}]
         /\ simRuns \in [Numbers -> SimRun \cup {None}]
         /\ simJobs \in [Numbers -> [1..2 -> SimJob]]
         /\ simLate \in BOOLEAN /\ simFaults \in 0..MaxSimFaults /\ SimTypeOK
BY DEF IInv, SimTypeOK

\* A request that asks to write to the draft.
LEMMA AskKeeps ==
  ASSUME IInv, NEW a \in SimActors, AskOverride(a) \/ AskRemove(a) \/ AskUpdate(a) \/ AskRun(a)
  PROVE  IInv'
<1>1. PICK at, what :
        /\ Go(a, at, what)
        /\ \/ at = "insert override" /\ what \in [kind : SimKinds, seq : SimSeqs] /\ simStatus = "draft"
           \/ at = "delete override" /\ what \in Rows /\ simStatus = "draft"
           \/ at = "update" /\ what \in {"draft", "cancelled"} /\ simStatus = "draft"
           \/ at = "insert run" /\ what \in Numbers /\ simStatus # None
  <2>1. CASE AskOverride(a)
    <3>1. PICK kind \in SimKinds, seq \in SimSeqs :
            Go(a, "insert override", [kind |-> kind, seq |-> seq])
      BY <2>1 DEF AskOverride
    <3>2. [kind |-> kind, seq |-> seq] \in [kind : SimKinds, seq : SimSeqs]
      OBVIOUS
    <3>3. simStatus = "draft"
      BY <2>1 DEF AskOverride
    <3> QED
      BY <3>1, <3>2, <3>3
  <2>2. CASE AskRemove(a)
    BY <2>2 DEF AskRemove
  <2>3. CASE AskUpdate(a)
    BY <2>3 DEF AskUpdate
  <2>4. CASE AskRun(a)
    BY <2>4 DEF AskRun
  <2> QED
    BY <2>1, <2>2, <2>3, <2>4
<1>2. /\ UNCHANGED <<simStatus, simCreated, simRows, simRuns, simJobs, simLate, simFaults>>
      /\ simActors[a].at = "idle"
  BY DEF AskOverride, AskRemove, AskUpdate, AskRun
<1>3. RowIs(a, at, simStatus, what)
  BY <1>1, StateTypes, Moves
<1>4. simActors'[a].at = at /\ simActors'[a].what = what
  BY <1>3, StateTypes, ActorIs
<1>5. Holds(a)'
  BY <1>1, <1>4, SimAssumption DEF Holds, Rows, Row
<1>6. SimTypeOK'
  BY <1>2, <1>3, <1>5, StateTypes, ActorTypes
<1>7. simCreated'
  BY <1>1, <1>2, HasBegun, SimAssumption DEF Statuses
<1>8. Onward
  BY <1>2 DEF Onward, Sealed
<1>9. (at \in Writing => simStatus = "draft") /\ at \notin Queueing
  BY <1>1 DEF Writing, Queueing
<1>10. simActors[a].at \notin Queueing
  BY <1>2 DEF Queueing
<1> QED
  BY <1>2, <1>3, <1>6, <1>7, <1>8, <1>9, <1>10, QuietKeeps

\* A write to the overrides, or to the status, of a request that read a draft.
LEMMA WriteKeeps ==
  ASSUME IInv, NEW a \in SimActors, NEW at, NEW read, NEW what, RowIs(a, at, read, what),
         simActors[a].at \in Writing, Late(a), SimTypeOK', at \notin Queueing,
         at \in Writing => read = "draft", UNCHANGED <<simCreated, simRuns, simJobs, simFaults>>,
         simStatus' = None <=> simStatus = None,
         simStatus' # simStatus => simStatus' # "pending"
  PROVE  IInv'
<1>1. simActors[a].read = "draft" /\ simLate \in BOOLEAN
  BY StateTypes DEF IInv, Drafts
<1>2. simLate' = (simLate \/ simStatus # "draft")
  BY <1>1 DEF Late
<1>3. Onward
  BY <1>1, <1>2 DEF Onward, Sealed
<1>4. simCreated'
  BY HasBegun DEF Writing
<1> QED
  BY <1>3, <1>4, QuietKeeps DEF Writing, Queueing

LEMMA InsertKeeps ==
  ASSUME IInv, NEW a \in SimActors, CopyOverride(a) \/ InsertOverride(a)
  PROVE  IInv'
<1>1. /\ UNCHANGED <<simStatus, simCreated, simRuns, simJobs, simFaults>> /\ Late(a)
      /\ simActors[a].at \in {"copy", "insert override"}
  BY DEF CopyOverride, InsertOverride
<1>2. simLate' \in BOOLEAN
  BY <1>1, StateTypes DEF Late
<1>3. CASE CopyOverride(a)
  <2> DEFINE i == simActors[a].what
  <2>1. PICK k \in Places \ Rows :
          /\ simRows' = [simRows EXCEPT ![k] = [kind |-> SimTemplate[i], seq |-> i - 1]]
          /\ IF i = Len(SimTemplate) THEN Answered(a)
             ELSE simActors' = [simActors EXCEPT ![a].what = i + 1]
    BY <1>3 DEF CopyOverride
  <2>2. i \in 1..Len(SimTemplate) /\ simActors[a].at = "copy" /\ Len(SimTemplate) \in Nat
    BY <1>3, StateTypes, ActorOf, SimAssumption, LenProperties DEF CopyOverride, Holds
  <2>3. [kind |-> SimTemplate[i], seq |-> i - 1] \in Row
    BY <2>2, SimAssumption, LenProperties DEF Row, ToSet
  <2>4. simRows' \in [Places -> Row \cup {None}]
    BY <2>1, <2>3, StateTypes
  <2>5. CASE i = Len(SimTemplate)
    <3>1. RowIs(a, "idle", None, None)
      BY <2>1, <2>5, StateTypes, Moves
    <3>2. Holds(a)'
      BY <3>1, StateTypes, HoldsAfter
    <3>3. SimTypeOK'
      BY <1>1, <1>2, <2>4, <3>1, <3>2, StateTypes, ActorTypes
    <3> QED
      BY <1>1, <3>1, <3>3, WriteKeeps DEF Writing, Queueing
  <2>6. CASE i # Len(SimTemplate)
    <3>1. simActors[a].read = "draft"
      BY <2>2 DEF IInv, Drafts, Writing
    <3>0. PICK next : next = i + 1
      OBVIOUS
    <3>2. RowIs(a, "copy", "draft", next)
      <4>1. simActors[a] = [at |-> "copy", read |-> "draft", what |-> i]
        BY <2>2, <3>1, StateTypes, ActorOf
      <4>2. [simActors[a] EXCEPT !.what = i + 1] = [at |-> "copy", read |-> "draft", what |-> i + 1]
        BY <4>1
      <4> QED
        BY <2>1, <2>6, <3>0, <4>2 DEF RowIs
    <3>3. Holds(a)'
      <4>1. next \in 1..Len(SimTemplate)
        BY <2>2, <2>6, <3>0
      <4> QED
        BY <3>2, <4>1, StateTypes, HoldsAfter
    <3>4. SimTypeOK'
      BY <1>1, <1>2, <2>4, <3>2, <3>3, StateTypes, ActorTypes DEF Statuses
    <3> QED
      BY <1>1, <3>2, <3>4, WriteKeeps DEF Writing, Queueing
  <2> QED
    BY <2>5, <2>6
<1>4. CASE InsertOverride(a)
  <2>1. PICK k \in Places \ Rows : simRows' = [simRows EXCEPT ![k] = simActors[a].what]
    BY <1>4 DEF InsertOverride
  <2>2. simActors[a].what \in Row
    BY <1>4, StateTypes, ActorOf DEF InsertOverride, Holds
  <2>3. simRows' \in [Places -> Row \cup {None}]
    BY <2>1, <2>2, StateTypes
  <2>4. RowIs(a, "idle", None, None)
    BY <1>4, StateTypes, Moves DEF InsertOverride
  <2>5. Holds(a)'
    BY <2>4, StateTypes, HoldsAfter
  <2>6. SimTypeOK'
    BY <1>1, <1>2, <2>3, <2>4, <2>5, StateTypes, ActorTypes
  <2> QED
    BY <1>1, <2>4, <2>6, WriteKeeps DEF Writing, Queueing
<1> QED
  BY <1>3, <1>4

LEMMA ChangeKeeps ==
  ASSUME IInv, NEW a \in SimActors, DeleteOverride(a) \/ Update(a)
  PROVE  IInv'
<1>1. /\ UNCHANGED <<simCreated, simRuns, simJobs, simFaults>> /\ Late(a)
      /\ simActors[a].at \in {"delete override", "update"} /\ Answered(a)
  BY DEF DeleteOverride, Update
<1>2. simLate' \in BOOLEAN
  BY <1>1, StateTypes DEF Late
<1>3. RowIs(a, "idle", None, None)
  BY <1>1, StateTypes, Moves
<1>4. Holds(a)'
  BY <1>3, StateTypes, HoldsAfter
<1>5. /\ simRows' \in [Places -> Row \cup {None}] /\ simStatus' \in Statuses \cup {None}
      /\ simStatus' = None <=> simStatus = None
      /\ simStatus' # simStatus => simStatus' # "pending"
  <2>1. CASE DeleteOverride(a)
    BY <2>1, StateTypes DEF DeleteOverride
  <2>2. CASE Update(a)
    <3>1. simActors[a].what \in {"draft", "cancelled"}
      BY <2>2, StateTypes, ActorOf DEF Update, Holds
    <3> QED
      BY <2>2, <3>1, StateTypes, SimAssumption DEF Update, Statuses
  <2> QED
    BY <2>1, <2>2
<1>6. SimTypeOK'
  BY <1>1, <1>2, <1>3, <1>4, <1>5, StateTypes, ActorTypes
<1> QED
  BY <1>1, <1>3, <1>5, <1>6, WriteKeeps DEF Writing, Queueing

LEMMA SetPendingKeeps == ASSUME IInv, NEW a \in SimActors, SetPending(a) PROVE IInv'
<1>1. /\ UNCHANGED <<simCreated, simRows, simRuns, simJobs, simLate, simFaults>>
      /\ simActors[a].at = "set pending" /\ On(a, "enqueue")
      /\ simStatus' = IF simStatus = None THEN None ELSE "pending"
  BY DEF SetPending
<1>2. RowIs(a, "enqueue", simActors[a].read, simActors[a].what)
  BY <1>1, StateTypes, Moves
<1>3. simActors[a].what \in Numbers /\ simActors[a].read \in Statuses \cup {None}
  BY <1>1, StateTypes, ActorOf DEF Holds
<1>4. Holds(a)'
  BY <1>2, <1>3, StateTypes, HoldsAfter
<1>5. simStatus' \in Statuses \cup {None} /\ (simStatus' = None <=> simStatus = None)
      /\ simStatus' # "draft"
  BY <1>1, SimAssumption DEF Statuses
<1>6. SimTypeOK'
  BY <1>1, <1>2, <1>3, <1>4, <1>5, StateTypes, ActorTypes
<1>7. Onward /\ Sealed'
  BY <1>1, <1>5 DEF Onward, Sealed
<1>8. simCreated'
  BY <1>1, HasBegun
<1> QED
  BY <1>1, <1>2, <1>5, <1>6, <1>7, <1>8, QuietKeeps DEF Writing, Queueing

LEMMA RequestFailsKeeps == ASSUME IInv, NEW a \in SimActors, RequestFails(a) PROVE IInv'
<1>1. /\ UNCHANGED <<simStatus, simCreated, simRows, simRuns, simJobs, simLate>>
      /\ simActors[a].at # "idle" /\ Answered(a)
      /\ simFaults' = IF Refused(a) THEN simFaults ELSE simFaults + 1
      /\ simFaults < MaxSimFaults \/ Refused(a)
  BY DEF RequestFails
<1>2. RowIs(a, "idle", None, None)
  BY <1>1, StateTypes, Moves
<1>3. Holds(a)'
  BY <1>2, StateTypes, HoldsAfter
<1>4. simFaults' \in 0..MaxSimFaults /\ (simFaults' = 0 => simFaults = 0 /\ Refused(a))
  BY <1>1, StateTypes, SimAssumption
<1>5. SimTypeOK'
  BY <1>1, <1>2, <1>3, <1>4, StateTypes, ActorTypes
<1>6. simCreated' /\ Onward
  BY <1>1, HasBegun DEF Onward, Sealed
<1>7. simFaults' = 0 =>
        /\ simStatus' = "pending" => simActors[a].at # "enqueue"
        /\ simActors[a].at \in Queueing => simStatus = None
  <2>1. ASSUME simFaults' = 0, simActors[a].at \in Queueing PROVE simStatus = None
    <3>1. CASE simActors[a].at = "enqueue"
      BY <1>4, <2>1, <3>1 DEF Refused
    <3>2. CASE simActors[a].at = "set pending"
      BY <1>4, <2>1, <3>2 DEF Refused
    <3> QED
      BY <2>1, <3>1, <3>2 DEF Queueing
  <2> QED
    BY <1>1, <2>1, SimAssumption DEF Queueing, Statuses
<1> QED
  BY <1>1, <1>2, <1>4, <1>5, <1>6, <1>7, QuietKeeps DEF Writing, Queueing

LEMMA CreateKeeps ==
  ASSUME IInv, NEW a \in SimActors, NEW template \in {<<>>, SimTemplate}, Create(a, template)
  PROVE  IInv'
<1>1. /\ ~simCreated /\ simCreated' /\ simStatus' = "draft"
      /\ UNCHANGED <<simRows, simRuns, simJobs, simLate, simFaults>>
  BY DEF Create
<1>2. /\ \A b \in SimActors : simActors[b].at = "idle"
      /\ \A n \in Numbers : simJobs[n][1].at = "none" /\ simJobs[n][2].at = "none" /\ simRuns[n] = None
  BY <1>1 DEF IInv, Untouched, Gone, JobShape
<1>3. PICK at, read, what : /\ RowIs(a, at, read, what) /\ read \in Statuses \cup {None}
                            /\ \/ at = "idle" /\ what = None
                               \/ at = "copy" /\ what \in 1..Len(SimTemplate) /\ read = "draft"
  <2>1. CASE template = <<>>
    <3>1. RowIs(a, simActors[a].at, simActors[a].read, simActors[a].what)
      <4>1. simActors' = simActors
        BY <2>1 DEF Create
      <4>2. simActors = [b \in SimActors |-> simActors[b]]
        BY StateTypes DEF SimTypeOK
      <4>3. PICK row : row = [at |-> simActors[a].at, read |-> simActors[a].read,
                              what |-> simActors[a].what]
        OBVIOUS
      <4>4. simActors[a] = row
        BY <4>3, StateTypes, ActorOf
      <4>5. [simActors EXCEPT ![a] = row] = simActors
        BY <4>2, <4>4
      <4> QED
        BY <4>1, <4>3, <4>5 DEF RowIs
    <3>2. simActors[a].what = None /\ simActors[a].read \in Statuses \cup {None}
      BY <1>2, StateTypes, ActorOf DEF Holds
    <3> QED
      BY <1>2, <3>1, <3>2
  <2>2. CASE template # <<>>
    <3>1. RowIs(a, "copy", "draft", 1)
      BY <2>2 DEF Create, RowIs
    <3>2. 1 \in 1..Len(SimTemplate)
      BY <2>2, SimAssumption, LenProperties, EmptySeq
    <3> QED
      BY <3>1, <3>2 DEF Statuses
  <2> QED
    BY <2>1, <2>2
<1>4. Holds(a)'
  BY <1>3, StateTypes, HoldsAfter
<1>5. SimTypeOK'
  BY <1>1, <1>3, <1>4, StateTypes, ActorTypes DEF Statuses
<1>6. /\ simActors'[a].at = at /\ simActors'[a].read = read
      /\ \A b \in SimActors : b # a => simActors'[b] = simActors[b]
  BY <1>3, StateTypes, ActorIs
<1>7. \A b \in SimActors : simActors'[b].at \in {"idle", "copy"}
                              /\ (simActors'[b].at = "copy" => simActors'[b].read = "draft")
  BY <1>2, <1>3, <1>6
<1>8. Untouched' /\ Gone' /\ Drafts' /\ \A b \in SimActors : Queued(b)'
  BY <1>1, <1>2, <1>7 DEF Untouched, Gone, Drafts, Queued, Queues, Writing, Queueing
<1>9. \A n \in Numbers : JobShape(n)' /\ RunShape(n)'
  <2>1. \A n \in Numbers, d \in 1..2 : simJobs'[n][d].at = "none"
    <3>1. \A d \in 1..2 : d = 1 \/ d = 2
      OBVIOUS
    <3> QED
      BY <1>1, <1>2, <3>1
  <2>2. \A n \in Numbers : simRuns'[n] = None
    BY <1>1, <1>2
  <2>3. \A n \in Numbers : simJobs'[n][1].at = "none" /\ simJobs'[n][2].at = "none"
    BY <1>1, <1>2
  <2>4. \A n \in Numbers : JobShape(n)'
    BY <2>1, <2>2, <2>3 DEF JobShape
  <2>5. \A n \in Numbers : RunShape(n)'
    BY <2>2 DEF RunShape
  <2> QED
    BY <2>4, <2>5
<1>10. PendingIsAwaited' /\ \A n \in Numbers : Awaited(n)'
  BY <1>1, <1>2 DEF PendingIsAwaited, Awaited
<1> QED
  BY <1>5, <1>8, <1>9, <1>10 DEF IInv

\* The overrides and runs go with the simulation.
LEMMA DeleteKeeps == ASSUME IInv, NEW a \in SimActors, Delete(a) PROVE IInv'
<1>1. /\ simActors[a].at = "idle" /\ simStatus # None /\ simStatus' = None
      /\ simRows' = [k \in Places |-> None] /\ simRuns' = [n \in Numbers |-> None]
      /\ UNCHANGED <<simCreated, simJobs, simActors, simLate, simFaults>>
  BY DEF Delete
<1>2. SimTypeOK'
  BY <1>1 DEF IInv, SimTypeOK, Holds
<1>3. Untouched' /\ Gone' /\ Drafts'
  BY <1>1 DEF IInv, Untouched, Gone, Drafts
<1>4. Sealed'
  BY <1>1, SimAssumption DEF Sealed, Statuses
<1>5. \A b \in SimActors : Queued(b)'
  BY <1>1, <1>4 DEF IInv, Queued, Queues
<1>6. \A n \in Numbers : JobShape(n)' /\ RunShape(n)'
  BY <1>1, <1>4 DEF IInv, JobShape, RunShape
<1>7. simFaults' = 0 => PendingIsAwaited' /\ \A n \in Numbers : Awaited(n)'
  BY <1>1, SimAssumption DEF IInv, PendingIsAwaited, Awaited, Statuses
<1> QED
  BY <1>2, <1>3, <1>5, <1>6, <1>7 DEF IInv

LEMMA InsertRunKeeps == ASSUME IInv, NEW a \in SimActors, InsertRun(a) PROVE IInv'
<1>0. PICK n, row : n = simActors[a].what /\ row = [status |-> "pending", result |-> None, deltas |-> 0]
  OBVIOUS
<1>1. /\ simActors[a].at = "insert run" /\ simStatus # None /\ simRuns[n] = None
      /\ simRuns' = [simRuns EXCEPT ![n] = row]
      /\ On(a, "set pending")
      /\ UNCHANGED <<simStatus, simCreated, simRows, simJobs, simLate, simFaults>>
  BY <1>0 DEF InsertRun, CanInsertRun
<1>2. RowIs(a, "set pending", simActors[a].read, n)
  BY <1>0, <1>1, StateTypes, Moves
<1>3. n \in Numbers /\ simActors[a].read \in Statuses \cup {None}
  BY <1>0, <1>1, StateTypes, ActorOf DEF Holds
<1>4. Holds(a)'
  BY <1>2, <1>3, StateTypes, HoldsAfter
<1>5. row \in SimRun
  BY <1>0 DEF SimRun
<1>6. /\ simRuns' \in [Numbers -> SimRun \cup {None}] /\ simRuns'[n] = row
      /\ \A m \in Numbers : m # n => simRuns'[m] = simRuns[m]
  BY <1>1, <1>3, <1>5, StateTypes
<1>7. SimTypeOK'
  BY <1>1, <1>2, <1>3, <1>4, <1>6, StateTypes, ActorTypes
<1>8. /\ simActors'[a].at = "set pending" /\ simActors'[a].what = n
      /\ \A b \in SimActors : b # a => simActors'[b] = simActors[b]
  BY <1>2, StateTypes, ActorIs
<1>9. simCreated
  BY <1>1, HasBegun
<1>10. Untouched' /\ Gone' /\ Drafts'
  BY <1>1, <1>8, <1>9 DEF IInv, Untouched, Gone, Drafts, Writing
<1>11. simJobs[n][1].at = "none" /\ simJobs[n][2].at = "none"
  BY <1>1, <1>3 DEF IInv, JobShape
<1>12. \A b \in SimActors : ~Queues(b, n)
  BY <1>1, <1>3 DEF IInv, Queued
<1>13. row # None /\ simRuns'[n] # None
  BY <1>5, <1>6, SimAssumption
<1>14. \A b \in SimActors : Queued(b)'
  <2>1. ASSUME NEW b \in SimActors, NEW m \in Numbers, Queues(b, m)'
        PROVE  /\ simJobs[m][1].at = "none" /\ simRuns'[m] # None
               /\ \A c \in SimActors : Queues(c, m)' => c = b
               /\ simActors'[b].at = "enqueue" => Sealed
    <3>1. CASE m = n
      BY <1>8, <1>11, <1>12, <1>13, <2>1, <3>1 DEF Queues
    <3>2. CASE m # n
      <4>1. b # a /\ Queues(b, m)
        BY <1>8, <2>1, <3>2 DEF Queues
      <4>2. \A c \in SimActors : Queues(c, m)' => Queues(c, m)
        BY <1>8, <3>2 DEF Queues
      <4> QED
        BY <1>1, <1>6, <1>8, <3>2, <4>1, <4>2 DEF IInv, Queued
    <3> QED
      BY <3>1, <3>2
  <2>2. Sealed' <=> Sealed
    BY <1>1 DEF Sealed
  <2> QED
    BY <1>1, <2>1, <2>2 DEF Queued
<1>15. ASSUME NEW m \in Numbers PROVE JobShape(m)' /\ RunShape(m)'
  <2>1. CASE m = n
    <3>2. \A d \in 1..2 : simJobs'[n][d].at = "none"
      <4>1. \A d \in 1..2 : d = 1 \/ d = 2
        OBVIOUS
      <4> QED
        BY <1>1, <1>11, <4>1
    <3>3. row.result = None /\ row.deltas = 0 /\ row.status = "pending"
      BY <1>0
    <3>1. /\ ~Tries(n, {"deltas", "complete run"})'
          /\ ~Tries(n, {"complete run"})' /\ ~Tries(n, {"deltas"})'
      BY <3>2 DEF Tries
    <3>4. JobShape(n)'
      BY <1>6, <3>2, <3>3 DEF JobShape
    <3>5. RunShape(n)'
      BY <1>6, <1>13, <3>1, <3>2, <3>3 DEF RunShape
    <3> QED
      BY <2>1, <3>4, <3>5
  <2>2. CASE m # n
    <3>1. Onward
      BY <1>1 DEF Onward, Sealed
    <3> QED
      BY <1>1, <1>6, <1>10, <2>2, <3>1, OtherRuns
  <2> QED
    BY <2>1, <2>2
<1>16. ASSUME simFaults' = 0 PROVE PendingIsAwaited' /\ \A m \in Numbers : Awaited(m)'
  <2>1. PendingIsAwaited /\ \A m \in Numbers : Awaited(m)
    BY <1>1, <1>16 DEF IInv
  <2>2. PendingIsAwaited'
    BY <1>1, <1>8, <2>1 DEF PendingIsAwaited
  <2>3. ASSUME NEW m \in Numbers PROVE Awaited(m)'
    <3>1. CASE m = n
      <4>1. Queues(a, n)'
        BY <1>8 DEF Queues, Queueing
      <4> QED
        BY <1>1, <1>11, <3>1, <4>1 DEF Awaited
    <3>2. CASE m # n
      <4>1. \A b \in SimActors : Queues(b, m) => Queues(b, m)'
        BY <1>1, <1>8, <3>2 DEF Queues, Queueing
      <4> QED
        BY <1>1, <1>6, <2>1, <3>2, <4>1 DEF Awaited
    <3> QED
      BY <3>1, <3>2
  <2> QED
    BY <2>2, <2>3
<1> QED
  BY <1>7, <1>10, <1>14, <1>15, <1>16 DEF IInv

\* The job starts; until then nobody tried, and the run is as it was inserted.
LEMMA EnqueueKeeps == ASSUME IInv, NEW a \in SimActors, Enqueue(a) PROVE IInv'
<1>0. PICK n : n = simActors[a].what
  OBVIOUS
<1>1. /\ simActors[a].at = "enqueue" /\ simStatus # None /\ Answered(a)
      /\ simJobs' = [simJobs EXCEPT ![n][1].at = "start"]
      /\ UNCHANGED <<simStatus, simCreated, simRows, simRuns, simLate, simFaults>>
  BY <1>0 DEF Enqueue
<1>2. RowIs(a, "idle", None, None)
  BY <1>1, StateTypes, Moves
<1>3. n \in Numbers
  BY <1>0, <1>1, StateTypes, ActorOf DEF Holds
<1>4. Queues(a, n)
  BY <1>0, <1>1 DEF Queues, Queueing
<1>5. /\ simJobs[n][1].at = "none" /\ simJobs[n][2].at = "none" /\ simRuns[n] # None /\ Sealed
      /\ \A b \in SimActors : Queues(b, n) => b = a
      /\ simRuns[n].result = None /\ simRuns[n].deltas = 0
  BY <1>1, <1>3, <1>4 DEF IInv, Queued, JobShape
<1>6. /\ simJobs' \in [Numbers -> [1..2 -> SimJob]]
      /\ simJobs'[n][1].at = "start" /\ simJobs'[n][2] = simJobs[n][2]
      /\ \A m \in Numbers : m # n => simJobs'[m] = simJobs[m]
  <2>1. simJobs \in [Numbers -> [1..2 -> SimJob]]
    BY StateTypes
  <2>2. PICK job : job = [simJobs[n][1] EXCEPT !.at = "start"]
    OBVIOUS
  <2>3. simJobs[n][1] \in SimJob
    BY <1>3, <2>1
  <2>4. job \in SimJob /\ job.at = "start"
    BY <2>2, <2>3 DEF SimJob, InTry
  <2>5. simJobs' = [simJobs EXCEPT ![n] = [simJobs[n] EXCEPT ![1] = job]]
    BY <1>1, <1>3, <2>1, <2>2
  <2> QED
    BY <1>3, <2>1, <2>4, <2>5
<1>7. Holds(a)'
  BY <1>2, StateTypes, HoldsAfter
<1>8. SimTypeOK'
  BY <1>1, <1>2, <1>6, <1>7, StateTypes, ActorTypes
<1>9. /\ simActors'[a].at = "idle"
      /\ \A b \in SimActors : b # a => simActors'[b] = simActors[b]
  BY <1>2, StateTypes, ActorIs
<1>10. Untouched' /\ Gone' /\ Drafts'
  <2>1. simCreated
    BY <1>1, HasBegun
  <2> QED
    BY <1>1, <1>9, <2>1 DEF IInv, Untouched, Gone, Drafts, Writing
<1>11. ASSUME NEW b \in SimActors PROVE Queued(b)'
  <2>1. \A c \in SimActors, m \in Numbers : Queues(c, m)' => c # a /\ m # n /\ Queues(c, m)
    BY <1>5, <1>9 DEF Queues, Queueing
  <2>2. ASSUME NEW m \in Numbers, Queues(b, m)'
        PROVE  /\ simJobs'[m][1].at = "none" /\ (simStatus # None => simRuns[m] # None)
               /\ \A c \in SimActors : Queues(c, m)' => c = b
               /\ simActors'[b].at = "enqueue" => Sealed
    BY <1>6, <1>9, <2>1, <2>2 DEF IInv, Queued
  <2>3. Sealed' <=> Sealed
    BY <1>1 DEF Sealed
  <2> QED
    BY <1>1, <2>2, <2>3 DEF Queued
<1>12. ASSUME NEW m \in Numbers PROVE JobShape(m)' /\ RunShape(m)'
  <2>1. CASE m = n
    <3>1. \A d \in 1..2 : simJobs'[n][d].at \in {"none", "start"}
      <4>1. \A d \in 1..2 : d = 1 \/ d = 2
        OBVIOUS
      <4> QED
        BY <1>5, <1>6, <4>1
    <3>2. JobShape(n)'
      BY <1>1, <1>5, <1>6, <3>1 DEF JobShape, Sealed
    <3>3. RunShape(n)'
      <4>1. RunShape(n)
        BY <1>3 DEF IInv
      <4> QED
        BY <1>1, <1>5, <3>1, <4>1 DEF RunShape, Tries
    <3> QED
      BY <2>1, <3>2, <3>3
  <2>2. CASE m # n
    <3>1. Onward
      BY <1>1 DEF Onward, Sealed
    <3> QED
      BY <1>1, <1>6, <1>10, <2>2, <3>1, OtherRuns
  <2> QED
    BY <2>1, <2>2
<1>13. PendingIsAwaited'
  BY <1>3, <1>6 DEF PendingIsAwaited, InTry
<1>14. ASSUME simFaults' = 0, NEW m \in Numbers PROVE Awaited(m)'
  <2>1. Awaited(m)
    BY <1>1, <1>14 DEF IInv
  <2>2. CASE m = n
    BY <1>5, <1>6, <2>2 DEF Awaited
  <2>3. CASE m # n
    <3>1. \A b \in SimActors : Queues(b, m) => Queues(b, m)'
      BY <1>0, <1>9, <2>3 DEF Queues
    <3> QED
      BY <1>1, <1>6, <2>1, <2>3, <3>1 DEF Awaited
  <2> QED
    BY <2>2, <2>3
<1> QED
  BY <1>8, <1>10, <1>11, <1>12, <1>13, <1>14 DEF IInv

(***************************************************************************)
(* The processor                                                           *)
(***************************************************************************)
StepTo(n, d, at, read) == simJobs' = [simJobs EXCEPT ![n][d] = [at |-> at, read |-> read]]

Ends == {"ended", "dead"} \cup InTry \cup InCatch

LEMMA Stepped ==
  ASSUME IInv, NEW n \in Numbers, NEW d \in 1..2, NEW at \in Ends,
         NEW read \in Seq(Used) \cup {None}, StepTo(n, d, at, read)
  PROVE  /\ simJobs' \in [Numbers -> [1..2 -> SimJob]]
         /\ simJobs'[n][d].at = at /\ simJobs'[n][d].read = read
         /\ \A m \in Numbers : m # n => simJobs'[m] = simJobs[m]
         /\ \A e \in 1..2 : e # d => simJobs'[n][e] = simJobs[n][e]
<1>1. PICK job : job = [at |-> at, read |-> read]
  OBVIOUS
<1>2. job \in SimJob /\ job.at = at /\ job.read = read
  BY <1>1 DEF SimJob, Ends
<1>3. simJobs \in [Numbers -> [1..2 -> SimJob]]
  BY StateTypes
<1>4. simJobs' = [simJobs EXCEPT ![n] = [simJobs[n] EXCEPT ![d] = job]]
  BY <1>1, <1>3 DEF StepTo
<1> QED
  BY <1>2, <1>3, <1>4

\* Where the first try of a job that is not over stands.
Unfinished == {"start", "load", "result", "deltas", "complete run", "fail run"}
Unsettled == (InTry \ {"audit"}) \cup InCatch

\* What a try does, and a second one's start, keeps the invariant when it keeps the
\* shape of its run, and what waits awaited.
LEMMA TryKeeps ==
  ASSUME IInv, NEW n \in Numbers, NEW d \in 1..2, NEW at \in Ends,
         NEW read \in Seq(Used) \cup {None}, StepTo(n, d, at, read),
         simJobs[n][1].at # "none",
         UNCHANGED <<simCreated, simRows, simActors, simLate>>,
         simStatus' = simStatus \/ (simStatus # None /\ simStatus' \in {"completed", "failed"}),
         simRuns' \in [Numbers -> SimRun \cup {None}],
         \A m \in Numbers : m # n => simRuns'[m] = simRuns[m],
         simRuns'[n] = None <=> simRuns[n] = None,
         simFaults' \in 0..MaxSimFaults,
         at = "result" =>
           read # None /\ (~simLate /\ simStatus # None => IsCurrent(read)),
         RunShape(n)',
         simFaults' = 0 =>
           /\ simFaults = 0 /\ simJobs[n][d].at # "none" /\ at # "dead"
           /\ simStatus' = "pending" => at \in Unsettled \/ simJobs[n][1].at \notin Unsettled
           /\ simRuns'[n] # None /\ simRuns'[n].status \in {"pending", "running"} => at \in Unfinished
  PROVE  IInv'
<1>1. /\ simJobs' \in [Numbers -> [1..2 -> SimJob]]
      /\ simJobs'[n][d].at = at /\ simJobs'[n][d].read = read
      /\ \A m \in Numbers : m # n => simJobs'[m] = simJobs[m]
      /\ \A e \in 1..2 : e # d => simJobs'[n][e] = simJobs[n][e]
  BY Stepped
<1>2. at # "none" /\ simJobs'[n][1].at # "none"
  <2>1. at # "none"
    BY DEF Ends, InTry, InCatch
  <2>2. CASE d = 1
    BY <1>1, <2>1, <2>2
  <2>3. CASE d # 1
    BY <1>1, <2>1, <2>3
  <2> QED
    BY <2>1, <2>2, <2>3
<1>3. simStatus' \in Statuses \cup {None} /\ (simStatus' = None <=> simStatus = None)
      /\ (simStatus' # simStatus => simStatus' # "draft" /\ simStatus' # "pending")
  BY StateTypes, SimAssumption DEF Statuses
<1>4. SimTypeOK'
  BY <1>1, <1>3 DEF IInv, SimTypeOK, Holds
<1>5. JobShape(n) /\ RunShape(n)
  BY DEF IInv
<1>6. Sealed /\ (simStatus # None => simRuns[n] # None)
  BY <1>5 DEF JobShape
<1>7. (Sealed => Sealed') /\ Onward
  BY <1>3 DEF Sealed, Onward
<1>8. Untouched' /\ Drafts'
  <2>1. simCreated
    BY DEF IInv, Untouched
  <2> QED
    BY <2>1 DEF IInv, Untouched, Drafts
<1>9. Gone'
  <2>1. ASSUME simStatus' = None, NEW m \in Numbers PROVE simRuns'[m] = None
    BY <1>3, <2>1 DEF IInv, Gone
  <2> QED
    BY <2>1 DEF Gone
<1>10. \A b \in SimActors : ~Queues(b, n)
  BY DEF IInv, Queued
<1>11. ASSUME NEW b \in SimActors PROVE Queued(b)'
  <2>1. \A c \in SimActors, m \in Numbers : Queues(c, m)' => m # n /\ Queues(c, m)
    BY <1>10 DEF Queues
  <2>2. ASSUME NEW m \in Numbers, Queues(b, m)'
        PROVE  /\ simJobs'[m][1].at = "none" /\ (simStatus' # None => simRuns'[m] # None)
               /\ \A c \in SimActors : Queues(c, m)' => c = b
               /\ simActors'[b].at = "enqueue" => Sealed'
    BY <1>1, <1>3, <1>7, <2>1, <2>2 DEF IInv, Queued
  <2> QED
    BY <2>2 DEF Queued
<1>12. JobShape(n)'
  <2>1. ASSUME NEW e \in 1..2, simJobs'[n][e].at = "result"
        PROVE  /\ simJobs'[n][e].read # None
               /\ ~simLate' /\ simStatus' # None => IsCurrent(simJobs[n][e].read)'
    <3>1. PICK held : held = simJobs'[n][e].read
      OBVIOUS
    <3>2. held # None /\ (~simLate /\ simStatus # None => IsCurrent(held))
      <4>1. CASE e = d
        BY <1>1, <2>1, <3>1, <4>1
      <4>2. CASE e # d
        BY <1>1, <1>5, <2>1, <3>1, <4>2 DEF JobShape
      <4> QED
        BY <4>1, <4>2
    <3>3. ~simLate /\ simStatus # None => IsCurrent(held)'
      BY <3>2 DEF IsCurrent, Rows
    <3> QED
      BY <1>3, <3>1, <3>2, <3>3 DEF IsCurrent
  <2>2. simStatus' # None => simRuns'[n] # None
    BY <1>3, <1>6
  <2> QED
    BY <1>2, <1>6, <1>7, <2>1, <2>2 DEF JobShape
<1>13. ASSUME NEW m \in Numbers PROVE JobShape(m)' /\ RunShape(m)'
  <2>1. CASE m = n
    BY <1>12, <2>1
  <2>2. CASE m # n
    BY <1>1, <1>7, <1>9, <2>2, OtherRuns
  <2> QED
    BY <2>1, <2>2
<1>14. ASSUME simFaults' = 0 PROVE d = 1 /\ simJobs[n][2].at = "none"
  <2>1. simJobs[n][2].at = "none" /\ simJobs[n][d].at # "none"
    BY <1>14 DEF IInv, Awaited
  <2>2. d = 1 \/ d = 2
    OBVIOUS
  <2> QED
    BY <2>1, <2>2
<1>15. ASSUME simFaults' = 0 PROVE PendingIsAwaited'
  <2>1. SUFFICES ASSUME simStatus' = "pending"
                 PROVE  \/ \E b \in SimActors : simActors[b].at = "enqueue"
                        \/ \E m \in Numbers : simJobs'[m][1].at \in Unsettled
    BY DEF PendingIsAwaited, Unsettled
  <2>2. simStatus = "pending" /\ PendingIsAwaited
    BY <1>3, <1>15, <2>1 DEF IInv
  <2>3. CASE at \in Unsettled
    BY <1>1, <1>14, <1>15, <2>3
  <2>4. CASE simJobs[n][1].at \notin Unsettled
    <3>1. ASSUME NEW m \in Numbers, simJobs[m][1].at \in Unsettled
          PROVE  simJobs'[m][1].at \in Unsettled
      BY <1>1, <2>4, <3>1
    <3> QED
      BY <2>2, <3>1 DEF PendingIsAwaited, Unsettled
  <2> QED
    BY <1>15, <2>1, <2>3, <2>4
<1>16. ASSUME simFaults' = 0, NEW m \in Numbers PROVE Awaited(m)'
  <2>1. Awaited(m)
    BY <1>16 DEF IInv
  <2>2. CASE m = n
    <3>1. simJobs'[n][1].at = at /\ simJobs'[n][2] = simJobs[n][2]
      BY <1>1, <1>14, <1>16
    <3>2. simRuns'[n] # None /\ simRuns'[n].status \in {"pending", "running"} =>
            simJobs'[n][1].at \in Unfinished
      BY <1>16, <3>1
    <3> QED
      BY <1>14, <1>16, <2>2, <3>1, <3>2 DEF Awaited, Unfinished
  <2>3. CASE m # n
    <3>1. \A b \in SimActors : Queues(b, m) => Queues(b, m)'
      BY DEF Queues
    <3> QED
      BY <1>1, <2>1, <2>3, <3>1 DEF Awaited
  <2> QED
    BY <2>2, <2>3
<1> QED
  BY <1>4, <1>8, <1>9, <1>11, <1>13, <1>15, <1>16 DEF IInv

\* A try that leaves its run's result and deltas alone, and does not complete it.
LEMMA RunShapeKeeps ==
  ASSUME IInv, NEW n \in Numbers, NEW d \in 1..2, NEW at \in Ends,
         NEW read \in Seq(Used) \cup {None}, StepTo(n, d, at, read),
         at \notin {"deltas", "complete run"}, UNCHANGED <<simRows, simLate>>,
         simRuns'[n] # None =>
           /\ simRuns[n] # None
           /\ simRuns'[n].result = simRuns[n].result /\ simRuns'[n].deltas = simRuns[n].deltas
           /\ simRuns'[n].status = "completed" =>
                simRuns[n].status = "completed"
                \/ (simRuns[n].result # None /\ simRuns[n].deltas = 1 /\ ~Tries(n, {"deltas"}))
  PROVE  RunShape(n)'
<1>1. \A e \in 1..2, places \in {{"deltas", "complete run"}, {"complete run"}, {"deltas"}} :
        simJobs'[n][e].at \in places => simJobs[n][e].at \in places
  <2>1. simJobs'[n][d].at = at /\ \A e \in 1..2 : e # d => simJobs'[n][e] = simJobs[n][e]
    BY Stepped
  <2> QED
    BY <2>1
<1>2. \A places \in {{"deltas", "complete run"}, {"complete run"}, {"deltas"}} :
        Tries(n, places)' => Tries(n, places)
  BY <1>1 DEF Tries
<1>3. RunShape(n)
  BY DEF IInv
<1>4. \A e \in 1..2 : simJobs'[n][e].at = "deltas" => simJobs[n][e].at = "deltas"
  BY <1>1
<1>5. ASSUME simRuns'[n] # None, simRuns'[n].result # None, ~simLate'
      PROVE  IsCurrent(simRuns[n].result)'
  <2>1. IsCurrent(simRuns[n].result)
    BY <1>3, <1>5 DEF RunShape
  <2> QED
    BY <1>5, <2>1 DEF IsCurrent, Rows
<1>6. ASSUME simRuns'[n] # None
      PROVE  /\ simRuns'[n].result = None =>
                  simRuns'[n].deltas = 0 /\ ~Tries(n, {"deltas", "complete run"})'
             /\ \A e \in 1..2 : simJobs'[n][e].at = "deltas" =>
                  /\ simRuns'[n].deltas = 0
                  /\ \A c \in 1..2 : simJobs'[n][c].at \in {"deltas", "complete run"} => c = e
             /\ Tries(n, {"complete run"})' => simRuns'[n].deltas = 1
             /\ simRuns'[n].status = "completed" =>
                  simRuns'[n].result # None /\ simRuns'[n].deltas = 1 /\ ~Tries(n, {"deltas"})'
  <2>1. \A e \in 1..2 : simJobs'[n][e].at = "deltas" =>
          /\ simRuns'[n].deltas = 0
          /\ \A c \in 1..2 : simJobs'[n][c].at \in {"deltas", "complete run"} => c = e
    BY <1>1, <1>3, <1>4, <1>6 DEF RunShape
  <2>2. simRuns'[n].status = "completed" =>
          simRuns'[n].result # None /\ simRuns'[n].deltas = 1 /\ ~Tries(n, {"deltas"})'
    BY <1>2, <1>3, <1>6 DEF RunShape
  <2> QED
    BY <1>2, <1>3, <1>6, <2>1, <2>2 DEF RunShape
<1> QED
  BY <1>5, <1>6 DEF RunShape

\* A row of a run, and its changes.
LEMMA RunRow ==
  ASSUME IInv, NEW n \in Numbers, simRuns[n] # None
  PROVE  /\ simRuns[n] \in SimRun /\ simStatus # None
         /\ simRuns[n].status \in {"pending", "running", "completed", "failed"}
         /\ simRuns[n].result \in Seq(Used) \cup {None} /\ simRuns[n].deltas \in Nat
<1>1. simRuns \in [Numbers -> SimRun \cup {None}]
  BY StateTypes
<1>2. simStatus # None
  BY DEF IInv, Gone
<1> QED
  BY <1>1, <1>2 DEF SimRun

LEMMA SetRunIs ==
  ASSUME IInv, NEW n \in Numbers, NEW status \in {"pending", "running", "completed", "failed"},
         SetRun(n, status)
  PROVE  /\ simRuns' \in [Numbers -> SimRun \cup {None}]
         /\ \A m \in Numbers : m # n => simRuns'[m] = simRuns[m]
         /\ simRuns'[n] = None <=> simRuns[n] = None
         /\ simRuns[n] # None =>
              /\ simRuns'[n].status = status
              /\ simRuns'[n].result = simRuns[n].result /\ simRuns'[n].deltas = simRuns[n].deltas
<1>1. simRuns \in [Numbers -> SimRun \cup {None}]
  BY StateTypes
<1>2. CASE simRuns[n] = None
  BY <1>1, <1>2 DEF SetRun
<1>3. CASE simRuns[n] # None
  <2>1. PICK row : row = [simRuns[n] EXCEPT !.status = status]
    OBVIOUS
  <2>2. simRuns[n] \in SimRun
    BY <1>3, RunRow
  <2>3. /\ row \in SimRun /\ row.status = status
        /\ row.result = simRuns[n].result /\ row.deltas = simRuns[n].deltas
    BY <2>1, <2>2 DEF SimRun
  <2>4. simRuns' = [simRuns EXCEPT ![n] = row]
    BY <1>3, <2>1 DEF SetRun
  <2> QED
    BY <1>1, <1>3, <2>3, <2>4, SimAssumption
<1> QED
  BY <1>2, <1>3

\* A job that is at work was queued.
LEMMA AtWork ==
  ASSUME IInv, NEW n \in Numbers, NEW d \in 1..2, simJobs[n][d].at # "none"
  PROVE  /\ simJobs[n][1].at # "none" /\ (simStatus # None => simRuns[n] # None)
         /\ \A a \in SimActors : ~Queues(a, n)
         /\ simFaults = 0 => d = 1
<1>1. d = 1 \/ d = 2
  OBVIOUS
<1>2. simJobs[n][1].at # "none"
  BY <1>1 DEF IInv, JobShape
<1>3. simFaults = 0 => simJobs[n][2].at = "none"
  BY DEF IInv, Awaited
<1> QED
  BY <1>1, <1>2, <1>3 DEF IInv, JobShape, Queued

\* Without a failure the first try knows whether its run is over.
LEMMA Settled ==
  ASSUME IInv, NEW n \in Numbers, NEW d \in 1..2, simJobs[n][d].at # "none", simFaults = 0,
         simJobs[n][d].at \notin Unfinished, simRuns[n] # None
  PROVE  simRuns[n].status \notin {"pending", "running"}
<1>1. d = 1 /\ \A a \in SimActors : ~Queues(a, n)
  BY AtWork
<1> QED
  BY <1>1 DEF IInv, Awaited, Unfinished

\* A try that marks its run, and goes on.
LEMMA MarkKeeps ==
  ASSUME IInv, NEW n \in Numbers, NEW d \in 1..2, MarkRunning(n, d) \/ FailRun(n, d)
  PROVE  IInv'
<1>1. PICK status, at :
        /\ SetRun(n, status) /\ StepTo(n, d, at, None)
        /\ \/ status = "running" /\ at = "load" /\ simJobs[n][d].at = "start"
           \/ status = "failed" /\ at = "fail simulation" /\ simJobs[n][d].at = "fail run"
  <2>1. CASE MarkRunning(n, d)
    BY <2>1 DEF MarkRunning, Step, StepTo
  <2>2. CASE FailRun(n, d)
    BY <2>2 DEF FailRun, Step, StepTo
  <2> QED
    BY <2>1, <2>2
<1>2. UNCHANGED <<simStatus, simCreated, simRows, simActors, simLate, simFaults>>
  BY DEF MarkRunning, FailRun
<1>3. at \in Ends /\ status \in {"running", "failed"} /\ at \in Unsettled
      /\ (status = "running" => at \in Unfinished)
  BY <1>1 DEF Ends, InTry, InCatch, Unsettled, Unfinished
<1>4. /\ simRuns' \in [Numbers -> SimRun \cup {None}]
      /\ \A m \in Numbers : m # n => simRuns'[m] = simRuns[m]
      /\ simRuns'[n] = None <=> simRuns[n] = None
      /\ simRuns[n] # None =>
           /\ simRuns'[n].status = status
           /\ simRuns'[n].result = simRuns[n].result /\ simRuns'[n].deltas = simRuns[n].deltas
  BY <1>1, <1>3, SetRunIs
<1>5. RunShape(n)'
  BY <1>1, <1>2, <1>3, <1>4, RunShapeKeeps
<1>6. simJobs[n][1].at # "none"
  BY <1>1, AtWork
<1>7. simFaults' \in 0..MaxSimFaults
  BY <1>2, StateTypes
<1>8. at # "result" /\ at # "dead" /\ simJobs[n][d].at # "none"
  BY <1>1
<1>9. simRuns'[n] # None /\ simRuns'[n].status \in {"pending", "running"} => at \in Unfinished
  BY <1>3, <1>4
<1> QED
  BY <1>1, <1>2, <1>3, <1>4, <1>5, <1>6, <1>7, <1>8, <1>9, TryKeeps

\* A try that leaves its run alone.
LEMMA AloneKeeps ==
  ASSUME IInv, NEW n \in Numbers, NEW d \in 1..2, NEW at \in Ends,
         NEW read \in Seq(Used) \cup {None}, StepTo(n, d, at, read),
         at \notin {"deltas", "complete run"},
         at = "result" =>
           read # None /\ (~simLate /\ simStatus # None => IsCurrent(read)),
         simJobs[n][1].at # "none",
         UNCHANGED <<simRuns, simCreated, simRows, simActors, simLate>>,
         simStatus' = simStatus \/ (simStatus # None /\ simStatus' \in {"completed", "failed"}),
         simFaults' \in 0..MaxSimFaults,
         simFaults' = 0 =>
           /\ simFaults = 0 /\ simJobs[n][d].at # "none" /\ at # "dead"
           /\ simStatus' = "pending" => at \in Unsettled \/ simJobs[n][d].at \notin Unsettled
           /\ at \in Unfinished \/ simJobs[n][d].at \notin Unfinished
  PROVE  IInv'
<1>1. RunShape(n)'
  BY RunShapeKeeps
<1>2. ASSUME simFaults' = 0
      PROVE  /\ simStatus' = "pending" => at \in Unsettled \/ simJobs[n][1].at \notin Unsettled
             /\ simRuns'[n] # None /\ simRuns'[n].status \in {"pending", "running"} => at \in Unfinished
  <2>1. d = 1
    BY <1>2, AtWork
  <2>2. simRuns[n] # None /\ simRuns[n].status \in {"pending", "running"} =>
          simJobs[n][d].at \in Unfinished
    BY <1>2, Settled
  <2> QED
    BY <1>2, <2>1, <2>2
<1>3. simRuns' \in [Numbers -> SimRun \cup {None}]
  BY StateTypes
<1> QED
  BY <1>1, <1>2, <1>3, TryKeeps

LEMMA SettleKeeps ==
  ASSUME IInv, NEW n \in Numbers, NEW d \in 1..2,
         CompleteSimulation(n, d) \/ FailSimulation(n, d) \/ Audit(n, d)
  PROVE  IInv'
<1>1. PICK at :
        /\ StepTo(n, d, at, None)
        /\ \/ /\ at \in {"audit", "ended"}
              /\ simJobs[n][d].at \in {"complete simulation", "fail simulation"}
              /\ simStatus' = None <=> simStatus = None
              /\ simStatus # None => simStatus' \in {"completed", "failed"}
           \/ /\ at \in {"ended", "fail run"} /\ simJobs[n][d].at = "audit"
              /\ UNCHANGED simStatus
  <2>1. CASE CompleteSimulation(n, d)
    BY <2>1, SimAssumption DEF CompleteSimulation, Step, StepTo, SetSimulation, Statuses
  <2>2. CASE FailSimulation(n, d)
    BY <2>2, SimAssumption DEF FailSimulation, Step, StepTo, SetSimulation, Statuses
  <2>3. CASE Audit(n, d)
    BY <2>3 DEF Audit, Step, StepTo
  <2> QED
    BY <2>1, <2>2, <2>3
<1>2. UNCHANGED <<simCreated, simRows, simRuns, simActors, simLate, simFaults>>
  BY DEF CompleteSimulation, FailSimulation, Audit
<1>3. at \in Ends /\ at \notin {"deltas", "complete run", "result", "dead"}
  BY <1>1 DEF Ends, InTry, InCatch
<1>4. simJobs[n][d].at # "none" /\ simJobs[n][1].at # "none"
  BY <1>1, AtWork
<1>5. simStatus' = simStatus \/ (simStatus # None /\ simStatus' \in {"completed", "failed"})
  BY <1>1
<1>6. simStatus' = "pending" => at \in Unsettled \/ simJobs[n][d].at \notin Unsettled
  BY <1>1, SimAssumption DEF Unsettled, InTry, InCatch, Statuses
<1>7. simJobs[n][d].at \notin Unfinished
  BY <1>1 DEF Unfinished
<1>8. simFaults' \in 0..MaxSimFaults
  BY <1>2, StateTypes
<1> QED
  BY <1>1, <1>2, <1>3, <1>4, <1>5, <1>6, <1>7, <1>8, AloneKeeps

\* A statement fails, or the worker dies.
LEMMA FaultKeeps ==
  ASSUME IInv, NEW n \in Numbers, NEW d \in 1..2, Throws(n, d) \/ Dies(n, d)
  PROVE  IInv'
<1>1. simFaults' \in 0..MaxSimFaults /\ simFaults' # 0
  <2>1. simFaults \in 0..MaxSimFaults /\ MaxSimFaults \in Nat
    BY StateTypes, SimAssumption
  <2>2. simFaults < MaxSimFaults /\ simFaults' = simFaults + 1
    BY DEF Throws, Dies
  <2> QED
    BY <2>1, <2>2
<1>2. PICK at \in {"ended", "fail run", "dead"} : StepTo(n, d, at, None)
  <2>1. CASE Throws(n, d)
    BY <2>1 DEF Throws, Step, StepTo
  <2>2. CASE Dies(n, d)
    BY <2>2 DEF Dies, Step, StepTo
  <2> QED
    BY <2>1, <2>2
<1>3. /\ UNCHANGED <<simStatus, simCreated, simRows, simRuns, simActors, simLate>>
      /\ Working(n, d)
  BY DEF Throws, Dies
<1>4. simJobs[n][1].at # "none"
  BY <1>3, AtWork DEF Working, InTry, InCatch
<1>5. at \in Ends
  BY DEF Ends, InCatch
<1> QED
  BY <1>1, <1>2, <1>3, <1>4, <1>5, AloneKeeps

LEMMA StalledKeeps == ASSUME IInv, NEW n \in Numbers, Stalled(n) PROVE IInv'
<1>1. /\ simJobs[n][1].at # "none"
      /\ simJobs[n][1].at = "dead" \/ simFaults < MaxSimFaults
      /\ simFaults' = IF simJobs[n][1].at = "dead" THEN simFaults ELSE simFaults + 1
      /\ StepTo(n, 2, "start", None)
      /\ UNCHANGED <<simStatus, simCreated, simRows, simRuns, simActors, simLate>>
  BY DEF Stalled, Step, StepTo
<1>2. simFaults = 0 => simJobs[n][1].at # "dead"
  BY DEF IInv, Awaited
<1>3. simFaults' \in 0..MaxSimFaults /\ simFaults' # 0
  BY <1>1, <1>2, StateTypes, SimAssumption
<1>4. PICK d \in 1..2, at \in Ends : d = 2 /\ at = "start"
  <2>1. 2 \in 1..2 /\ "start" \in Ends
    BY DEF Ends, InTry
  <2> QED
    BY <2>1
<1>5. PICK read \in Seq(Used) \cup {None} : read = None
  OBVIOUS
<1>6. StepTo(n, d, at, read) /\ at \notin {"deltas", "complete run", "result"}
  BY <1>1, <1>4, <1>5
<1>7. simFaults' \in 0..MaxSimFaults /\ (simFaults' = 0 => FALSE)
  BY <1>3
<1>8. UNCHANGED <<simRuns, simCreated, simRows, simActors, simLate>> /\ simStatus' = simStatus
  BY <1>1
<1> QED
  BY <1>1, <1>6, <1>7, <1>8, AloneKeeps

\* What the processor reads is every override the simulation has, in their sequence.
LEMMA ReadingIsCurrent ==
  ASSUME IInv, NEW s \in Readings, NEW used,
         used = [i \in DOMAIN s |-> [place |-> s[i], row |-> simRows[s[i]]]]
  PROVE  used \in Seq(Used) /\ IsCurrent(used)
<1>1. PICK c : c = Cardinality(Rows)
  OBVIOUS
<1>2. IsFiniteSet(Rows)
  <2>1. IsFiniteSet(1..MaxSimRows)
    BY SimAssumption, FS_Interval
  <2>2. Rows \in SUBSET (1..MaxSimRows)
    BY DEF Rows, Places
  <2> QED
    BY <2>1, <2>2, FS_Subset
<1>3. c \in Nat
  BY <1>1, <1>2, FS_CardinalityType
<1>4. /\ s \in [1..c -> Rows] /\ \A i, j \in 1..c : i # j => s[i] # s[j]
      /\ \A i, j \in DOMAIN s : i < j => simRows[s[i]].seq <= simRows[s[j]].seq
  BY <1>1 DEF Readings, SetToSeqs
<1>5. s \in Injection(1..c, Rows)
  BY <1>4 DEF Injection, IsInjective
<1>6. Cardinality(1..c) = c
  <2>1. Cardinality(1..c) = IF 1 > c THEN 0 ELSE c - 1 + 1
    <3>1. 1 \in Int /\ c \in Int
      BY <1>3
    <3> QED
      BY <3>1, FS_Interval
  <2> QED
    BY <1>3, <2>1
<1>7. s \in Surjection(1..c, Rows)
  BY <1>1, <1>2, <1>5, <1>6, FS_Injection
<1>8. \A k \in Rows : \E i \in 1..c : s[i] = k
  BY <1>7 DEF Surjection
<1>9. \A k \in Rows : k \in Places /\ simRows[k] \in Row
  BY StateTypes DEF Rows
<1>10. /\ DOMAIN used = 1..c
       /\ \A i \in 1..c : used[i].place = s[i] /\ used[i].row = simRows[s[i]] /\ used[i] \in Used
  <2>1. DOMAIN used = 1..c /\ \A i \in 1..c : used[i] = [place |-> s[i], row |-> simRows[s[i]]]
    BY <1>4
  <2>2. \A i \in 1..c : s[i] \in Places /\ simRows[s[i]] \in Row
    BY <1>4, <1>9
  <2> QED
    BY <2>1, <2>2 DEF Used
<1>11. used \in Seq(Used)
  BY <1>3, <1>10
<1>12. {used[i].place : i \in DOMAIN used} = Rows
  BY <1>4, <1>8, <1>10
<1>13. \A i \in DOMAIN used : used[i].row = simRows[used[i].place]
  BY <1>10
<1>14. \A i, j \in DOMAIN used : i < j => used[i].row.seq <= used[j].row.seq
  BY <1>4, <1>10
<1> QED
  BY <1>11, <1>12, <1>13, <1>14 DEF IsCurrent

LEMMA LoadKeeps ==
  ASSUME IInv, NEW n \in Numbers, NEW d \in 1..2, Load(n, d)
  PROVE  IInv'
<1>1. /\ simJobs[n][d].at = "load"
      /\ UNCHANGED <<simStatus, simCreated, simRows, simRuns, simActors, simLate, simFaults>>
  BY DEF Load
<1>2. PICK at, read :
        /\ StepTo(n, d, at, read) /\ at \in {"fail run", "result"}
        /\ \/ at = "fail run" /\ read = None
           \/ read \in Seq(Used) /\ IsCurrent(read)
  <2>1. CASE simStatus = None
    BY <2>1 DEF Load, Step, StepTo
  <2>2. CASE simStatus # None
    <3>1. PICK s \in Readings :
            simJobs' = [simJobs EXCEPT ![n][d] =
              [at |-> IF \E i \in DOMAIN s : simRows[s[i]].kind = "throws" THEN "fail run"
                      ELSE "result",
               read |-> [i \in DOMAIN s |-> [place |-> s[i], row |-> simRows[s[i]]]]]]
      BY <2>2 DEF Load
    <3>2. PICK used : used = [i \in DOMAIN s |-> [place |-> s[i], row |-> simRows[s[i]]]]
      OBVIOUS
    <3>3. used \in Seq(Used) /\ IsCurrent(used)
      BY <3>2, ReadingIsCurrent
    <3>4. PICK at : at = IF \E i \in DOMAIN s : simRows[s[i]].kind = "throws" THEN "fail run"
                         ELSE "result"
      OBVIOUS
    <3>5. StepTo(n, d, at, used)
      BY <3>1, <3>2, <3>4 DEF StepTo
    <3>6. at \in {"fail run", "result"}
      BY <3>4
    <3> QED
      BY <3>3, <3>5, <3>6
  <2> QED
    BY <2>1, <2>2
<1>3. at \in Ends /\ at \in Unsettled /\ at \in Unfinished
      /\ at \notin {"deltas", "complete run", "dead"}
  BY <1>2 DEF Ends, Unsettled, Unfinished, InTry, InCatch
<1>4. read \in Seq(Used) \cup {None}
      /\ (at = "result" => read # None /\ (~simLate /\ simStatus # None => IsCurrent(read)))
  BY <1>2, SimAssumption
<1>5. simJobs[n][d].at # "none" /\ simJobs[n][1].at # "none"
  BY <1>1, AtWork
<1>6. simFaults' \in 0..MaxSimFaults
  BY <1>1, StateTypes
<1> QED
  BY <1>1, <1>2, <1>3, <1>4, <1>5, <1>6, AloneKeeps

\* The results come once, and are those of the overrides there are.
LEMMA InsertResultKeeps ==
  ASSUME IInv, NEW n \in Numbers, NEW d \in 1..2, InsertResult(n, d)
  PROVE  IInv'
<1>1. /\ simJobs[n][d].at = "result"
      /\ UNCHANGED <<simStatus, simCreated, simRows, simActors, simLate, simFaults>>
  BY DEF InsertResult
<1>2. simJobs[n][d].at # "none" /\ simJobs[n][1].at # "none"
  BY <1>1, AtWork
<1>3. simFaults' \in 0..MaxSimFaults
  BY <1>1, StateTypes
<1>4. CASE UNCHANGED simRuns /\ Step(n, d, "fail run")
  <2>1. PICK at \in Ends : /\ at = "fail run" /\ at \in Unsettled /\ at \in Unfinished
                           /\ at \notin {"deltas", "complete run", "dead", "result"}
    <3>1. PICK at : at = "fail run"
      OBVIOUS
    <3>2. at \in Ends /\ at \in Unsettled /\ at \in Unfinished
          /\ at \notin {"deltas", "complete run", "dead", "result"}
      BY <3>1 DEF Ends, Unsettled, Unfinished, InCatch
    <3> QED
      BY <3>1, <3>2
  <2>2. StepTo(n, d, at, None)
    BY <1>4, <2>1 DEF Step, StepTo
  <2> QED
    BY <1>1, <1>2, <1>3, <1>4, <2>1, <2>2, AloneKeeps
<1>5. CASE /\ simRuns[n] # None /\ simRuns[n].result = None /\ Step(n, d, "deltas")
           /\ simRuns' = [simRuns EXCEPT ![n].result = simJobs[n][d].read]
  <2>1. PICK read, row : read = simJobs[n][d].read /\ row = [simRuns[n] EXCEPT !.result = read]
    OBVIOUS
  <2>2. simRuns[n] \in SimRun /\ simStatus # None
    BY <1>5, RunRow
  <2>3. read \in Seq(Used)
    <3>1. read # None
      BY <1>1, <2>1 DEF IInv, JobShape
    <3>2. simJobs[n][d] \in SimJob
      BY StateTypes
    <3> QED
      BY <2>1, <3>1, <3>2 DEF SimJob
  <2>4. /\ row \in SimRun /\ row.result = read
        /\ row.status = simRuns[n].status /\ row.deltas = simRuns[n].deltas
    BY <2>1, <2>2, <2>3 DEF SimRun
  <2>5. simRuns' = [simRuns EXCEPT ![n] = row]
    BY <1>5, <2>1
  <2>6. /\ simRuns' \in [Numbers -> SimRun \cup {None}]
        /\ \A m \in Numbers : m # n => simRuns'[m] = simRuns[m]
        /\ simRuns'[n] = row /\ row # None
    BY <2>4, <2>5, StateTypes, SimAssumption
  <2>7. PICK at \in Ends : /\ at = "deltas" /\ at \in Unsettled /\ at \in Unfinished
                           /\ at \notin {"complete run", "dead", "result"}
    <3>1. PICK at : at = "deltas"
      OBVIOUS
    <3>2. at \in Ends /\ at \in Unsettled /\ at \in Unfinished
          /\ at \notin {"complete run", "dead", "result"}
      BY <3>1 DEF Ends, Unsettled, Unfinished, InTry
    <3> QED
      BY <3>1, <3>2
  <2>8. StepTo(n, d, at, None)
    BY <1>5, <2>7 DEF Step, StepTo
  <2>9. /\ simJobs'[n][d].at = "deltas"
        /\ \A e \in 1..2 : e # d => simJobs'[n][e] = simJobs[n][e]
    BY <2>7, <2>8, Stepped
  <2>10. RunShape(n) /\ JobShape(n)
    BY DEF IInv
  <2>11. simRuns[n].deltas = 0 /\ ~Tries(n, {"deltas", "complete run"})
    BY <1>5, <2>10 DEF RunShape
  <2>12. \A e \in 1..2 : simJobs'[n][e].at \in {"deltas", "complete run"} => e = d
    BY <2>9, <2>11 DEF Tries
  <2>13. ~Tries(n, {"complete run"})'
    BY <2>9, <2>12 DEF Tries
  <2>14. read # None /\ simRuns[n].status # "completed"
    <3>1. simRuns[n].status # "completed"
      BY <1>5, <2>10 DEF RunShape
    <3> QED
      BY <2>3, <3>1, SimAssumption
  <2>15. ~simLate' => IsCurrent(simRuns[n].result)'
    <3>1. ~simLate => IsCurrent(read)
      BY <1>1, <2>1, <2>2, <2>10 DEF JobShape
    <3>2. simRuns'[n].result = read
      BY <2>4, <2>6
    <3> QED
      BY <1>1, <3>1, <3>2 DEF IsCurrent, Rows
  <2>16. RunShape(n)'
    <3>1. /\ simRuns'[n].result = read /\ simRuns'[n].deltas = 0
          /\ simRuns'[n].status # "completed"
      BY <2>4, <2>6, <2>11, <2>14
    <3>2. \A e \in 1..2 : simJobs'[n][e].at = "deltas" =>
            \A c \in 1..2 : simJobs'[n][c].at \in {"deltas", "complete run"} => c = e
      BY <2>12
    <3>3. ~simLate' => IsCurrent(simRuns[n].result)'
      BY <2>15
    <3> QED
      BY <2>13, <2>14, <3>1, <3>2, <3>3 DEF RunShape
  <2>17. simRuns'[n] = None <=> simRuns[n] = None
    BY <1>5, <2>6
  <2> QED
    BY <1>1, <1>2, <1>3, <2>6, <2>7, <2>8, <2>16, <2>17, TryKeeps
<1> QED
  BY <1>4, <1>5 DEF InsertResult

LEMMA InsertDeltasKeeps ==
  ASSUME IInv, NEW n \in Numbers, NEW d \in 1..2, InsertDeltas(n, d)
  PROVE  IInv'
<1>1. /\ simJobs[n][d].at = "deltas"
      /\ UNCHANGED <<simStatus, simCreated, simRows, simActors, simLate, simFaults>>
  BY DEF InsertDeltas
<1>2. simJobs[n][d].at # "none" /\ simJobs[n][1].at # "none"
  BY <1>1, AtWork
<1>3. simFaults' \in 0..MaxSimFaults
  BY <1>1, StateTypes
<1>4. CASE simRuns[n] = None
  <2>1. PICK at \in Ends : /\ at = "fail run" /\ at \in Unsettled /\ at \in Unfinished
                           /\ at \notin {"deltas", "complete run", "dead", "result"}
    <3>1. PICK at : at = "fail run"
      OBVIOUS
    <3>2. at \in Ends /\ at \in Unsettled /\ at \in Unfinished
          /\ at \notin {"deltas", "complete run", "dead", "result"}
      BY <3>1 DEF Ends, Unsettled, Unfinished, InCatch
    <3> QED
      BY <3>1, <3>2
  <2>2. StepTo(n, d, at, None) /\ UNCHANGED simRuns
    BY <1>4, <2>1 DEF InsertDeltas, Step, StepTo
  <2> QED
    BY <1>1, <1>2, <1>3, <2>1, <2>2, AloneKeeps
<1>5. CASE simRuns[n] # None
  <2>1. PICK row : row = [simRuns[n] EXCEPT !.deltas = @ + 1]
    OBVIOUS
  <2>2. simRuns[n] \in SimRun /\ simStatus # None
    BY <1>5, RunRow
  <2>3. RunShape(n) /\ simRuns[n].deltas = 0 /\ simRuns[n].result # None
        /\ \A e \in 1..2 : simJobs[n][e].at \in {"deltas", "complete run"} => e = d
    <3>1. RunShape(n)
      BY DEF IInv
    <3>2. Tries(n, {"deltas", "complete run"})
      BY <1>1 DEF Tries
    <3> QED
      BY <1>1, <1>5, <3>1, <3>2 DEF RunShape
  <2>4. /\ row \in SimRun /\ row.result = simRuns[n].result
        /\ row.status = simRuns[n].status /\ row.deltas = 1
    <3>1. simRuns[n].deltas + 1 = 1
      <4>1. simRuns[n].deltas = 0
        BY <2>3
      <4> QED
        BY <4>1
    <3>2. row = [simRuns[n] EXCEPT !.deltas = 1]
      BY <2>1, <3>1
    <3>3. 1 \in Nat
      OBVIOUS
    <3> QED
      BY <2>2, <3>2, <3>3 DEF SimRun
  <2>5. simRuns' = [simRuns EXCEPT ![n] = row] /\ Step(n, d, "complete run")
    BY <1>5, <2>1 DEF InsertDeltas
  <2>6. /\ simRuns' \in [Numbers -> SimRun \cup {None}]
        /\ \A m \in Numbers : m # n => simRuns'[m] = simRuns[m]
        /\ simRuns'[n] = row /\ row # None
    BY <2>4, <2>5, StateTypes, SimAssumption
  <2>7. PICK at \in Ends : /\ at = "complete run" /\ at \in Unsettled /\ at \in Unfinished
                           /\ at \notin {"deltas", "dead", "result"}
    <3>1. PICK at : at = "complete run"
      OBVIOUS
    <3>2. at \in Ends /\ at \in Unsettled /\ at \in Unfinished
          /\ at \notin {"deltas", "dead", "result"}
      BY <3>1 DEF Ends, Unsettled, Unfinished, InTry
    <3> QED
      BY <3>1, <3>2
  <2>8. StepTo(n, d, at, None)
    BY <2>5, <2>7 DEF Step, StepTo
  <2>9. /\ simJobs'[n][d].at = "complete run"
        /\ \A e \in 1..2 : e # d => simJobs'[n][e] = simJobs[n][e]
    BY <2>7, <2>8, Stepped
  <2>10. \A e \in 1..2 : simJobs'[n][e].at # "deltas"
    BY <2>3, <2>9
  <2>11. ~Tries(n, {"deltas"})'
    BY <2>10 DEF Tries
  <2>12. ~simLate' => IsCurrent(simRuns[n].result)'
    <3>1. ~simLate => IsCurrent(simRuns[n].result)
      BY <1>5, <2>3 DEF RunShape
    <3>2. simRuns'[n].result = simRuns[n].result
      BY <2>4, <2>6
    <3> QED
      BY <1>1, <3>1, <3>2 DEF IsCurrent, Rows
  <2>13. RunShape(n)'
    BY <2>3, <2>4, <2>6, <2>10, <2>11, <2>12 DEF RunShape
  <2>14. simRuns'[n] = None <=> simRuns[n] = None
    BY <1>5, <2>6
  <2> QED
    BY <1>1, <1>2, <1>3, <2>6, <2>7, <2>8, <2>13, <2>14, TryKeeps
<1> QED
  BY <1>4, <1>5

LEMMA CompleteRunKeeps ==
  ASSUME IInv, NEW n \in Numbers, NEW d \in 1..2, CompleteRun(n, d)
  PROVE  IInv'
<1>1. /\ simJobs[n][d].at = "complete run" /\ SetRun(n, "completed")
      /\ UNCHANGED <<simStatus, simCreated, simRows, simActors, simLate, simFaults>>
  BY DEF CompleteRun
<1>2. simJobs[n][d].at # "none" /\ simJobs[n][1].at # "none"
  BY <1>1, AtWork
<1>3. simFaults' \in 0..MaxSimFaults
  BY <1>1, StateTypes
<1>4. /\ simRuns' \in [Numbers -> SimRun \cup {None}]
      /\ \A m \in Numbers : m # n => simRuns'[m] = simRuns[m]
      /\ simRuns'[n] = None <=> simRuns[n] = None
      /\ simRuns[n] # None =>
           /\ simRuns'[n].status = "completed"
           /\ simRuns'[n].result = simRuns[n].result /\ simRuns'[n].deltas = simRuns[n].deltas
  BY <1>1, SetRunIs
<1>5. PICK at \in Ends : /\ at = "complete simulation" /\ at \in Unsettled
                         /\ at \notin {"deltas", "complete run", "dead", "result"}
  <2>1. PICK at : at = "complete simulation"
    OBVIOUS
  <2>2. at \in Ends /\ at \in Unsettled /\ at \notin {"deltas", "complete run", "dead", "result"}
    BY <2>1 DEF Ends, Unsettled, InTry
  <2> QED
    BY <2>1, <2>2
<1>6. StepTo(n, d, at, None)
  BY <1>5 DEF CompleteRun, Step, StepTo
<1>7. ASSUME simRuns[n] # None
      PROVE  simRuns[n].result # None /\ simRuns[n].deltas = 1 /\ ~Tries(n, {"deltas"})
  <2>1. RunShape(n) /\ Tries(n, {"complete run"}) /\ Tries(n, {"deltas", "complete run"})
    BY <1>1 DEF IInv, Tries
  <2>2. simRuns[n].result # None /\ simRuns[n].deltas = 1
    BY <1>7, <2>1 DEF RunShape
  <2>3. \A e \in 1..2 : simJobs[n][e].at # "deltas"
    <3>1. SUFFICES ASSUME NEW e \in 1..2, simJobs[n][e].at = "deltas" PROVE FALSE
      OBVIOUS
    <3>2. \A c \in 1..2 : simJobs[n][c].at \in {"deltas", "complete run"} => c = e
      BY <1>7, <2>1, <3>1 DEF RunShape
    <3>3. d = e
      BY <1>1, <3>2
    <3> QED
      BY <1>1, <3>1, <3>3
  <2> QED
    BY <2>2, <2>3 DEF Tries
<1>8. RunShape(n)'
  BY <1>1, <1>4, <1>5, <1>6, <1>7, RunShapeKeeps
<1>9. ~(simRuns'[n] # None /\ simRuns'[n].status \in {"pending", "running"})
  BY <1>4
<1> QED
  BY <1>1, <1>2, <1>3, <1>4, <1>5, <1>6, <1>8, <1>9, TryKeeps
-----------------------------------------------------------------------------
LEMMA InitKeeps == Init => IInv
<1> SUFFICES ASSUME Init PROVE IInv
  OBVIOUS
<1>1. SimTypeOK
  <2>1. \A a \in SimActors : simActors[a] = Idle
    BY DEF Init
  <2>2. simActors = [a \in SimActors |-> [at |-> simActors[a].at, read |-> simActors[a].read,
                                          what |-> simActors[a].what]]
    <3>1. simActors = [a \in SimActors |-> Idle]
      BY DEF Init
    <3> QED
      BY <2>1, <3>1 DEF Idle
  <2>3. \A a \in SimActors : simActors[a].read \in Statuses \cup {None} /\ Holds(a)
    <3>1. \A a \in SimActors :
            simActors[a].at = "idle" /\ simActors[a].read = None /\ simActors[a].what = None
      BY <2>1 DEF Idle
    <3> QED
      BY <3>1 DEF Holds
  <2>4. NoJob \in SimJob
    BY DEF NoJob, SimJob
  <2>5. simFaults \in 0..MaxSimFaults
    BY SimAssumption DEF Init
  <2> QED
    BY <2>2, <2>3, <2>4, <2>5 DEF Init, SimTypeOK
<1>2. \A n \in Numbers, d \in 1..2 : simJobs[n][d].at = "none"
  BY DEF Init, NoJob
<1>3. \A n \in Numbers : simRuns[n] = None /\ simJobs[n][1].at = "none" /\ simJobs[n][2].at = "none"
  BY DEF Init, NoJob
<1>4. \A a \in SimActors : simActors[a].at = "idle"
  BY DEF Init, Idle
<1>5. Untouched /\ Gone /\ Drafts /\ \A a \in SimActors : Queued(a)
  BY <1>3, <1>4 DEF Init, Untouched, Gone, Drafts, Queued, Queues, Writing, Queueing
<1>6. \A n \in Numbers : JobShape(n) /\ RunShape(n)
  BY <1>2, <1>3 DEF JobShape, RunShape
<1>7. PendingIsAwaited /\ \A n \in Numbers : Awaited(n)
  BY <1>3, SimAssumption DEF Init, PendingIsAwaited, Awaited, Statuses
<1> QED
  BY <1>1, <1>5, <1>6, <1>7 DEF IInv

LEMMA StutterKeeps == ASSUME IInv, UNCHANGED simVars PROVE IInv'
<1>1. UNCHANGED <<simStatus, simCreated, simRows, simRuns, simJobs, simActors, simLate, simFaults>>
  BY DEF simVars
<1>2. SimTypeOK'
  BY <1>1 DEF IInv, SimTypeOK, Holds
<1>3. Untouched' /\ Gone' /\ Drafts'
  BY <1>1 DEF IInv, Untouched, Gone, Drafts
<1>4. (Sealed <=> Sealed') /\ Onward
  BY <1>1 DEF Sealed, Onward
<1>5. \A a \in SimActors : Queued(a)'
  BY <1>1, <1>4 DEF IInv, Queued, Queues
<1>6. \A n \in Numbers : JobShape(n)' /\ RunShape(n)'
  BY <1>1, <1>3, <1>4, OtherRuns
<1>7. simFaults' = 0 => PendingIsAwaited' /\ \A n \in Numbers : Awaited(n)'
  BY <1>1 DEF IInv, PendingIsAwaited, Awaited, Queues
<1> QED
  BY <1>2, <1>3, <1>5, <1>6, <1>7 DEF IInv

LEMMA NextKeeps == ASSUME IInv, [Next]_simVars PROVE IInv'
<1>1. ASSUME NEW a \in SimActors, Request(a) PROVE IInv'
  <2>1. CASE \E template \in {<<>>, SimTemplate} : Create(a, template)
    BY <2>1, CreateKeeps
  <2>2. CASE CopyOverride(a) \/ InsertOverride(a)
    BY <2>2, InsertKeeps
  <2>3. CASE AskOverride(a) \/ AskRemove(a) \/ AskUpdate(a) \/ AskRun(a)
    BY <2>3, AskKeeps
  <2>4. CASE DeleteOverride(a) \/ Update(a)
    BY <2>4, ChangeKeeps
  <2>5. CASE Delete(a)
    BY <2>5, DeleteKeeps
  <2>6. CASE InsertRun(a)
    BY <2>6, InsertRunKeeps
  <2>7. CASE SetPending(a)
    BY <2>7, SetPendingKeeps
  <2>8. CASE Enqueue(a)
    BY <2>8, EnqueueKeeps
  <2>9. CASE RequestFails(a)
    BY <2>9, RequestFailsKeeps
  <2> QED
    BY <1>1, <2>1, <2>2, <2>3, <2>4, <2>5, <2>6, <2>7, <2>8, <2>9 DEF Request
<1>2. ASSUME NEW n \in Numbers, NEW d \in 1..2, Process(n, d) PROVE IInv'
  <2>1. CASE MarkRunning(n, d) \/ FailRun(n, d)
    BY <2>1, MarkKeeps
  <2>2. CASE Load(n, d)
    BY <2>2, LoadKeeps
  <2>3. CASE InsertResult(n, d)
    BY <2>3, InsertResultKeeps
  <2>4. CASE InsertDeltas(n, d)
    BY <2>4, InsertDeltasKeeps
  <2>5. CASE CompleteRun(n, d)
    BY <2>5, CompleteRunKeeps
  <2>6. CASE CompleteSimulation(n, d) \/ FailSimulation(n, d) \/ Audit(n, d)
    BY <2>6, SettleKeeps
  <2>7. CASE Throws(n, d) \/ Dies(n, d)
    BY <2>7, FaultKeeps
  <2> QED
    BY <1>2, <2>1, <2>2, <2>3, <2>4, <2>5, <2>6, <2>7 DEF Process
<1>3. ASSUME NEW n \in Numbers, Stalled(n) PROVE IInv'
  BY <1>3, StalledKeeps
<1>4. CASE UNCHANGED simVars
  BY <1>4, StutterKeeps
<1> QED
  BY <1>1, <1>2, <1>3, <1>4 DEF Next

LEMMA InvariantImplies == ASSUME IInv PROVE SimulationInv
<1>1. CompletedIsWhole
  <2>1. ASSUME NEW n \in Numbers, simRuns[n] # None, simRuns[n].status = "completed"
        PROVE  simRuns[n].result # None /\ simRuns[n].deltas = 1
    BY <2>1 DEF IInv, RunShape
  <2> QED
    BY <2>1 DEF CompletedIsWhole
<1>2. ResultsAreCurrent
  <2>1. ASSUME ~simLate, NEW n \in Numbers, simRuns[n] # None, simRuns[n].status = "completed"
        PROVE  IsCurrent(simRuns[n].result)
    <3>1. RunShape(n)
      BY DEF IInv
    <3>2. simRuns[n].result # None
      BY <2>1, <3>1 DEF RunShape
    <3> QED
      BY <2>1, <3>1, <3>2 DEF RunShape
  <2> QED
    BY <2>1 DEF ResultsAreCurrent
<1>3. WaitingHasACause
  <2>1. SUFFICES ASSUME \A a \in SimActors : simActors[a].at = "idle",
                        \A n \in Numbers, d \in 1..2 : ~Working(n, d), simFaults = 0
                 PROVE  /\ simStatus # "pending"
                        /\ \A n \in Numbers : simRuns[n] # None =>
                             simRuns[n].status \notin {"pending", "running"}
    BY DEF WaitingHasACause
  <2>2. \A a \in SimActors, n \in Numbers : ~Queues(a, n)
    BY <2>1 DEF Queues, Queueing
  <2>3. \A n \in Numbers : simJobs[n][1].at \notin InTry \cup InCatch
    BY <2>1 DEF Working
  <2>4. Unsettled \subseteq InTry \cup InCatch /\ Unfinished \subseteq InTry \cup InCatch
    BY DEF Unsettled, Unfinished, InTry, InCatch
  <2>5. simStatus # "pending"
    <3>1. PendingIsAwaited
      BY <2>1 DEF IInv
    <3>2. ~ \E n \in Numbers : simJobs[n][1].at \in Unsettled
      BY <2>3, <2>4
    <3>3. ~ \E a \in SimActors : simActors[a].at = "enqueue"
      BY <2>1
    <3> QED
      BY <3>1, <3>2, <3>3 DEF PendingIsAwaited, Unsettled
  <2>6. ASSUME NEW n \in Numbers, simRuns[n] # None
        PROVE  simRuns[n].status \notin {"pending", "running"}
    <3>1. Awaited(n)
      BY <2>1 DEF IInv
    <3> QED
      BY <2>2, <2>3, <2>4, <2>6, <3>1 DEF Awaited, Unfinished
  <2> QED
    BY <2>5, <2>6
<1> QED
  BY <1>1, <1>2, <1>3 DEF IInv, SimulationInv

\* Whatever requests and tries of its jobs do to a simulation, in whatever order: a
\* completed run has its result and its deltas once, the results are those of the
\* overrides the simulation has unless a write came late, and what waits waits for
\* somebody or something failed (the simulation routes, processSimulationRunJob).
THEOREM SimulationIsRight == Spec => []SimulationInv
<1>1. Init => IInv
  BY InitKeeps
<1>2. IInv /\ [Next]_simVars => IInv'
  BY NextKeeps
<1>3. IInv => SimulationInv
  BY InvariantImplies
<1> QED
  BY <1>1, <1>2, <1>3, PTL DEF Spec

-----------------------------------------------------------------------------
(***************************************************************************)
(* RevRecJobs                                                              *)
(***************************************************************************)
\* The obligations a run has inserted of a version, before the n-th, and their rows.
Inserted(j, r, v, n) == {<<j, r, v, k>> : k \in 1..(n - 1)}
Filled(q) == {Parts[i] : i \in 1..(q - 1)}
Before(j) == Inserted(j, revJobs[j].run, revJobs[j].version, revJobs[j].number)

\* All obligations of one version with all their rows, or none.
Whole ==
  /\ \/ revObls = {}
     \/ \E j \in RevJobs, r \in 1..MaxRuns, v \in Versions :
          revObls = Inserted(j, r, v, NumObligations + 1)
  /\ revParts = revObls \X Tables

\* What a job works on, of the kind its place is in.
Kinds(j) ==
  LET job == revJobs[j] IN
  /\ job.at \in {"row"} \cup InRow => job.kind = "compute" /\ job.left \subseteq Versions
  /\ job.at \in InRow => job.version \in Versions
  /\ job.at \in InReconcile => job.kind = "reconcile"
  /\ job.at \in {"deletePeriod", "insertRec"} => job.left \subseteq Periods

\* The contract while a job that overlaps with no other works on it.
Own(j) ==
  LET job == revJobs[j] IN
  /\ job.at \in {"insertObl", "insertPart"} =>
       \A o \in revObls : o[1] = j /\ o[2] = job.run /\ o[3] = job.version
  /\ job.at \in {"deleteParts", "deleteObls"} => job.ids = revObls
  /\ job.at = "deleteRecs" => revObls = {}
  /\ job.at = "insertRec" => \A r \in revRecs : r[3] \notin job.left

\* And while nothing fails.
Tidy(j) ==
  LET job == revJobs[j] IN
  /\ job.at \in {"load", "row", "check", "ids"} \cup InReconcile => Whole
  /\ job.at \in {"deleteParts", "deleteObls"} => revParts \subseteq revObls \X Tables
  /\ job.at = "deleteRecs" => revParts = {}
  /\ job.at = "insertObl" => revObls = Before(j) /\ revParts = revObls \X Tables
  /\ job.at = "insertPart" =>
       /\ revObls = Before(j) \cup {Jobs!Current(j)}
       /\ revParts = (Before(j) \X Tables) \cup ({Jobs!Current(j)} \X Filled(job.part))

JobsInv ==
  /\ RevRecTypeOK
  /\ \A j \in RevJobs : Kinds(j)
  /\ "overlap" \notin revFaults =>
       /\ \A j, k \in RevJobs : BusyRev(j) /\ BusyRev(k) => j = k
       /\ RecognizedOnce /\ ReconciledOnce
       /\ \A j \in RevJobs : BusyRev(j) => Own(j)
  /\ revFaults = {} =>
       /\ \A j \in RevJobs : BusyRev(j) => Tidy(j)
       /\ (\A j \in RevJobs : ~BusyRev(j)) => Whole
-----------------------------------------------------------------------------
\* A step of a job that is busy leaves the other jobs alone: what it owes is what
\* the invariant says of itself and of the rows.
LEMMA OneJob ==
  ASSUME JobsInv, NEW j \in RevJobs, BusyRev(j), NEW row \in RevJob, Jobs!Move(j, row),
         revObls' \subseteq Obligations, revParts' \subseteq Obligations \X Tables,
         revRecs' \subseteq RevJobs \X (1..MaxRuns) \X Periods,
         revFaults' = revFaults \/ revFaults' = revFaults \cup {"failure"}
           \/ revFaults' = revFaults \cup {"death"},
         Kinds(j)',
         "overlap" \notin revFaults => RecognizedOnce' /\ ReconciledOnce' /\ Own(j)',
         revFaults' = {} => IF row.at \in {"idle", "ended"} THEN Whole' ELSE Tidy(j)'
  PROVE  JobsInv'
<1>1. revJobs' \in [RevJobs -> RevJob] /\ revJobs'[j] = row
      /\ \A k \in RevJobs : k # j => revJobs'[k] = revJobs[k]
  BY DEF JobsInv, RevRecTypeOK, Jobs!Move
<1>2. RevRecTypeOK'
  BY <1>1 DEF RevRecTypeOK, JobsInv
<1>3. \A k \in RevJobs : Kinds(k)'
  BY <1>1 DEF JobsInv, Kinds
<1>4. ASSUME "overlap" \notin revFaults'
      PROVE  /\ \A k, l \in RevJobs : BusyRev(k)' /\ BusyRev(l)' => k = l
             /\ RecognizedOnce' /\ ReconciledOnce'
             /\ \A k \in RevJobs : BusyRev(k)' => Own(k)'
  <2>1. "overlap" \notin revFaults
    BY <1>4
  <2>2. \A k \in RevJobs : k # j => ~BusyRev(k)
    BY <2>1 DEF JobsInv
  <2>3. \A k \in RevJobs : k # j => ~BusyRev(k)'
    BY <1>1, <2>2 DEF BusyRev, AtRev
  <2> QED
    BY <2>1, <2>3
<1>5. ASSUME revFaults' = {}
      PROVE  /\ \A k \in RevJobs : BusyRev(k)' => Tidy(k)'
             /\ (\A k \in RevJobs : ~BusyRev(k)') => Whole'
  <2>1. revFaults = {}
    BY <1>5
  <2>2. \A k \in RevJobs : k # j => ~BusyRev(k)
    BY <2>1 DEF JobsInv
  <2>3. \A k \in RevJobs : k # j => ~BusyRev(k)'
    BY <1>1, <2>2 DEF BusyRev, AtRev
  <2>4. BusyRev(j)' <=> row.at \notin {"idle", "ended"}
    BY <1>1 DEF BusyRev, AtRev
  <2> QED
    BY <1>5, <2>3, <2>4
<1> QED
  BY <1>2, <1>3, <1>4, <1>5 DEF JobsInv

\* The same for a step that leaves the rows alone.
LEMMA Reads ==
  ASSUME JobsInv, NEW j \in RevJobs, BusyRev(j), NEW row \in RevJob, Jobs!Move(j, row),
         UNCHANGED <<revObls, revParts, revRecs, revFaults>>,
         Kinds(j)',
         "overlap" \notin revFaults => Own(j)',
         revFaults = {} => IF row.at \in {"idle", "ended"} THEN Whole ELSE Tidy(j)'
  PROVE  JobsInv'
<1>1. Whole' <=> Whole
  BY DEF Whole
<1>2. "overlap" \notin revFaults => RecognizedOnce' /\ ReconciledOnce'
  BY DEF JobsInv, RecognizedOnce, ReconciledOnce
<1>3. /\ revObls' \subseteq Obligations /\ revParts' \subseteq Obligations \X Tables
      /\ revRecs' \subseteq RevJobs \X (1..MaxRuns) \X Periods
  BY DEF JobsInv, RevRecTypeOK
<1> QED
  BY <1>1, <1>2, <1>3, OneJob

LEMMA QueueKeeps == ASSUME JobsInv, NEW j \in RevJobs, Jobs!Queue(j) PROVE JobsInv'
<1>1. PICK force \in BOOLEAN, kind \in {"compute", "reconcile"} :
        Jobs!Move(j, [revJobs[j] EXCEPT !.at = "load", !.kind = kind, !.force = force])
  BY DEF Jobs!Queue
<1> DEFINE row == [revJobs[j] EXCEPT !.at = "load", !.kind = kind, !.force = force]
<1>2. row \in RevJob /\ row.at = "load"
  BY DEF JobsInv, RevRecTypeOK, RevJob
<1> HIDE DEF row
<1>3. revJobs' \in [RevJobs -> RevJob] /\ revJobs'[j] = row
      /\ \A k \in RevJobs : k # j => revJobs'[k] = revJobs[k]
  BY <1>1, <1>2 DEF JobsInv, RevRecTypeOK, Jobs!Move, row
<1>4. UNCHANGED <<revObls, revParts, revRecs>>
      /\ revFaults' = IF \E k \in RevJobs : BusyRev(k) THEN revFaults \cup {"overlap"} ELSE revFaults
  BY DEF Jobs!Queue, Jobs!BusyRev, Jobs!AtRev, BusyRev, AtRev
<1>5. RevRecTypeOK'
  BY <1>3, <1>4 DEF JobsInv, RevRecTypeOK
<1>6. \A k \in RevJobs : Kinds(k)'
  BY <1>2, <1>3 DEF JobsInv, Kinds, InRow, InReconcile
<1>7. CASE \E k \in RevJobs : BusyRev(k)
  BY <1>4, <1>5, <1>6, <1>7 DEF JobsInv
<1>8. CASE \A k \in RevJobs : ~BusyRev(k)
  <2>1. \A k \in RevJobs : BusyRev(k)' => k = j
    BY <1>3, <1>8 DEF BusyRev, AtRev
  <2>2. BusyRev(j)' /\ Own(j)'
    BY <1>2, <1>3 DEF BusyRev, AtRev, Own
  <2>3. revFaults' = revFaults /\ (Whole' <=> Whole)
    BY <1>4, <1>8 DEF Whole
  <2>4. "overlap" \notin revFaults' => RecognizedOnce' /\ ReconciledOnce'
    BY <1>4, <2>3 DEF JobsInv, RecognizedOnce, ReconciledOnce
  <2>5. revFaults' = {} => Tidy(j)'
    BY <1>2, <1>3, <1>8, <2>3 DEF JobsInv, Tidy, InRow, InReconcile
  <2> QED
    BY <1>5, <1>6, <2>1, <2>2, <2>3, <2>4, <2>5 DEF JobsInv
<1> QED
  BY <1>7, <1>8

\* What the rows of a busy job say of it, after a step that gives it 'row'.
LEMMA Moved ==
  ASSUME JobsInv, NEW j \in RevJobs, NEW row, Jobs!Move(j, row)
  PROVE  revJobs'[j] = row /\ revJobs[j] \in RevJob
BY DEF JobsInv, RevRecTypeOK, Jobs!Move

LEMMA LoadRowsKeeps == ASSUME JobsInv, NEW j \in RevJobs, Jobs!Load(j) PROVE JobsInv'
<1> DEFINE row == [revJobs[j] EXCEPT !.at = "row", !.left = Versions]
<1>1. Jobs!Move(j, row) /\ UNCHANGED <<revObls, revParts, revRecs, revFaults>>
      /\ revJobs[j].at = "load" /\ revJobs[j].kind = "compute"
  BY DEF Jobs!Load
<1>2. revJobs'[j] = row /\ revJobs[j] \in RevJob
  BY <1>1, Moved
<1>3. row \in RevJob /\ row.at = "row" /\ row.kind = "compute" /\ row.left = Versions
  BY <1>1, <1>2 DEF RevJob
<1> HIDE DEF row
<1>4. BusyRev(j) /\ Kinds(j)' /\ Own(j)'
  BY <1>1, <1>2, <1>3 DEF BusyRev, AtRev, Kinds, InRow, InReconcile, Own
<1>5. revFaults = {} => Tidy(j)'
  BY <1>1, <1>2, <1>3, <1>4 DEF JobsInv, Tidy, InRow, InReconcile, Whole
<1> QED
  BY <1>1, <1>3, <1>4, <1>5, Reads

LEMMA NextRowKeeps == ASSUME JobsInv, NEW j \in RevJobs, Jobs!NextRow(j) PROVE JobsInv'
<1>1. PICK v \in revJobs[j].left :
        Jobs!Move(j, [revJobs[j] EXCEPT !.at = IF revJobs[j].force THEN "ids" ELSE "check",
                                   !.version = v, !.left = revJobs[j].left \ {v}])
  BY DEF Jobs!NextRow
<1> DEFINE row == [revJobs[j] EXCEPT !.at = IF revJobs[j].force THEN "ids" ELSE "check",
                                     !.version = v, !.left = revJobs[j].left \ {v}]
<1>2. Jobs!Move(j, row) /\ UNCHANGED <<revObls, revParts, revRecs, revFaults>>
      /\ revJobs[j].at = "row"
  BY <1>1 DEF Jobs!NextRow
<1>3. revJobs'[j] = row /\ revJobs[j] \in RevJob
  BY <1>2, Moved
<1>4. revJobs[j].kind = "compute" /\ revJobs[j].left \subseteq Versions
  BY <1>2 DEF JobsInv, Kinds
<1>5. row \in RevJob /\ row.at \in {"ids", "check"} /\ row.kind = "compute"
      /\ row.version \in Versions /\ row.left \subseteq Versions
  BY <1>3, <1>4 DEF RevJob, InRow
<1> HIDE DEF row
<1>6. BusyRev(j) /\ Kinds(j)' /\ Own(j)'
  BY <1>2, <1>3, <1>5 DEF BusyRev, AtRev, Kinds, InRow, InReconcile, Own
<1>7. revFaults = {} => Tidy(j)'
  BY <1>2, <1>3, <1>5, <1>6 DEF JobsInv, Tidy, InRow, InReconcile, Whole
<1>8. row.at \notin {"idle", "ended"}
  BY <1>5
<1> QED
  BY <1>2, <1>5, <1>6, <1>7, <1>8, Reads

LEMMA EndComputeKeeps == ASSUME JobsInv, NEW j \in RevJobs, Jobs!EndCompute(j) PROVE JobsInv'
<1> DEFINE row == [revJobs[j] EXCEPT !.at = "ended"]
<1>1. Jobs!Move(j, row) /\ UNCHANGED <<revObls, revParts, revRecs, revFaults>>
      /\ revJobs[j].at = "row"
  BY DEF Jobs!EndCompute, Jobs!Goes
<1>2. revJobs'[j] = row /\ revJobs[j] \in RevJob
  BY <1>1, Moved
<1>3. row \in RevJob /\ row.at = "ended"
  BY <1>2 DEF RevJob
<1> HIDE DEF row
<1>4. BusyRev(j) /\ Kinds(j)' /\ Own(j)'
  BY <1>1, <1>2, <1>3 DEF BusyRev, AtRev, Kinds, InRow, InReconcile, Own
<1>5. revFaults = {} => Whole
  BY <1>1, <1>4 DEF JobsInv, Tidy
<1> QED
  BY <1>1, <1>3, <1>4, <1>5, Reads

\* Back between two contracts: to the next version, or the end.
LEMMA ClearIs ==
  ASSUME JobsInv, NEW j \in RevJobs, NEW at, at \in {"row", "load", "ended"}
  PROVE  /\ Jobs!Clear(j, at) \in RevJob /\ Jobs!Clear(j, at).at = at
         /\ Jobs!Clear(j, at).kind = revJobs[j].kind /\ Jobs!Clear(j, at).left = revJobs[j].left
         /\ Jobs!Clear(j, at).run = revJobs[j].run
<1>1. revJobs[j] \in RevJob /\ 1 \in 1..NumObligations /\ 1 \in 1..Len(Parts)
  BY RevRecAssumption, LenProperties DEF JobsInv, RevRecTypeOK
<1> QED
  BY <1>1 DEF Jobs!Clear, RevJob

LEMMA FirstIs ==
  ASSUME JobsInv, NEW j \in RevJobs
  PROVE  /\ Jobs!FirstObl(j) \in RevJob /\ Jobs!FirstObl(j).at = "insertObl" /\ Jobs!FirstObl(j).number = 1
         /\ Jobs!FirstObl(j).kind = revJobs[j].kind /\ Jobs!FirstObl(j).left = revJobs[j].left
         /\ Jobs!FirstObl(j).run = revJobs[j].run /\ Jobs!FirstObl(j).version = revJobs[j].version
<1>1. revJobs[j] \in RevJob /\ 1 \in 1..NumObligations
  BY RevRecAssumption DEF JobsInv, RevRecTypeOK
<1> QED
  BY <1>1 DEF Jobs!FirstObl, RevJob, InRow

\* The first obligation is inserted where there is none.
LEMMA FirstOwns ==
  ASSUME JobsInv, NEW j \in RevJobs, Jobs!Move(j, Jobs!FirstObl(j)), revJobs[j].at \in InRow,
         revObls' = {}, revFaults = {} => revParts' = {}
  PROVE  Kinds(j)' /\ Own(j)' /\ (revFaults = {} => Tidy(j)')
<1>1. revJobs'[j] = Jobs!FirstObl(j)
  BY Moved
<1>2. Kinds(j)' /\ Own(j)'
  BY <1>1, FirstIs DEF JobsInv, Kinds, Own, InRow, InReconcile
<1>3. Before(j)' = {}
  BY <1>1, FirstIs DEF Before, Inserted
<1>4. revFaults = {} => Tidy(j)'
  <2>1. revFaults = {} => revParts' = revObls' \X Tables
    OBVIOUS
  <2> QED
    BY <1>1, <1>3, <2>1, FirstIs DEF Tidy, InReconcile
<1> QED
  BY <1>2, <1>4

LEMMA CheckKeeps == ASSUME JobsInv, NEW j \in RevJobs, Jobs!CheckExisting(j) PROVE JobsInv'
<1>1. UNCHANGED <<revObls, revParts, revRecs, revFaults>> /\ revJobs[j].at = "check"
  BY DEF Jobs!CheckExisting
<1>2. BusyRev(j) /\ revJobs[j].kind = "compute" /\ revJobs[j].left \subseteq Versions
  BY <1>1 DEF BusyRev, AtRev, JobsInv, Kinds, InRow
<1>3. revFaults = {} => Whole
  BY <1>1, <1>2 DEF JobsInv, Tidy
<1>4. CASE revObls # {}
  <2>1. Jobs!Move(j, Jobs!Clear(j, "row"))
    BY <1>4 DEF Jobs!CheckExisting
  <2>2. revJobs'[j] = Jobs!Clear(j, "row")
    BY <2>1, Moved
  <2>3. Kinds(j)' /\ Own(j)' /\ (revFaults = {} => Tidy(j)')
    BY <1>1, <1>2, <1>3, <2>2, ClearIs DEF Kinds, Own, Tidy, InRow, InReconcile, Whole
  <2> QED
    BY <1>1, <1>2, <2>1, <2>3, ClearIs, Reads
<1>5. CASE revObls = {}
  <2>1. Jobs!Move(j, Jobs!FirstObl(j)) /\ revJobs[j].at \in InRow
    BY <1>1, <1>5 DEF Jobs!CheckExisting, InRow
  <2>2. revObls' = {} /\ (revFaults = {} => revParts' = {})
    BY <1>1, <1>3, <1>5 DEF Whole
  <2>3. Kinds(j)' /\ Own(j)' /\ (revFaults = {} => Tidy(j)')
    BY <2>1, <2>2, FirstOwns
  <2> QED
    BY <1>1, <1>2, <2>1, <2>3, FirstIs, Reads
<1> QED
  BY <1>4, <1>5

LEMMA ReadIdsKeeps == ASSUME JobsInv, NEW j \in RevJobs, Jobs!ReadIds(j) PROVE JobsInv'
<1>1. UNCHANGED <<revObls, revParts, revRecs, revFaults>> /\ revJobs[j].at = "ids"
  BY DEF Jobs!ReadIds
<1>2. BusyRev(j) /\ revJobs[j].kind = "compute" /\ revJobs[j].left \subseteq Versions
      /\ revJobs[j].version \in Versions
  BY <1>1 DEF BusyRev, AtRev, JobsInv, Kinds, InRow
<1>3. revFaults = {} => Whole
  BY <1>1, <1>2 DEF JobsInv, Tidy
<1>4. CASE revObls # {}
  <2> DEFINE row == [revJobs[j] EXCEPT !.at = "deleteParts", !.ids = revObls, !.part = Len(Parts)]
  <2>1. Jobs!Move(j, row)
    BY <1>4 DEF Jobs!ReadIds
  <2>2. revJobs'[j] = row /\ revJobs[j] \in RevJob
    BY <2>1, Moved
  <2>3. row \in RevJob /\ row.at = "deleteParts" /\ row.ids = revObls /\ row.kind = "compute"
        /\ row.left = revJobs[j].left /\ row.version = revJobs[j].version
    <3>1. revObls \in SUBSET Obligations /\ Len(Parts) \in 1..Len(Parts)
      BY RevRecAssumption, LenProperties DEF JobsInv, RevRecTypeOK
    <3> QED
      BY <1>2, <2>2, <3>1 DEF RevJob, InRow
  <2> HIDE DEF row
  <2>4. Kinds(j)' /\ Own(j)' /\ (revFaults = {} => Tidy(j)')
    BY <1>1, <1>2, <1>3, <2>2, <2>3 DEF Kinds, Own, Tidy, InRow, InReconcile, Whole
  <2> QED
    BY <1>1, <1>2, <2>1, <2>3, <2>4, Reads
<1>5. CASE revObls = {}
  <2>1. Jobs!Move(j, Jobs!FirstObl(j)) /\ revJobs[j].at \in InRow
    BY <1>1, <1>5 DEF Jobs!ReadIds, InRow
  <2>2. revObls' = {} /\ (revFaults = {} => revParts' = {})
    BY <1>1, <1>3, <1>5 DEF Whole
  <2>3. Kinds(j)' /\ Own(j)' /\ (revFaults = {} => Tidy(j)')
    BY <2>1, <2>2, FirstOwns
  <2> QED
    BY <1>1, <1>2, <2>1, <2>3, FirstIs, Reads
<1> QED
  BY <1>4, <1>5

\* Where the rows of the contract stand in a type.
LEMMA RowTypes ==
  ASSUME JobsInv
  PROVE  /\ revObls \subseteq Obligations /\ revParts \subseteq Obligations \X Tables
         /\ revRecs \subseteq RevJobs \X (1..MaxRuns) \X Periods
BY DEF JobsInv, RevRecTypeOK

LEMMA DeletePartsKeeps == ASSUME JobsInv, NEW j \in RevJobs, Jobs!DeleteParts(j) PROVE JobsInv'
<1> DEFINE row == IF revJobs[j].part > 1 THEN [revJobs[j] EXCEPT !.part = @ - 1]
                  ELSE [revJobs[j] EXCEPT !.at = "deleteObls"]
<1>1. /\ Jobs!Move(j, row) /\ UNCHANGED <<revObls, revRecs, revFaults>>
      /\ revJobs[j].at = "deleteParts" /\ revParts' \subseteq revParts
  BY DEF Jobs!DeleteParts
<1>2. revJobs'[j] = row /\ revJobs[j] \in RevJob
  BY <1>1, Moved
<1>3. row \in RevJob /\ row.at \in {"deleteParts", "deleteObls"} /\ row.ids = revJobs[j].ids
      /\ row.kind = revJobs[j].kind /\ row.left = revJobs[j].left
      /\ row.version = revJobs[j].version
  <2>1. CASE revJobs[j].part > 1
    <3>1. revJobs[j].part - 1 \in 1..Len(Parts)
      BY <1>2, <2>1, RevRecAssumption, LenProperties DEF RevJob
    <3> QED
      BY <1>1, <1>2, <2>1, <3>1 DEF RevJob
  <2>2. CASE ~(revJobs[j].part > 1)
    BY <1>1, <1>2, <2>2 DEF RevJob, InRow
  <2> QED
    BY <2>1, <2>2
<1> HIDE DEF row
<1>4. BusyRev(j) /\ Kinds(j)'
  BY <1>1, <1>2, <1>3 DEF BusyRev, AtRev, JobsInv, Kinds, InRow, InReconcile
<1>5. "overlap" \notin revFaults => RecognizedOnce' /\ ReconciledOnce' /\ Own(j)'
  BY <1>1, <1>2, <1>3, <1>4 DEF JobsInv, Own, RecognizedOnce, ReconciledOnce
<1>6. revFaults = {} => Tidy(j)'
  BY <1>1, <1>2, <1>3, <1>4 DEF JobsInv, Tidy, InReconcile
<1>7. row.at \notin {"idle", "ended"}
  BY <1>3
<1> QED
  BY <1>1, <1>3, <1>4, <1>5, <1>6, <1>7, RowTypes, OneJob

LEMMA DeleteOblsKeeps == ASSUME JobsInv, NEW j \in RevJobs, Jobs!DeleteObls(j) PROVE JobsInv'
<1> DEFINE row == [revJobs[j] EXCEPT !.at = "deleteRecs", !.ids = {}]
<1>1. /\ Jobs!Move(j, row) /\ UNCHANGED <<revRecs, revFaults>>
      /\ revJobs[j].at = "deleteObls" /\ revObls' = revObls \ revJobs[j].ids
      /\ revParts' = {p \in revParts : p[1] \notin revJobs[j].ids}
  BY DEF Jobs!DeleteObls
<1>2. revJobs'[j] = row /\ revJobs[j] \in RevJob
  BY <1>1, Moved
<1>3. row \in RevJob /\ row.at = "deleteRecs" /\ row.kind = revJobs[j].kind
      /\ row.left = revJobs[j].left /\ row.version = revJobs[j].version
  BY <1>1, <1>2 DEF RevJob, InRow
<1> HIDE DEF row
<1>4. BusyRev(j) /\ Kinds(j)'
  BY <1>1, <1>2, <1>3 DEF BusyRev, AtRev, JobsInv, Kinds, InRow, InReconcile
<1>5. "overlap" \notin revFaults => revObls' = {}
  BY <1>1, <1>4 DEF JobsInv, Own
<1>6. "overlap" \notin revFaults => RecognizedOnce' /\ ReconciledOnce' /\ Own(j)'
  BY <1>1, <1>2, <1>3, <1>5 DEF JobsInv, Own, RecognizedOnce, ReconciledOnce
<1>7. revFaults = {} => Tidy(j)'
  <2>1. SUFFICES ASSUME revFaults = {} PROVE Tidy(j)'
    OBVIOUS
  <2>2. revJobs[j].ids = revObls /\ revParts \subseteq revObls \X Tables
    BY <1>1, <1>4, <2>1 DEF JobsInv, Own, Tidy
  <2>3. revParts' = {}
    BY <1>1, <2>2
  <2> QED
    BY <1>2, <1>3, <2>3 DEF Tidy, InReconcile
<1>8. revObls' \subseteq revObls /\ revParts' \subseteq revParts
  BY <1>1
<1> QED
  BY <1>1, <1>3, <1>4, <1>6, <1>7, <1>8, RowTypes, OneJob

LEMMA DeleteRecsKeeps == ASSUME JobsInv, NEW j \in RevJobs, Jobs!DeleteRecs(j) PROVE JobsInv'
<1>1. /\ Jobs!Move(j, Jobs!FirstObl(j)) /\ UNCHANGED <<revObls, revParts, revFaults>>
      /\ revJobs[j].at = "deleteRecs" /\ revRecs' = {}
  BY DEF Jobs!DeleteRecs
<1>2. BusyRev(j) /\ revJobs[j].at \in InRow
  BY <1>1 DEF BusyRev, AtRev, InRow
<1>3. "overlap" \notin revFaults => revObls' = {}
  BY <1>1, <1>2 DEF JobsInv, Own
<1>4. revFaults = {} => revObls' = {} /\ revParts' = {}
  BY <1>1, <1>2, <1>3 DEF JobsInv, Tidy
<1>5. revJobs'[j] = Jobs!FirstObl(j)
  BY <1>1, Moved
<1>6. Kinds(j)'
  BY <1>2, <1>5, FirstIs DEF JobsInv, Kinds, InRow, InReconcile
<1>7. "overlap" \notin revFaults => RecognizedOnce' /\ ReconciledOnce' /\ Own(j)'
  BY <1>1, <1>3, <1>5, FirstIs DEF Own, RecognizedOnce, ReconciledOnce
<1>8. revFaults = {} => Tidy(j)'
  <2>1. SUFFICES ASSUME revFaults = {} PROVE Tidy(j)'
    OBVIOUS
  <2> QED
    BY <1>1, <1>2, <1>4, <2>1, FirstOwns
<1> QED
  BY <1>1, <1>2, <1>6, <1>7, <1>8, FirstIs, RowTypes, OneJob

LEMMA CurrentIs ==
  ASSUME JobsInv, NEW j \in RevJobs, revJobs[j].at \in {"insertObl", "insertPart"}
  PROVE  /\ Jobs!Current(j) \in Obligations
         /\ Jobs!Current(j)[1] = j /\ Jobs!Current(j)[2] = revJobs[j].run
         /\ Jobs!Current(j)[3] = revJobs[j].version
<1>1. revJobs[j] \in RevJob /\ revJobs[j].version \in Versions
  BY DEF JobsInv, RevRecTypeOK, Kinds, InRow
<1> QED
  BY <1>1 DEF Jobs!Current, Obligations, RevJob

LEMMA InsertOblKeeps == ASSUME JobsInv, NEW j \in RevJobs, Jobs!InsertObl(j) PROVE JobsInv'
<1> DEFINE row == [revJobs[j] EXCEPT !.at = "insertPart", !.part = 1]
<1>1. /\ Jobs!Move(j, row) /\ UNCHANGED <<revParts, revRecs, revFaults>>
      /\ revJobs[j].at = "insertObl" /\ revObls' = revObls \cup {Jobs!Current(j)}
  BY DEF Jobs!InsertObl
<1>2. revJobs'[j] = row /\ revJobs[j] \in RevJob
  BY <1>1, Moved
<1>3. row \in RevJob /\ row.at = "insertPart" /\ row.kind = revJobs[j].kind /\ row.part = 1
      /\ row.left = revJobs[j].left /\ row.version = revJobs[j].version
      /\ row.run = revJobs[j].run /\ row.number = revJobs[j].number
  <2>1. 1 \in 1..Len(Parts)
    BY RevRecAssumption, LenProperties
  <2> QED
    BY <1>1, <1>2, <2>1 DEF RevJob, InRow
<1> HIDE DEF row
<1>4. BusyRev(j) /\ Kinds(j)'
  BY <1>1, <1>2, <1>3 DEF BusyRev, AtRev, JobsInv, Kinds, InRow, InReconcile
<1>5. "overlap" \notin revFaults => RecognizedOnce' /\ ReconciledOnce' /\ Own(j)'
  <2>1. SUFFICES ASSUME "overlap" \notin revFaults PROVE RecognizedOnce' /\ ReconciledOnce' /\ Own(j)'
    OBVIOUS
  <2>2. \A o \in revObls' : o[1] = j /\ o[2] = revJobs[j].run /\ o[3] = revJobs[j].version
    BY <1>1, <1>4, <2>1, CurrentIs DEF JobsInv, Own
  <2>3. RecognizedOnce' /\ ReconciledOnce'
    BY <1>1, <2>1, <2>2 DEF JobsInv, RecognizedOnce, ReconciledOnce
  <2>4. Own(j)'
    BY <1>2, <1>3, <2>2 DEF Own
  <2> QED
    BY <2>3, <2>4
<1>6. revFaults = {} => Tidy(j)'
  <2>1. SUFFICES ASSUME revFaults = {} PROVE Tidy(j)'
    OBVIOUS
  <2>2. revObls = Before(j) /\ revParts = revObls \X Tables
    BY <1>1, <1>4, <2>1 DEF JobsInv, Tidy
  <2>3. Before(j)' = Before(j) /\ Jobs!Current(j)' = Jobs!Current(j)
    BY <1>2, <1>3 DEF Before, Inserted, Jobs!Current
  <2>4. Filled(1) = {}
    BY DEF Filled
  <2>5. revParts' = (Before(j)' \X Tables) \cup ({Jobs!Current(j)'} \X Filled(1))
    BY <1>1, <2>2, <2>3, <2>4
  <2> QED
    BY <1>1, <1>2, <1>3, <2>2, <2>3, <2>5 DEF Tidy, InReconcile
<1>7. revObls' \subseteq Obligations
  BY <1>1, RowTypes, CurrentIs
<1> QED
  BY <1>1, <1>3, <1>4, <1>5, <1>6, <1>7, RowTypes, OneJob

\* One obligation more, one table more.
LEMMA InsertedNext ==
  ASSUME NEW j, NEW r, NEW v, NEW n \in Nat \ {0}
  PROVE  Inserted(j, r, v, n + 1) = Inserted(j, r, v, n) \cup {<<j, r, v, n>>}
<1>1. 1..((n + 1) - 1) = (1..(n - 1)) \cup {n}
  OBVIOUS
<1> QED
  BY <1>1 DEF Inserted

LEMMA FilledNext ==
  ASSUME NEW q \in 1..Len(Parts)
  PROVE  /\ Filled(q + 1) = Filled(q) \cup {Parts[q]}
         /\ q = Len(Parts) => Filled(q + 1) = Tables
<1>1. Len(Parts) \in Nat
  BY RevRecAssumption, LenProperties
<1>2. 1..((q + 1) - 1) = (1..(q - 1)) \cup {q}
  BY <1>1
<1>3. q = Len(Parts) => 1..((q + 1) - 1) = 1..Len(Parts)
  BY <1>1
<1> QED
  BY <1>2, <1>3 DEF Filled, Tables

LEMMA InsertPartKeeps == ASSUME JobsInv, NEW j \in RevJobs, Jobs!InsertPart(j) PROVE JobsInv'
<1> DEFINE job == revJobs[j]
           row == IF job.part < Len(Parts) THEN [job EXCEPT !.part = @ + 1]
                  ELSE IF job.number < NumObligations
                  THEN [job EXCEPT !.at = "insertObl", !.number = @ + 1]
                  ELSE Jobs!Clear(j, "row")
<1>1. /\ Jobs!Move(j, row) /\ UNCHANGED <<revObls, revRecs, revFaults>>
      /\ job.at = "insertPart" /\ Jobs!Current(j) \in revObls
      /\ revParts' = revParts \cup {<<Jobs!Current(j), Parts[job.part]>>}
  BY DEF Jobs!InsertPart
<1>2. revJobs'[j] = row /\ job \in RevJob
  BY <1>1, Moved
<1>3. job.part \in 1..Len(Parts) /\ job.number \in 1..NumObligations
      /\ Len(Parts) \in Nat /\ NumObligations \in Nat
  BY <1>2, RevRecAssumption, LenProperties DEF RevJob
<1>4. BusyRev(j) /\ job.kind = "compute" /\ job.left \subseteq Versions /\ job.version \in Versions
  BY <1>1 DEF BusyRev, AtRev, JobsInv, Kinds, InRow
<1>5. revParts' \subseteq Obligations \X Tables
  <2>1. Parts[job.part] \in Tables
    BY <1>3 DEF Tables
  <2> QED
    BY <1>1, <2>1, RowTypes
<1>6. ASSUME "overlap" \notin revFaults PROVE RecognizedOnce' /\ ReconciledOnce'
  BY <1>1, <1>6 DEF JobsInv, RecognizedOnce, ReconciledOnce
<1>7. ASSUME "overlap" \notin revFaults
      PROVE  \A o \in revObls : o[1] = j /\ o[2] = job.run /\ o[3] = job.version
  BY <1>1, <1>4, <1>7 DEF JobsInv, Own
<1>8. ASSUME revFaults = {}
      PROVE  /\ revObls = Before(j) \cup {Jobs!Current(j)}
             /\ revParts' = (Before(j) \X Tables) \cup ({Jobs!Current(j)} \X Filled(job.part + 1))
  <2>1. /\ revObls = Before(j) \cup {Jobs!Current(j)}
        /\ revParts = (Before(j) \X Tables) \cup ({Jobs!Current(j)} \X Filled(job.part))
    BY <1>1, <1>4, <1>8 DEF JobsInv, Tidy
  <2>2. Filled(job.part + 1) = Filled(job.part) \cup {Parts[job.part]}
    BY <1>3, FilledNext
  <2> HIDE DEF job
  <2> QED
    BY <1>1, <2>1, <2>2
<1>9. CASE job.part < Len(Parts)
  <2>1. row \in RevJob /\ row.at = "insertPart" /\ row.kind = job.kind /\ row.part = job.part + 1
        /\ row.left = job.left /\ row.version = job.version
        /\ row.run = job.run /\ row.number = job.number
    <3>1. job.part + 1 \in 1..Len(Parts)
      BY <1>3, <1>9
    <3> QED
      BY <1>1, <1>2, <1>9, <3>1 DEF RevJob
  <2> HIDE DEF row
  <2>2. Kinds(j)'
    BY <1>2, <1>4, <2>1 DEF Kinds, InRow, InReconcile
  <2>3. "overlap" \notin revFaults => Own(j)'
    BY <1>1, <1>2, <1>7, <2>1 DEF Own
  <2>4. revFaults = {} => Tidy(j)'
    <3>1. Before(j)' = Before(j) /\ Jobs!Current(j)' = Jobs!Current(j)
      BY <1>2, <2>1 DEF Before, Inserted, Jobs!Current
    <3> QED
      BY <1>1, <1>2, <1>8, <2>1, <3>1 DEF Tidy, InReconcile
  <2> QED
    BY <1>1, <1>4, <1>5, <1>6, <2>1, <2>2, <2>3, <2>4, RowTypes, OneJob
<1>10. CASE ~(job.part < Len(Parts)) /\ job.number < NumObligations
  <2>1. row \in RevJob /\ row.at = "insertObl" /\ row.kind = job.kind
        /\ row.left = job.left /\ row.version = job.version
        /\ row.run = job.run /\ row.number = job.number + 1
    <3>1. job.number + 1 \in 1..NumObligations
      BY <1>3, <1>10
    <3> QED
      BY <1>1, <1>2, <1>10, <3>1 DEF RevJob, InRow
  <2> HIDE DEF row
  <2>2. Kinds(j)'
    BY <1>2, <1>4, <2>1 DEF Kinds, InRow, InReconcile
  <2>3. "overlap" \notin revFaults => Own(j)'
    BY <1>1, <1>2, <1>7, <2>1 DEF Own
  <2>4. revFaults = {} => Tidy(j)'
    <3>1. SUFFICES ASSUME revFaults = {} PROVE Tidy(j)'
      OBVIOUS
    <3>2. Before(j)' = Before(j) \cup {Jobs!Current(j)}
      <4>1. Before(j)' = Inserted(j, job.run, job.version, job.number + 1)
        BY <1>2, <2>1 DEF Before, Inserted
      <4>2. job.number \in Nat \ {0}
        BY <1>3
      <4> QED
        BY <4>1, <4>2, InsertedNext DEF Before, Jobs!Current
    <3>3. Filled(job.part + 1) = Tables
      BY <1>3, <1>10, FilledNext
    <3>4. revObls' = Before(j)' /\ revParts' = revObls' \X Tables
      BY <1>1, <1>8, <3>1, <3>2, <3>3
    <3> QED
      BY <1>2, <2>1, <3>4 DEF Tidy, InReconcile
  <2> QED
    BY <1>1, <1>4, <1>5, <1>6, <2>1, <2>2, <2>3, <2>4, RowTypes, OneJob
<1>11. CASE ~(job.part < Len(Parts)) /\ ~(job.number < NumObligations)
  <2>1. row = Jobs!Clear(j, "row")
    BY <1>11
  <2> HIDE DEF row
  <2>2. Kinds(j)'
    BY <1>2, <1>4, <2>1, ClearIs DEF Kinds, InRow, InReconcile
  <2>3. Own(j)'
    BY <1>2, <2>1, ClearIs DEF Own
  <2>4. revFaults = {} => Tidy(j)'
    <3>1. SUFFICES ASSUME revFaults = {} PROVE Tidy(j)'
      OBVIOUS
    <3>2. Filled(job.part + 1) = Tables /\ job.number = NumObligations
      BY <1>3, <1>11, FilledNext
    <3>3. revObls = Inserted(j, job.run, job.version, NumObligations + 1)
      <4>1. job.number \in Nat \ {0}
        BY <1>3
      <4>2. revObls = Before(j) \cup {Jobs!Current(j)}
        BY <1>8, <3>1
      <4> QED
        BY <3>2, <4>1, <4>2, InsertedNext DEF Before, Jobs!Current
    <3>4. revParts' = revObls \X Tables
      BY <1>8, <3>1, <3>2
    <3>5. job.run \in 1..MaxRuns
      BY <1>2 DEF RevJob
    <3>6. Whole'
      BY <1>1, <1>4, <3>3, <3>4, <3>5 DEF Whole
    <3> QED
      BY <1>2, <2>1, <3>6, ClearIs DEF Tidy, InRow, InReconcile
  <2> QED
    BY <1>1, <1>4, <1>5, <1>6, <2>1, <2>2, <2>3, <2>4, ClearIs, RowTypes, OneJob
<1> QED
  BY <1>9, <1>10, <1>11

LEMMA LoadSchedulesKeeps == ASSUME JobsInv, NEW j \in RevJobs, Jobs!LoadSchedules(j) PROVE JobsInv'
<1> DEFINE row == [revJobs[j] EXCEPT !.at = "invoices",
                                     !.ids = {o \in revObls : <<o, "schedules">> \in revParts}]
<1>1. Jobs!Move(j, row) /\ UNCHANGED <<revObls, revParts, revRecs, revFaults>>
      /\ revJobs[j].at = "load" /\ revJobs[j].kind = "reconcile"
  BY DEF Jobs!LoadSchedules
<1>2. revJobs'[j] = row /\ revJobs[j] \in RevJob
  BY <1>1, Moved
<1>3. row \in RevJob /\ row.at = "invoices" /\ row.kind = "reconcile" /\ row.left = revJobs[j].left
  BY <1>1, <1>2, RowTypes DEF RevJob, InReconcile
<1> HIDE DEF row
<1>4. BusyRev(j)
  BY <1>1 DEF BusyRev, AtRev
<1>6. Kinds(j)' /\ Own(j)'
  BY <1>1, <1>2, <1>3 DEF Kinds, InRow, InReconcile, Own
<1>7. revFaults = {} => Tidy(j)'
  BY <1>1, <1>2, <1>3, <1>4 DEF JobsInv, Tidy, InRow, InReconcile, Whole
<1> QED
  BY <1>1, <1>3, <1>4, <1>6, <1>7, Reads

LEMMA LoadInvoicesKeeps == ASSUME JobsInv, NEW j \in RevJobs, Jobs!LoadInvoices(j) PROVE JobsInv'
<1>1. PICK periods \in SUBSET Periods :
        Jobs!Move(j, [revJobs[j] EXCEPT !.at = IF periods = {} THEN "ended" ELSE "deletePeriod",
                                   !.left = periods, !.ids = {}])
  BY DEF Jobs!LoadInvoices
<1> DEFINE row == [revJobs[j] EXCEPT !.at = IF periods = {} THEN "ended" ELSE "deletePeriod",
                                     !.left = periods, !.ids = {}]
<1>2. Jobs!Move(j, row) /\ UNCHANGED <<revObls, revParts, revRecs, revFaults>>
      /\ revJobs[j].at = "invoices"
  BY <1>1 DEF Jobs!LoadInvoices
<1>3. revJobs'[j] = row /\ revJobs[j] \in RevJob
  BY <1>2, Moved
<1>4. row \in RevJob /\ row.at \in {"ended", "deletePeriod"} /\ row.left \subseteq Periods
      /\ row.kind = "reconcile"
  BY <1>2, <1>3 DEF RevJob, InReconcile, JobsInv, Kinds
<1> HIDE DEF row
<1>5. BusyRev(j) /\ Kinds(j)' /\ Own(j)'
  BY <1>2, <1>3, <1>4 DEF BusyRev, AtRev, Kinds, InRow, InReconcile, Own
<1>6. revFaults = {} => Whole
  BY <1>2, <1>5 DEF JobsInv, Tidy, InReconcile
<1>7. revFaults = {} => Tidy(j)'
  BY <1>2, <1>3, <1>4, <1>6 DEF Tidy, InRow, InReconcile, Whole
<1> QED
  BY <1>2, <1>4, <1>5, <1>6, <1>7, Reads

LEMMA DeletePeriodKeeps == ASSUME JobsInv, NEW j \in RevJobs, Jobs!DeletePeriod(j) PROVE JobsInv'
<1> DEFINE row == [revJobs[j] EXCEPT !.at = "insertRec"]
<1>1. Jobs!Move(j, row) /\ UNCHANGED <<revObls, revParts, revFaults>>
      /\ revJobs[j].at = "deletePeriod" /\ revRecs' = {}
  BY DEF Jobs!DeletePeriod, Jobs!Goes
<1>2. revJobs'[j] = row /\ revJobs[j] \in RevJob
  BY <1>1, Moved
<1>3. row \in RevJob /\ row.at = "insertRec" /\ row.left = revJobs[j].left
      /\ row.kind = revJobs[j].kind
  BY <1>1, <1>2 DEF RevJob, InReconcile
<1> HIDE DEF row
<1>4. BusyRev(j) /\ Kinds(j)'
  BY <1>1, <1>2, <1>3 DEF BusyRev, AtRev, JobsInv, Kinds, InRow, InReconcile
<1>5. "overlap" \notin revFaults => RecognizedOnce' /\ ReconciledOnce' /\ Own(j)'
  BY <1>1, <1>2, <1>3 DEF JobsInv, Own, RecognizedOnce, ReconciledOnce
<1>6. revFaults = {} => Tidy(j)'
  BY <1>1, <1>2, <1>3, <1>4 DEF JobsInv, Tidy, InRow, InReconcile, Whole
<1> QED
  BY <1>1, <1>3, <1>4, <1>5, <1>6, RowTypes, OneJob

LEMMA InsertRecKeeps == ASSUME JobsInv, NEW j \in RevJobs, Jobs!InsertRec(j) PROVE JobsInv'
<1>1. PICK p \in revJobs[j].left :
        /\ revRecs' = revRecs \cup {<<j, revJobs[j].run, p>>}
        /\ Jobs!Move(j, [revJobs[j] EXCEPT !.at = IF revJobs[j].left = {p} THEN "ended" ELSE "insertRec",
                                      !.left = revJobs[j].left \ {p}])
  BY DEF Jobs!InsertRec
<1> DEFINE row == [revJobs[j] EXCEPT !.at = IF revJobs[j].left = {p} THEN "ended" ELSE "insertRec",
                                     !.left = revJobs[j].left \ {p}]
<1>2. Jobs!Move(j, row) /\ UNCHANGED <<revObls, revParts, revFaults>> /\ revJobs[j].at = "insertRec"
  BY <1>1 DEF Jobs!InsertRec
<1>3. revJobs'[j] = row /\ revJobs[j] \in RevJob
  BY <1>2, Moved
<1>4. row \in RevJob /\ row.at \in {"ended", "insertRec"} /\ row.left = revJobs[j].left \ {p}
      /\ row.kind = "reconcile"
  BY <1>2, <1>3 DEF RevJob, JobsInv, Kinds, InReconcile
<1> HIDE DEF row
<1>5. BusyRev(j) /\ revJobs[j].left \subseteq Periods /\ revJobs[j].run \in 1..MaxRuns
  BY <1>2, <1>3 DEF BusyRev, AtRev, JobsInv, Kinds, InReconcile, RevJob
<1>6. Kinds(j)'
  BY <1>3, <1>4, <1>5 DEF Kinds, InRow, InReconcile
<1>7. "overlap" \notin revFaults => RecognizedOnce' /\ ReconciledOnce' /\ Own(j)'
  <2>1. SUFFICES ASSUME "overlap" \notin revFaults PROVE RecognizedOnce' /\ ReconciledOnce' /\ Own(j)'
    OBVIOUS
  <2>2. RecognizedOnce /\ ReconciledOnce /\ \A r \in revRecs : r[3] \notin revJobs[j].left
    BY <1>2, <1>5, <2>1 DEF JobsInv, Own
  <2>3. RecognizedOnce'
    BY <1>2, <2>2 DEF RecognizedOnce
  <2>4. ReconciledOnce'
    BY <1>1, <1>2, <2>1, <2>2 DEF ReconciledOnce
  <2>5. Own(j)'
    BY <1>1, <1>3, <1>4, <2>2 DEF Own
  <2> QED
    BY <2>3, <2>4, <2>5
<1>8. revFaults = {} => Whole /\ Whole'
  BY <1>2, <1>5 DEF JobsInv, Tidy, InReconcile, Whole
<1>9. revFaults = {} => Tidy(j)'
  BY <1>3, <1>4, <1>8 DEF Tidy, InRow, InReconcile
<1>10. revRecs' \subseteq RevJobs \X (1..MaxRuns) \X Periods
  BY <1>1, <1>5, RowTypes
<1> QED
  BY <1>2, <1>4, <1>5, <1>6, <1>7, <1>8, <1>9, <1>10, RowTypes, OneJob

LEMMA StopKeeps == ASSUME JobsInv, NEW j \in RevJobs, Jobs!Fails(j) \/ Jobs!Dies(j) PROVE JobsInv'
<1> DEFINE Stop(row) ==
      /\ row \in RevJob /\ row.at \in {"row", "load", "ended"}
      /\ row.at = "row" => row.kind = "compute" /\ row.left \subseteq Versions
<1>1. UNCHANGED <<revObls, revParts, revRecs>>
      /\ (revFaults' = revFaults \cup {"failure"} \/ revFaults' = revFaults \cup {"death"})
      /\ BusyRev(j)
  BY DEF Jobs!Fails, Jobs!Dies, Jobs!BusyRev, Jobs!AtRev, BusyRev, AtRev
<1>2. revJobs[j] \in RevJob
  BY DEF JobsInv, RevRecTypeOK
<1>3. PICK row : Jobs!Move(j, row) /\ Stop(row)
  <2>1. [Jobs!Clear(j, "ended") EXCEPT !.left = {}] \in RevJob
        /\ [Jobs!Clear(j, "ended") EXCEPT !.left = {}].at = "ended"
    BY ClearIs DEF RevJob
  <2>2. CASE Jobs!Fails(j)
    <3>1. CASE revJobs[j].kind = "compute" /\ revJobs[j].at # "load"
      <4>1. revJobs[j].left \subseteq Versions
        BY <1>2, <2>2, <3>1 DEF Jobs!Fails, JobsInv, Kinds, RevJob, InRow, InReconcile
      <4> QED
        BY <2>2, <3>1, <4>1, ClearIs DEF Jobs!Fails
    <3>2. CASE ~(revJobs[j].kind = "compute" /\ revJobs[j].at # "load")
      BY <2>1, <2>2, <3>2 DEF Jobs!Fails
    <3> QED
      BY <3>1, <3>2
  <2>3. CASE Jobs!Dies(j)
    <3>1. CASE revJobs[j].run < MaxRuns
      <4> DEFINE row == [Jobs!Clear(j, "load") EXCEPT !.run = revJobs[j].run + 1, !.left = {}]
      <4>1. revJobs[j].run + 1 \in 1..MaxRuns
        BY <1>2, <3>1, RevRecAssumption DEF RevJob
      <4>2. row \in RevJob /\ row.at = "load"
        BY <4>1, ClearIs DEF RevJob
      <4>3. Jobs!Move(j, row)
        BY <2>3, <3>1 DEF Jobs!Dies
      <4> QED
        BY <4>2, <4>3
    <3>2. CASE ~(revJobs[j].run < MaxRuns)
      BY <2>1, <2>3, <3>2 DEF Jobs!Dies
    <3> QED
      BY <3>1, <3>2
  <2> QED
    BY <2>2, <2>3
<1>4. revJobs'[j] = row
  BY <1>3, Moved
<1>5. Kinds(j)' /\ Own(j)'
  BY <1>3, <1>4 DEF Kinds, Own, InRow, InReconcile
<1>6. "overlap" \notin revFaults => RecognizedOnce' /\ ReconciledOnce'
  BY <1>1 DEF JobsInv, RecognizedOnce, ReconciledOnce
<1>7. revFaults' # {}
  BY <1>1
<1> QED
  BY <1>1, <1>3, <1>5, <1>6, <1>7, RowTypes, OneJob

LEMMA JobsInitKeeps == Jobs!Init => JobsInv
<1>1. SUFFICES ASSUME Jobs!Init PROVE JobsInv
  OBVIOUS
<1>2. 1 \in 1..NumObligations /\ 1 \in 1..Len(Parts) /\ 1 \in 1..MaxRuns
  BY RevRecAssumption, LenProperties
<1>3. RevRecTypeOK
  BY <1>1, <1>2 DEF Jobs!Init, RevRecTypeOK, RevJob
<1>4. \A j \in RevJobs : revJobs[j].at = "idle"
  BY <1>1 DEF Jobs!Init
<1>5. \A j \in RevJobs : Kinds(j) /\ ~BusyRev(j)
  BY <1>4 DEF Kinds, InRow, InReconcile, BusyRev, AtRev
<1>6. Whole /\ RecognizedOnce /\ ReconciledOnce
  BY <1>1 DEF Jobs!Init, Whole, RecognizedOnce, ReconciledOnce
<1> QED
  BY <1>3, <1>5, <1>6 DEF JobsInv

LEMMA JobsNextKeep == ASSUME JobsInv, [Jobs!Next]_revVars PROVE JobsInv'
<1>1. ASSUME NEW j \in RevJobs,
             Jobs!Queue(j) \/ Jobs!Compute(j) \/ Jobs!ReconcileSteps(j) \/ Jobs!Fails(j) \/ Jobs!Dies(j)
      PROVE  JobsInv'
  BY <1>1, QueueKeeps, LoadRowsKeeps, NextRowKeeps, EndComputeKeeps, CheckKeeps, ReadIdsKeeps,
     DeletePartsKeeps, DeleteOblsKeeps, DeleteRecsKeeps, InsertOblKeeps, InsertPartKeeps,
     LoadSchedulesKeeps, LoadInvoicesKeeps, DeletePeriodKeeps, InsertRecKeeps, StopKeeps
  DEF Jobs!Compute, Jobs!ReconcileSteps
<1>2. CASE UNCHANGED revVars
  BY <1>2 DEF JobsInv, revVars, RevRecTypeOK, Kinds, RecognizedOnce, ReconciledOnce, BusyRev, AtRev,
              Own, Tidy, Whole, Before, Jobs!Current
<1> QED
  BY <1>1, <1>2 DEF Jobs!Next

\* The obligations of a version are as many as were computed.
LEMMA CountInserted ==
  ASSUME NEW j, NEW r, NEW v, NEW n \in Nat
  PROVE  Cardinality(Inserted(j, r, v, n + 1)) = n
<1> DEFINE f == [k \in 1..n |-> <<j, r, v, k>>]
<1>1. (n + 1) - 1 = n
  OBVIOUS
<1>2. f \in Bijection(1..n, Inserted(j, r, v, n + 1))
  <2>1. f \in [1..n -> Inserted(j, r, v, n + 1)]
    BY <1>1 DEF Inserted
  <2>2. \A a, b \in 1..n : f[a] = f[b] => a = b
    OBVIOUS
  <2>3. \A o \in Inserted(j, r, v, n + 1) : \E k \in 1..n : f[k] = o
    BY <1>1 DEF Inserted
  <2> HIDE DEF f
  <2> QED
    BY <2>1, <2>2, <2>3, Fun_IsBij
<1>3. IsFiniteSet(1..n) /\ Cardinality(1..n) = n
  BY FS_Interval
<1> HIDE DEF f
<1>4. ExistsBijection(1..n, Inserted(j, r, v, n + 1))
  BY <1>2 DEF ExistsBijection
<1> QED
  BY <1>3, <1>4, FS_Bijection

LEMMA JobsInvImplies == JobsInv => RevenueInv
<1>1. SUFFICES ASSUME JobsInv PROVE RevenueInv
  OBVIOUS
<1>2. RecognizedOnce /\ ReconciledOnce
  BY <1>1 DEF JobsInv, RecognizedOnce, ReconciledOnce
<1>3. ASSUME Whole
      PROVE  Cardinality(revObls) \in {0, NumObligations} /\ revParts = revObls \X Tables
  <2>1. CASE revObls = {}
    BY <1>3, <2>1, FS_EmptySet DEF Whole
  <2>2. CASE revObls # {}
    <3>1. PICK j \in RevJobs, r \in 1..MaxRuns, v \in Versions :
            revObls = Inserted(j, r, v, NumObligations + 1)
      BY <1>3, <2>2 DEF Whole
    <3>2. NumObligations \in Nat
      BY RevRecAssumption
    <3>3. Cardinality(revObls) = NumObligations
      BY <3>1, <3>2, CountInserted
    <3> QED
      BY <1>3, <3>3 DEF Whole
  <2> QED
    BY <2>1, <2>2
<1>4. WholeOrFailed
  BY <1>1, <1>3 DEF JobsInv, WholeOrFailed
<1> QED
  BY <1>1, <1>2, <1>4 DEF JobsInv, RevenueInv

\* Whatever jobs are queued, however many obligations, versions, tables and periods
\* there are, and whatever fails or dies on the way: revenue is recognized once, what
\* no job works on is whole, a period has one reconciliation (revrec-compute.ts,
\* revrec-reconcile.ts).
THEOREM RevenueIsRight == Jobs!Spec => []RevenueInv
<1>1. Jobs!Spec => []JobsInv
  BY JobsInitKeeps, JobsNextKeep, PTL DEF Jobs!Spec, Jobs!revVars, revVars
<1> QED
  BY <1>1, JobsInvImplies, PTL

(***************************************************************************)
(* Sums                                                                    *)
(***************************************************************************)
\* The lowest of a set of numbers.
LEMMA Lowest ==
  ASSUME NEW S, S \subseteq Nat, S # {}
  PROVE  \E d \in S : \A e \in S : d <= e
<1>1. PICK d \in S : \A e \in S : ~(<<e, d>> \in OpToRel(<, Nat))
  BY WFMin, NatLessThanWellFounded, Zenon
<1>2. ASSUME NEW e \in S, e < d PROVE FALSE
  <2>1. <<e, d>> \in Nat \X Nat
    OBVIOUS
  <2>2. <<e, d>> \in OpToRel(<, Nat)
    BY <1>2, <2>1, Zenon DEF OpToRel
  <2> QED
    BY <1>1, <2>2
<1> QED
  BY <1>2

\* What holds of no number, and of a number with one more, holds of all.
LEMMA Upwards ==
  ASSUME NEW B, NEW n \in Nat, 0 \in B, \A k \in 0..(n - 1) : k \in B => k + 1 \in B
  PROVE  n \in B
<1> DEFINE Bad == {k \in 0..n : k \notin B}
<1>1. CASE Bad # {}
  <2>1. PICK d \in Bad : \A e \in Bad : d <= e
    <3>1. Bad \subseteq Nat
      OBVIOUS
    <3> QED
      BY <1>1, <3>1, Lowest
  <2>2. d \in Nat /\ d # 0 /\ d - 1 \in 0..(n - 1) /\ d - 1 \notin Bad
    BY <2>1
  <2>3. d - 1 \in B /\ d - 1 + 1 = d
    BY <2>2
  <2> QED
    BY <2>1, <2>2, <2>3
<1> QED
  BY <1>1

LEMMA OneLess ==
  ASSUME NEW s, IsFiniteSet(s), NEW x \in s
  PROVE  /\ IsFiniteSet(s \ {x}) /\ Cardinality(s) \in Nat
         /\ Cardinality(s \ {x}) \in Nat /\ Cardinality(s) = Cardinality(s \ {x}) + 1
<1>1. IsFiniteSet(s \ {x}) /\ Cardinality(s \ {x}) = Cardinality(s) - 1
  BY FS_RemoveElement
<1>2. Cardinality(s) \in Nat /\ Cardinality(s \ {x}) \in Nat
  BY <1>1, FS_CardinalityType
<1> QED
  BY <1>1, <1>2

\* What holds of the empty set, and of a set with one member more, holds of a finite set.
LEMMA MemberByMember ==
  ASSUME NEW S, IsFiniteSet(S), NEW B, {} \in B,
         \A s \in SUBSET S : s \in B => \A x \in S \ s : s \cup {x} \in B
  PROVE  S \in B
<1> DEFINE Fine == {n \in Nat : \A s \in SUBSET S : Cardinality(s) = n => s \in B}
<1>0. \A s \in SUBSET S : IsFiniteSet(s) /\ Cardinality(s) \in Nat
  BY FS_Subset, FS_CardinalityType
<1>1. 0 \in Fine
  BY <1>0, FS_EmptySet
<1>2. ASSUME NEW k \in Nat, k \in Fine PROVE k + 1 \in Fine
  <2> SUFFICES ASSUME NEW s \in SUBSET S, Cardinality(s) = k + 1 PROVE s \in B
    OBVIOUS
  <2>1. PICK x : x \in s
    BY <1>0, FS_EmptySet
  <2>2. s \ {x} \in SUBSET S /\ (s \ {x}) \cup {x} = s /\ x \in S \ (s \ {x})
    BY <2>1
  <2>3. Cardinality(s \ {x}) = k
    <3>1. IsFiniteSet(s)
      BY <1>0
    <3> QED
      BY <2>1, <3>1, OneLess
  <2> QED
    BY <1>2, <2>2, <2>3
<1>3. Cardinality(S) \in Fine
  <2> HIDE DEF Fine
  <2>1. Cardinality(S) \in Nat
    BY <1>0
  <2> QED
    BY <1>1, <1>2, <2>1, Upwards
<1> QED
  BY <1>0, <1>3

First(s) == CHOOSE x \in s : TRUE
Rest(s) == s \ {First(s)}
\* f adds up w on the set s.
Adds(f, w, s) == f[s] = IF s = {} THEN 0 ELSE w[First(s)] + f[Rest(s)]

LEMMA RestIsLess ==
  ASSUME NEW s, IsFiniteSet(s), s # {}
  PROVE  /\ First(s) \in s /\ Rest(s) \subseteq s /\ IsFiniteSet(Rest(s))
         /\ Cardinality(s) \in Nat /\ Cardinality(Rest(s)) = Cardinality(s) - 1
BY FS_RemoveElement, FS_CardinalityType DEF First, Rest

\* The fold of the library adds up.
LEMMA SumAdds ==
  ASSUME NEW S, IsFiniteSet(S), NEW w, \A q \in S : w[q] \in Int
  PROVE  \E f \in [SUBSET S -> Int] :
           SumFunctionOnSet(w, S) = f[S] /\ \A s \in SUBSET S : Adds(f, w, s)
<1> DEFINE Upto(n) == \E f \in [SUBSET S -> Int] :
                        \A s \in SUBSET S : Cardinality(s) <= n => Adds(f, w, s)
           Bad == {n \in Nat : ~Upto(n)}
<1>0. \A s \in SUBSET S : IsFiniteSet(s) /\ Cardinality(s) \in Nat
                            /\ Cardinality(s) <= Cardinality(S) /\ Cardinality(S) \in Nat
  BY FS_Subset, FS_CardinalityType
<1>1. ASSUME NEW n \in Nat, n = 0 \/ Upto(n - 1) PROVE Upto(n)
  <2>1. PICK g \in [SUBSET S -> Int] :
          n # 0 => \A s \in SUBSET S : Cardinality(s) <= n - 1 => Adds(g, w, s)
    <3>1. CASE n = 0
      <4>1. [s \in SUBSET S |-> 0] \in [SUBSET S -> Int]
        OBVIOUS
      <4> QED
        BY <3>1, <4>1
    <3>2. CASE n # 0
      BY <1>1, <3>2
    <3> QED
      BY <3>1, <3>2
  <2> DEFINE f == [s \in SUBSET S |-> IF s = {} THEN 0 ELSE w[First(s)] + g[Rest(s)]]
  <2>2. ASSUME NEW s \in SUBSET S, s # {}
        PROVE  w[First(s)] \in Int /\ Rest(s) \in SUBSET S /\ g[Rest(s)] \in Int
    BY <1>0, <2>2, RestIsLess
  <2>3. f \in [SUBSET S -> Int]
    BY <2>2
  <2>4. ASSUME NEW s \in SUBSET S, Cardinality(s) <= n PROVE Adds(f, w, s)
    <3>1. CASE s = {}
      BY <3>1 DEF Adds
    <3>2. CASE s # {}
      <4>1. /\ Rest(s) \in SUBSET S /\ Cardinality(Rest(s)) <= n - 1
            /\ Cardinality(s) \in Nat /\ Cardinality(Rest(s)) \in Nat
        BY <1>0, <2>4, <3>2, RestIsLess
      <4>2. Adds(g, w, Rest(s))
        BY <2>1, <4>1
      <4>3. f[Rest(s)] = g[Rest(s)]
        BY <4>1, <4>2 DEF Adds
      <4> QED
        BY <3>2, <4>3 DEF Adds
    <3> QED
      BY <3>1, <3>2
  <2> QED
    BY <2>3, <2>4
<1>2. Bad = {}
  <2> SUFFICES ASSUME Bad # {} PROVE FALSE
    OBVIOUS
  <2>1. PICK d \in Bad : \A e \in Bad : d <= e
    <3> HIDE DEF Upto
    <3> QED
      BY Lowest
  <2> HIDE DEF Upto
  <2>2. d \in Nat /\ ~Upto(d)
    OBVIOUS
  <2>3. d # 0 => d - 1 \in Nat /\ d - 1 \notin Bad
    BY <2>1, <2>2
  <2> QED
    BY <1>1, <2>2, <2>3
<1>3. Upto(Cardinality(S))
  <2> HIDE DEF Upto
  <2> QED
    BY <1>0, <1>2
<1>4. PICK f \in [SUBSET S -> Int] : \A s \in SUBSET S : Adds(f, w, s)
  BY <1>0, <1>3
<1> DEFINE Rec(h) == h = [s \in SUBSET S |->
                            IF s = {} THEN 0 ELSE w[First(s)] + h[s \ {First(s)}]]
           F == CHOOSE h : Rec(h)
<1>5. Rec(f)
  BY <1>4 DEF Adds, Rest
<1>6. Rec(F)
  <2> HIDE DEF Rec
  <2> QED
    BY <1>5
<1>7. SumFunctionOnSet(w, S) = F[S]
  BY Zenon DEF SumFunctionOnSet, FoldFunctionOnSet, MapThenFoldSet, First
<1> HIDE DEF F
<1>8. \A s \in SUBSET S : Adds(F, w, s)
  BY <1>6 DEF Adds, Rest
<1>9. F = [s \in SUBSET S |-> F[s]]
  BY <1>6
<1> DEFINE Wrong == {n \in Nat : \E s \in SUBSET S : Cardinality(s) = n /\ F[s] \notin Int}
<1>10. Wrong = {}
  <2> SUFFICES ASSUME Wrong # {} PROVE FALSE
    OBVIOUS
  <2>1. PICK d \in Wrong : \A e \in Wrong : d <= e
    BY Lowest
  <2>2. PICK s \in SUBSET S : Cardinality(s) = d /\ F[s] \notin Int
    OBVIOUS
  <2>3. s # {}
    BY <1>8, <2>2 DEF Adds
  <2>4. /\ First(s) \in S /\ Rest(s) \in SUBSET S
        /\ Cardinality(Rest(s)) = d - 1 /\ Cardinality(Rest(s)) \in Nat
    BY <1>0, <2>2, <2>3, RestIsLess
  <2>5. F[Rest(s)] \in Int
    BY <2>1, <2>4
  <2> QED
    BY <1>8, <2>2, <2>3, <2>4, <2>5 DEF Adds
<1>11. F \in [SUBSET S -> Int]
  BY <1>0, <1>9, <1>10
<1> QED
  BY <1>7, <1>8, <1>11

Folds(f, w, S) == f \in [SUBSET S -> Int] /\ \A s \in SUBSET S : Adds(f, w, s)
Grows(f, w, S) == \A s \in SUBSET S : \A x \in S \ s : f[s \cup {x}] = f[s] + w[x]

\* Whichever member comes first.
LEMMA AnyOrder ==
  ASSUME NEW S, IsFiniteSet(S), NEW w, \A q \in S : w[q] \in Int, NEW f, Folds(f, w, S)
  PROVE  Grows(f, w, S)
<1> DEFINE Fine == {s \in SUBSET S : \A x \in s : f[s] = f[s \ {x}] + w[x]}
           Upto == {n \in Nat : \A s \in SUBSET S : Cardinality(s) <= n => s \in Fine}
<1>0. \A s \in SUBSET S : IsFiniteSet(s) /\ Cardinality(s) \in Nat
  BY FS_Subset, FS_CardinalityType
<1> f \in [SUBSET S -> Int] /\ \A s \in SUBSET S : Adds(f, w, s)
  BY DEF Folds
<1>1. {} \in Fine
  OBVIOUS
<1>2. 0 \in Upto
  BY <1>0, <1>1, FS_EmptySet
<1>3. ASSUME NEW k \in Nat, k \in Upto PROVE k + 1 \in Upto
  <2> SUFFICES ASSUME NEW s \in SUBSET S, Cardinality(s) = k + 1, NEW x \in s
               PROVE  f[s] = f[s \ {x}] + w[x]
    <3> DEFINE A(n) == \A s \in SUBSET S : Cardinality(s) <= n => s \in Fine
    <3>1. ASSUME A(k), \A s \in SUBSET S : Cardinality(s) = k + 1 => s \in Fine PROVE A(k + 1)
      <4> HIDE DEF Fine
      <4> QED
        BY <1>0, <3>1
    <3> QED
      BY <1>3, <3>1
  <2>1. /\ First(s) \in s /\ Rest(s) \in SUBSET S /\ Cardinality(Rest(s)) = k
        /\ f[s] = w[First(s)] + f[Rest(s)]
    <3>1. First(s) \in s /\ Cardinality(Rest(s)) = Cardinality(s) - 1 /\ Rest(s) \in SUBSET S
      BY <1>0, RestIsLess
    <3>2. Adds(f, w, s)
      OBVIOUS
    <3> QED
      BY <3>1, <3>2 DEF Adds
  <2>2. CASE x = First(s)
    BY <2>1, <2>2 DEF Rest
  <2>3. CASE x # First(s)
    <3> DEFINE t == s \ {x}
               u == Rest(s) \ {x}
    <3>1. x \in Rest(s) /\ First(s) \in t /\ t \in SUBSET S /\ u \in SUBSET S
            /\ u = t \ {First(s)}
      BY <2>1, <2>3 DEF Rest
    <3>2. Cardinality(t) = k
      <4>1. IsFiniteSet(s)
        BY <1>0
      <4> QED
        BY <4>1, OneLess
    <3>3. f[Rest(s)] = f[u] + w[x]
      <4>1. Rest(s) \in Fine
        BY <1>3, <2>1
      <4> QED
        BY <3>1, <4>1
    <3>4. f[t] = f[u] + w[First(s)]
      <4>1. t \in Fine
        <5> HIDE DEF Fine
        <5> QED
          BY <1>3, <3>1, <3>2
      <4> QED
        BY <3>1, <4>1
    <3>5. f[u] \in Int /\ w[x] \in Int /\ w[First(s)] \in Int
      BY <2>1, <3>1
    <3> HIDE DEF u
    <3> QED
      BY <2>1, <3>3, <3>4, <3>5
  <2> QED
    BY <2>2, <2>3
<1>4. Cardinality(S) \in Upto
  <2> HIDE DEF Upto
  <2>1. Cardinality(S) \in Nat
    BY <1>0
  <2> QED
    BY <1>2, <1>3, <2>1, Upwards
<1>5. ASSUME NEW s \in SUBSET S, NEW x \in S \ s PROVE f[s \cup {x}] = f[s] + w[x]
  <2>1. s \cup {x} \in SUBSET S /\ (s \cup {x}) \ {x} = s /\ x \in s \cup {x}
    OBVIOUS
  <2>2. s \cup {x} \in Fine
    <3>1. Cardinality(s \cup {x}) <= Cardinality(S)
      BY <2>1, FS_Subset
    <3> QED
      BY <1>4, <2>1, <3>1
  <2> QED
    BY <2>1, <2>2
<1> QED
  BY <1>5 DEF Grows

Sigma(S, w) == SumFunction([x \in S |-> w[x]])

LEMMA SumIsSigma ==
  ASSUME NEW S, NEW w, DOMAIN w = S, w = [x \in S |-> w[x]]
  PROVE  SumFunction(w) = Sigma(S, w)
BY DEF Sigma

LEMMA SameSummands ==
  ASSUME NEW S, NEW w, NEW v, \A x \in S : w[x] = v[x]
  PROVE  Sigma(S, w) = Sigma(S, v)
<1>1. [x \in S |-> w[x]] = [x \in S |-> v[x]]
  OBVIOUS
<1> QED
  BY <1>1 DEF Sigma

\* f is the sum of w over every set.
Sums(f, w, S) ==
  /\ IsFiniteSet(S) /\ \A q \in S : w[q] \in Int
  /\ f \in [SUBSET S -> Int] /\ f[{}] = 0 /\ Grows(f, w, S)
  /\ \A s \in SUBSET S : f[s] = Sigma(s, w)

LEMMA SumsExist ==
  ASSUME NEW S, IsFiniteSet(S), NEW w, \A q \in S : w[q] \in Int
  PROVE  \E f : Sums(f, w, S)
<1>1. PICK f : Folds(f, w, S)
  BY SumAdds DEF Folds
<1>2. f[{}] = 0
  BY <1>1 DEF Adds, Folds
<1>3. Grows(f, w, S)
  BY <1>1, AnyOrder
<1>4. ASSUME NEW s \in SUBSET S PROVE f[s] = Sigma(s, w)
  <2> DEFINE v == [x \in s |-> w[x]]
  <2>0. IsFiniteSet(s) /\ \A q \in s : v[q] \in Int
    BY FS_Subset
  <2> HIDE DEF v
  <2>1. PICK g : SumFunctionOnSet(v, s) = g[s] /\ Folds(g, v, s)
    BY <2>0, SumAdds DEF Folds
  <2>2. Grows(g, v, s)
    BY <2>0, <2>1, AnyOrder
  <2> DEFINE Same == {t \in SUBSET s : f[t] = g[t]}
  <2>3. {} \in Same
    BY <1>2, <2>1 DEF Adds, Folds
  <2>4. ASSUME NEW t \in SUBSET s, t \in Same, NEW x \in s \ t PROVE t \cup {x} \in Same
    <3>1. f[t \cup {x}] = f[t] + w[x]
      BY <1>3 DEF Grows
    <3>2. g[t \cup {x}] = g[t] + v[x] /\ v[x] = w[x]
      BY <2>2 DEF v, Grows
    <3> QED
      BY <2>4, <3>1, <3>2
  <2>5. s \in Same
    <3> HIDE DEF Same
    <3> QED
      BY <2>0, <2>3, <2>4, MemberByMember
  <2>6. DOMAIN v = s
    BY DEF v
  <2>7. SumFunction(v) = g[s]
    BY <2>1, <2>6 DEF SumFunction
  <2> QED
    BY <2>5, <2>7 DEF v, Sigma
<1> QED
  BY <1>1, <1>2, <1>3, <1>4 DEF Sums, Folds

\* A sum is a number, that of nothing is 0, and a member adds its own.
LEMMA SumType ==
  ASSUME NEW S, IsFiniteSet(S), NEW w, \A q \in S : w[q] \in Int
  PROVE  Sigma(S, w) \in Int
<1>1. PICK f : Sums(f, w, S)
  BY SumsExist
<1> QED
  BY <1>1 DEF Sums

Combines(u, a, w, b, v, S) ==
  /\ a \in Int /\ b \in Int
  /\ \A q \in S : w[q] \in Int /\ v[q] \in Int /\ u[q] = a * w[q] + b * v[q]

\* Sums over the members of one set are linear.
LEMMA SumLinear ==
  ASSUME NEW S, IsFiniteSet(S), NEW u, NEW a, NEW w, NEW b, NEW v, Combines(u, a, w, b, v, S)
  PROVE  Sigma(S, u)
           = a * Sigma(S, w) + b * Sigma(S, v)
<1> /\ a \in Int /\ b \in Int
    /\ \A q \in S : w[q] \in Int /\ v[q] \in Int /\ u[q] = a * w[q] + b * v[q]
  BY DEF Combines
<1>0. \A q \in S : w[q] \in Int /\ v[q] \in Int /\ u[q] \in Int
  OBVIOUS
<1>1. PICK f : Sums(f, w, S)
  BY <1>0, SumsExist
<1>2. PICK g : Sums(g, v, S)
  BY <1>0, SumsExist
<1>3. PICK h : Sums(h, u, S)
  BY <1>0, SumsExist
<1> DEFINE Fine == {s \in SUBSET S : h[s] = a * f[s] + b * g[s]}
<1>4. {} \in Fine
  BY <1>1, <1>2, <1>3 DEF Sums
<1>5. ASSUME NEW s \in SUBSET S, s \in Fine, NEW x \in S \ s PROVE s \cup {x} \in Fine
  <2>1. /\ f[s \cup {x}] = f[s] + w[x] /\ g[s \cup {x}] = g[s] + v[x]
        /\ h[s \cup {x}] = h[s] + u[x]
    BY <1>1, <1>2, <1>3 DEF Sums, Grows
  <2>2. f[s] \in Int /\ g[s] \in Int /\ h[s] \in Int
    BY <1>1, <1>2, <1>3 DEF Sums
  <2>3. h[s] = a * f[s] + b * g[s] /\ u[x] = a * w[x] + b * v[x]
    BY <1>5
  <2>4. a * (f[s] + w[x]) = a * f[s] + a * w[x] /\ b * (g[s] + v[x]) = b * g[s] + b * v[x]
    <3>1. ASSUME NEW i \in Int, NEW j \in Int, NEW k \in Int PROVE i * (j + k) = i * j + i * k
      OBVIOUS
    <3>2. w[x] \in Int /\ v[x] \in Int
      BY <1>0
    <3> QED
      BY <2>2, <3>1, <3>2
  <2>5. a * f[s] \in Int /\ a * w[x] \in Int /\ b * g[s] \in Int /\ b * v[x] \in Int
    BY <1>0, <2>2
  <2>6. h[s \cup {x}] = a * f[s \cup {x}] + b * g[s \cup {x}]
    <3>1. ASSUME NEW i \in Int, NEW j \in Int, NEW k \in Int, NEW l \in Int
          PROVE  (i + j) + (k + l) = (i + k) + (j + l)
      OBVIOUS
    <3>2. h[s \cup {x}] = (a * f[s] + b * g[s]) + (a * w[x] + b * v[x])
      BY <2>1, <2>3
    <3>3. h[s \cup {x}] = (a * f[s] + a * w[x]) + (b * g[s] + b * v[x])
      BY <2>5, <3>1, <3>2
    <3> QED
      BY <2>1, <2>4, <3>3
  <2> QED
    BY <2>6
<1>6. S \in Fine
  <2> HIDE DEF Fine
  <2> QED
    BY <1>4, <1>5, MemberByMember
<1> QED
  BY <1>1, <1>2, <1>3, <1>6 DEF Sums

\* A sum is at least the least of its members, as often as there are members.
LEMMA SumAbove ==
  ASSUME NEW S, IsFiniteSet(S), NEW w, NEW low \in Int, \A q \in S : w[q] \in Int /\ low <= w[q]
  PROVE  low * Cardinality(S) <= Sigma(S, w)
<1>1. PICK f : Sums(f, w, S)
  BY SumsExist
<1> DEFINE Fine == {s \in SUBSET S : low * Cardinality(s) <= f[s]}
<1>4. {} \in Fine
  BY <1>1, FS_EmptySet DEF Sums
<1>5. ASSUME NEW s \in SUBSET S, s \in Fine, NEW x \in S \ s PROVE s \cup {x} \in Fine
  <2>1. f[s \cup {x}] = f[s] + w[x] /\ f[s] \in Int
    BY <1>1 DEF Sums, Grows
  <2>2. Cardinality(s \cup {x}) = Cardinality(s) + 1 /\ Cardinality(s) \in Nat
    <3>1. IsFiniteSet(s)
      BY FS_Subset
    <3> QED
      BY <3>1, FS_AddElement, FS_CardinalityType
  <2> DEFINE c == Cardinality(s)
  <2>3. c \in Nat /\ low * c <= f[s] /\ Cardinality(s \cup {x}) = c + 1
    BY <1>5, <2>2
  <2>4. low <= w[x] /\ w[x] \in Int
    OBVIOUS
  <2> HIDE DEF c
  <2>5. low * (c + 1) = low * c + low /\ low * c \in Int
    BY <2>3
  <2>6. low * (c + 1) <= f[s \cup {x}]
    BY <2>1, <2>3, <2>4, <2>5
  <2> QED
    BY <2>3, <2>6
<1>6. S \in Fine
  <2> HIDE DEF Fine
  <2> QED
    BY <1>4, <1>5, MemberByMember
<1> QED
  BY <1>1, <1>6 DEF Sums

LEMMA SumBelow ==
  ASSUME NEW S, IsFiniteSet(S), NEW w, NEW high \in Int, \A q \in S : w[q] \in Int /\ w[q] <= high
  PROVE  Sigma(S, w) <= high * Cardinality(S)
<1> DEFINE u == [q \in S |-> -w[q]]
           low == -high
<1>1. \A q \in S : u[q] \in Int /\ low <= u[q] /\ w[q] \in Int /\ u[q] = (-1) * w[q] + 0 * w[q]
  OBVIOUS
<1>2. low \in Int /\ -1 \in Int /\ 0 \in Int
  OBVIOUS
<1>3. Sigma(S, w) \in Int
  BY SumType
<1>4. Cardinality(S) \in Nat
  BY FS_CardinalityType
<1> HIDE DEF u, low
<1>5. low * Cardinality(S) <= Sigma(S, u)
  <2>1. \A q \in S : u[q] \in Int /\ low <= u[q]
    BY <1>1
  <2> QED
    BY <1>2, <2>1, SumAbove
<1>6. Sigma(S, u)
        = (-1) * Sigma(S, w) + 0 * Sigma(S, w)
  <2>1. Combines(u, -1, w, 0, w, S)
    BY <1>1, <1>2 DEF Combines
  <2> QED
    BY <2>1, SumLinear
<1>7. low * Cardinality(S) = -(high * Cardinality(S)) /\ high * Cardinality(S) \in Int
  BY <1>4 DEF low
<1> QED
  BY <1>3, <1>5, <1>6, <1>7

\* Sums over disjoint sets add up.
LEMMA SumUnion ==
  ASSUME NEW S, NEW w, NEW f, Sums(f, w, S),
         NEW A, NEW B, A \subseteq S, B \subseteq S, A \cap B = {}
  PROVE  f[A \cup B] = f[A] + f[B]
<1> DEFINE Fine == {t \in SUBSET B : f[A \cup t] = f[A] + f[t]}
<1>0. IsFiniteSet(B)
  BY FS_Subset DEF Sums
<1>1. {} \in Fine
  <2>1. A \cup {} = A /\ f[{}] = 0 /\ f[A] \in Int
    BY DEF Sums
  <2> QED
    BY <2>1
<1>2. ASSUME NEW t \in SUBSET B, t \in Fine, NEW x \in B \ t PROVE t \cup {x} \in Fine
  <2>1. /\ t \in SUBSET S /\ A \cup t \in SUBSET S /\ x \in S \ t /\ x \in S \ (A \cup t)
        /\ A \cup (t \cup {x}) = (A \cup t) \cup {x}
    OBVIOUS
  <2>2. f[t \cup {x}] = f[t] + w[x] /\ f[(A \cup t) \cup {x}] = f[A \cup t] + w[x]
    BY <2>1 DEF Sums, Grows
  <2>3. f[t] \in Int /\ f[A] \in Int /\ w[x] \in Int /\ f[A \cup t] = f[A] + f[t]
    BY <1>2, <2>1 DEF Sums
  <2>4. f[A \cup (t \cup {x})] = f[A] + f[t \cup {x}]
    <3>1. f[A \cup (t \cup {x})] = f[(A \cup t) \cup {x}]
      BY <2>1
    <3> QED
      BY <2>2, <2>3, <3>1
  <2> QED
    BY <2>4
<1>3. B \in Fine
  <2> HIDE DEF Fine
  <2> QED
    BY <1>0, <1>1, <1>2, MemberByMember
<1> QED
  BY <1>3

Additive(f, S) == \A A, B \in SUBSET S : A \cap B = {} => f[A \cup B] = f[A] + f[B]

LEMMA SumUnions ==
  ASSUME NEW S, NEW w, NEW f, Sums(f, w, S)
  PROVE  Additive(f, S)
<1> SUFFICES ASSUME NEW A \in SUBSET S, NEW B \in SUBSET S, A \cap B = {}
             PROVE  f[A \cup B] = f[A] + f[B]
  BY DEF Additive
<1> QED
  BY SumUnion

LEMMA ImageIsFinite ==
  ASSUME NEW S, IsFiniteSet(S), NEW h
  PROVE  IsFiniteSet({h[q] : q \in S})
<1> DEFINE T == {h[q] : q \in S}
           hh == [q \in S |-> h[q]]
<1>1. hh \in Surjection(S, T)
  BY DEF Surjection
<1> QED
  BY <1>1, FS_Surjection

\* Where members are mapped one to one, the sums are the same.
LEMMA SumMap ==
  ASSUME NEW S, IsFiniteSet(S), NEW w, \A q \in S : w[q] \in Int,
         NEW h, \A p, q \in S : h[p] = h[q] => p = q,
         NEW v, \A q \in S : v[h[q]] = w[q]
  PROVE  /\ IsFiniteSet({h[q] : q \in S})
         /\ Sigma({h[q] : q \in S}, v) = Sigma(S, w)
<1> DEFINE T == {h[q] : q \in S}
           Im(s) == {h[q] : q \in s}
<1>0. IsFiniteSet(T)
  BY ImageIsFinite
<1>1. PICK f : Sums(f, w, S)
  BY SumsExist
<1>2. PICK g : Sums(g, v, T)
  <2>1. \A y \in T : v[y] \in Int
    OBVIOUS
  <2> QED
    BY <1>0, <2>1, SumsExist
<1> DEFINE Fine == {s \in SUBSET S : g[Im(s)] = f[s]}
<1>3. {} \in Fine
  <2>1. Im({}) = {}
    OBVIOUS
  <2> QED
    BY <1>1, <1>2, <2>1 DEF Sums
<1>4. ASSUME NEW s \in SUBSET S, s \in Fine, NEW x \in S \ s PROVE s \cup {x} \in Fine
  <2>1. /\ Im(s) \in SUBSET T /\ h[x] \in T \ Im(s) /\ Im(s \cup {x}) = Im(s) \cup {h[x]}
    OBVIOUS
  <2> HIDE DEF Im, T
  <2>2. g[Im(s) \cup {h[x]}] = g[Im(s)] + v[h[x]]
    BY <1>2, <2>1 DEF Sums, Grows
  <2>3. f[s \cup {x}] = f[s] + w[x]
    BY <1>1 DEF Sums, Grows
  <2>4. g[Im(s \cup {x})] = f[s \cup {x}]
    BY <1>4, <2>1, <2>2, <2>3
  <2> QED
    BY <2>4
<1>5. S \in Fine
  <2> HIDE DEF Fine
  <2> QED
    BY <1>3, <1>4, MemberByMember
<1>6. g[T] = Sigma(T, v) /\ f[S] = Sigma(S, w)
  BY <1>1, <1>2 DEF Sums
<1> QED
  BY <1>0, <1>5, <1>6

\* v[k]: the sum of the members whose key is k.
SumsByKey(v, K, S, key, w) == \A k \in K : v[k] = Sigma({y \in S : key[y] = k}, w)

\* The sums of parts add up to the sum of the whole.
LEMMA SumParts ==
  ASSUME NEW S, IsFiniteSet(S), NEW w, \A q \in S : w[q] \in Int,
         NEW K, IsFiniteSet(K), NEW key, \A q \in S : key[q] \in K,
         NEW v, SumsByKey(v, K, S, key, w)
  PROVE  /\ \A k \in K : v[k] \in Int
         /\ Sigma(K, v) = Sigma(S, w)
<1> DEFINE Of(k) == {y \in S : key[y] = k}
           In(s) == {y \in S : key[y] \in s}
<1>1. PICK f : Sums(f, w, S)
  BY SumsExist
<1>2. \A k \in K : v[k] = f[Of(k)] /\ v[k] \in Int /\ Of(k) \in SUBSET S
  BY <1>1 DEF Sums, SumsByKey
<1>3. PICK g : Sums(g, v, K)
  BY <1>2, SumsExist
<1>9. Additive(f, S)
  BY <1>1, SumUnions
<1> DEFINE Fine == {s \in SUBSET K : g[s] = f[In(s)]}
<1>4. {} \in Fine
  <2>1. In({}) = {}
    OBVIOUS
  <2> QED
    BY <1>1, <1>3, <2>1 DEF Sums
<1>5. ASSUME NEW s \in SUBSET K, s \in Fine, NEW x \in K \ s PROVE s \cup {x} \in Fine
  <2>1. In(s \cup {x}) = In(s) \cup Of(x) /\ In(s) \cap Of(x) = {} /\ In(s) \subseteq S
    OBVIOUS
  <2>2. Of(x) \subseteq S /\ v[x] = f[Of(x)]
    BY <1>2
  <2> HIDE DEF In, Of
  <2>3. f[In(s) \cup Of(x)] = f[In(s)] + f[Of(x)]
    BY <1>9, <2>1, <2>2 DEF Additive
  <2>4. g[s \cup {x}] = g[s] + v[x]
    BY <1>3 DEF Sums, Grows
  <2>5. g[s \cup {x}] = f[In(s \cup {x})]
    BY <1>5, <2>1, <2>2, <2>3, <2>4
  <2> QED
    BY <2>5
<1>6. K \in Fine
  <2> HIDE DEF Fine
  <2> QED
    BY <1>4, <1>5, MemberByMember
<1>7. In(K) = S
  OBVIOUS
<1>8. g[K] = Sigma(K, v) /\ f[S] = Sigma(S, w)
  BY <1>1, <1>3 DEF Sums
<1> QED
  BY <1>2, <1>6, <1>7, <1>8

(***************************************************************************)
(* Allocation                                                              *)
(***************************************************************************)
\* Math.round is within a half.
LEMMA Rounding ==
  ASSUME NEW n \in Int, NEW d \in Nat \ {0}
  PROVE  /\ Engine!Round(n, d) \in Int
         /\ 2 * (d * Engine!Round(n, d)) - 2 * n <= d
         /\ -d <= 2 * (d * Engine!Round(n, d)) - 2 * n
<1>1. /\ Engine!Round(n, d) \in Int
      /\ 2 * (d * Engine!Round(n, d)) <= 2 * n + d
      /\ 2 * n + d < 2 * (d * Engine!Round(n, d)) + 2 * d
  BY DEF Engine!Round
<1>2. d * Engine!Round(n, d) \in Int
  BY <1>1
<1> QED
  BY <1>1, <1>2

LEMMA SameSum == \A w : Engine!SumFunction(w) = SumFunction(w)
BY DEF Engine!SumFunction, Engine!SumFunctionOnSet, Engine!FoldFunctionOnSet,
       Engine!MapThenFoldSet, SumFunction, SumFunctionOnSet, FoldFunctionOnSet, MapThenFoldSet

LEMMA SameCard == \A S : Engine!Cardinality(S) = Cardinality(S)
BY Zenon DEF Engine!Cardinality, Cardinality

LEMMA Prices == Amounts \subseteq Nat \ {0} /\ NoPrice \notin Int
BY ScheduleAssumption

LEMMA FirstNumbers ==
  ASSUME NEW m \in Nat
  PROVE  IsFiniteSet(1..m) /\ Cardinality(1..m) = m
BY FS_Interval

LEMMA Remainder ==
  ASSUME NEW t \in Int, NEW s \in Int, NEW p \in Int, NEW w \in Int
  PROVE  2 * ((t - s) * (p + w) - w * t) = (2 * t) * p + (-2 * (p + w)) * s
OBVIOUS

Within(n, most) == n \in Int /\ -most <= n /\ n <= most

Proportioned(a, weights, total, n) ==
  weights \in [1..n -> Nat \ {0}] /\ a = Engine!Proportional(weights, total)
Fair(a, weights, total, n) ==
  LET W == SumFunction(weights)
  IN  /\ W \in Nat \ {0} /\ a \in [1..n -> Int] /\ SumFunction(a) = total
      /\ \A i \in 1..n : Within(2 * (a[i] * W - weights[i] * total),
                                W * (IF i = n THEN n - 1 ELSE 1))

\* The amounts add up to the total, and none is far from its share.
LEMMA ProportionalIsFair ==
  ASSUME NEW n \in Nat \ {0}, NEW weights, NEW total \in Int, NEW a,
         Proportioned(a, weights, total, n)
  PROVE  Fair(a, weights, total, n)
<1> SUFFICES ASSUME weights \in [1..n -> Nat \ {0}], a = Engine!Proportional(weights, total),
                    NEW W, W = SumFunction(weights)
             PROVE  /\ W \in Nat \ {0} /\ a \in [1..n -> Int] /\ SumFunction(a) = total
                    /\ \A i \in 1..n : Within(2 * (a[i] * W - weights[i] * total),
                                              W * (IF i = n THEN n - 1 ELSE 1))
  BY DEF Proportioned, Fair
<1> DEFINE S == 1..n
           P == 1..(n - 1)
           sh == [i \in S |-> Engine!Round(weights[i] * total, W)]
           s == Sigma(P, sh)
<1>0. /\ IsFiniteSet(S) /\ IsFiniteSet(P) /\ Cardinality(P) = n - 1 /\ Cardinality(S) = n
      /\ P \subseteq S /\ n \in S \ P /\ S = P \cup {n} /\ Len(weights) = n
  <2>1. IsFiniteSet(S) /\ Cardinality(S) = n
    BY FirstNumbers
  <2>2. IsFiniteSet(P) /\ Cardinality(P) = n - 1
    <3>1. n - 1 \in Nat
      OBVIOUS
    <3> QED
      BY <3>1, FirstNumbers
  <2>3. Len(weights) = n
    <3>1. weights \in Seq(Nat \ {0}) /\ DOMAIN weights = 1..n
      OBVIOUS
    <3> QED
      BY <3>1
  <2> QED
    BY <2>1, <2>2, <2>3
<1>1. \A q \in S : weights[q] \in Int /\ weights[q] \in Nat \ {0}
  OBVIOUS
<1>2. PICK f : Sums(f, weights, S)
  BY <1>0, <1>1, SumsExist
<1>3. W = f[S] /\ f[S] = f[P] + weights[n] /\ f[P] \in Int
  <2>1. W = Sigma(S, weights)
    <3>1. weights = [x \in S |-> weights[x]] /\ DOMAIN weights = S
      OBVIOUS
    <3> HIDE DEF S
    <3> QED
      BY <3>1, SumIsSigma
  <2>2. f[S] = Sigma(S, weights) /\ f[P] \in Int
    BY <1>0, <1>2 DEF Sums
  <2>3. f[P \cup {n}] = f[P] + weights[n]
    <3> HIDE DEF P, S
    <3> QED
      BY <1>0, <1>2 DEF Sums, Grows
  <2> QED
    BY <1>0, <2>1, <2>2, <2>3
<1>4. W \in Nat \ {0}
  <2>1. \A q \in S : weights[q] \in Int /\ 1 <= weights[q]
    BY <1>1
  <2>2. 1 * Cardinality(S) <= Sigma(S, weights)
    <3>1. 1 \in Int
      OBVIOUS
    <3> HIDE DEF S
    <3> QED
      BY <1>0, <2>1, <3>1, SumAbove
  <2>3. f[S] = Sigma(S, weights) /\ f[S] \in Int
    BY <1>2 DEF Sums
  <2> QED
    BY <1>0, <1>3, <2>2, <2>3
<1>5. \A i \in S : /\ sh[i] \in Int
                   /\ Within(2 * (sh[i] * W - weights[i] * total), W)
  <2> SUFFICES ASSUME NEW i \in S
               PROVE  sh[i] \in Int /\ Within(2 * (sh[i] * W - weights[i] * total), W)
    OBVIOUS
  <2> DEFINE m == weights[i] * total
             r == Engine!Round(m, W)
  <2>1. m \in Int
    OBVIOUS
  <2>2. r \in Int /\ 2 * (W * r) - 2 * m <= W /\ -W <= 2 * (W * r) - 2 * m
    <3> HIDE DEF m
    <3> QED
      BY <1>4, <2>1, Rounding
  <2>3. sh[i] = r
    OBVIOUS
  <2> HIDE DEF m, r, sh
  <2>4. 2 * (r * W - m) = 2 * (W * r) - 2 * m /\ 2 * (r * W - m) \in Int
    BY <1>4, <2>1, <2>2
  <2> QED
    BY <2>2, <2>3, <2>4 DEF Within, m
<1>6. s \in Int
  <2>1. \A q \in P : sh[q] \in Int
    BY <1>0, <1>5
  <2> HIDE DEF sh, P
  <2> QED
    BY <1>0, <2>1, SumType
<1>7. a = [i \in S |-> IF i < n THEN sh[i] ELSE total - s]
  <2>1. [j \in P |-> sh[j]] = [j \in P |-> Engine!Round(weights[j] * total, SumFunction(weights))]
    BY <1>0
  <2>2. a = [i \in 1..n |-> IF i < n THEN Engine!Round(weights[i] * total, SumFunction(weights))
                           ELSE total - SumFunction([j \in 1..(n - 1) |->
                                         Engine!Round(weights[j] * total, SumFunction(weights))])]
    BY <1>0, SameSum DEF Engine!Proportional
  <2>3. s = SumFunction([j \in P |-> sh[j]])
    BY DEF Sigma
  <2> QED
    BY <1>0, <2>1, <2>2, <2>3
<1>8. a \in [S -> Int]
  <2> HIDE DEF s, sh
  <2> QED
    BY <1>5, <1>6, <1>7
<1>9. SumFunction(a) = total
  <2>1. \A q \in S : a[q] \in Int
    BY <1>8
  <2>2. PICK g : Sums(g, a, S)
    BY <1>0, <2>1, SumsExist
  <2>3. g[P \cup {n}] = g[P] + a[n]
    <3> HIDE DEF P, S
    <3> QED
      BY <1>0, <2>2 DEF Sums, Grows
  <2>4. g[P] = Sigma(P, a) /\ g[S] = Sigma(S, a)
    BY <1>0, <2>2 DEF Sums
  <2>5. \A x \in P : a[x] = sh[x]
    <3> HIDE DEF s, sh
    <3> QED
      BY <1>0, <1>7
  <2>6. a = [x \in S |-> a[x]] /\ DOMAIN a = S /\ a[n] = total - s
    <3> HIDE DEF s, sh
    <3> QED
      BY <1>0, <1>7
  <2>7. g[P] = s
    <3> HIDE DEF P, sh
    <3> QED
      BY <2>4, <2>5, SameSummands
  <2> HIDE DEF s
  <2>8. g[S] = s + (total - s)
    BY <1>0, <2>3, <2>6, <2>7
  <2>9. g[S] = total
    BY <1>6, <2>8
  <2> HIDE DEF S
  <2> QED
    BY <2>4, <2>6, <2>9, SumIsSigma
<1>10. ASSUME NEW i \in S PROVE Within(2 * (a[i] * W - weights[i] * total),
                                       W * (IF i = n THEN n - 1 ELSE 1))
  <2>1. CASE i # n
    <3>1. a[i] = sh[i] /\ W * (IF i = n THEN n - 1 ELSE 1) = W
      <4> HIDE DEF s, sh
      <4> QED
        BY <1>4, <1>7, <2>1
    <3> HIDE DEF sh
    <3> QED
      BY <1>5, <3>1
  <2>2. CASE i = n
    <3> DEFINE u == [q \in P |-> (2 * total) * weights[q] + (-2 * W) * sh[q]]
               z == Sigma(P, u)
    <3>1. \A q \in P : u[q] \in Int /\ -W <= u[q] /\ u[q] <= W
      <4> SUFFICES ASSUME NEW q \in P PROVE u[q] \in Int /\ -W <= u[q] /\ u[q] <= W
        OBVIOUS
      <4>1. q \in S /\ weights[q] \in Int /\ sh[q] \in Int
        BY <1>0, <1>1, <1>5
      <4>2. Within(2 * (sh[q] * W - weights[q] * total), W)
        BY <1>5, <4>1
      <4>3. u[q] = (2 * total) * weights[q] + (-2 * W) * sh[q]
        OBVIOUS
      <4> HIDE DEF sh, u
      <4>4. ASSUME NEW e \in Int, NEW d \in Int
            PROVE  (2 * total) * d + (-2 * W) * e = -(2 * (e * W - d * total))
        BY <1>4
      <4>5. u[q] = -(2 * (sh[q] * W - weights[q] * total))
        BY <4>1, <4>3, <4>4
      <4> QED
        BY <1>4, <4>2, <4>5 DEF Within
    <3>2. z = (2 * total) * f[P] + (-2 * W) * s
      <4>1. \A q \in P : weights[q] \in Int /\ sh[q] \in Int
                           /\ u[q] = (2 * total) * weights[q] + (-2 * W) * sh[q]
        BY <1>0, <1>1, <1>5
      <4>2. 2 * total \in Int /\ -2 * W \in Int
        BY <1>4
      <4>3. f[P] = Sigma(P, weights)
        BY <1>0, <1>2 DEF Sums
      <4>4. Combines(u, 2 * total, weights, -2 * W, sh, P)
        BY <4>1, <4>2 DEF Combines
      <4> DEFINE aa == 2 * total
                 bb == -2 * W
      <4> HIDE DEF u, sh, P, aa, bb
      <4>5. Sigma(P, u) = aa * Sigma(P, weights)
                                               + bb * Sigma(P, sh)
        <5>1. Combines(u, aa, weights, bb, sh, P)
          BY <4>4 DEF aa, bb
        <5> QED
          BY <1>0, <5>1, SumLinear
      <4> QED
        BY <4>3, <4>5 DEF aa, bb
    <3>3. (-W) * (n - 1) <= z /\ z <= W * (n - 1) /\ z \in Int
      <4>1. -W \in Int /\ W \in Int
        BY <1>4
      <4> HIDE DEF u, P
      <4>2. z \in Int
        BY <1>0, <3>1, SumType
      <4>3. z <= W * (n - 1)
        BY <1>0, <3>1, <4>1, SumBelow
      <4>4. (-W) * (n - 1) <= z
        <5> DEFINE low == -W
        <5>1. low \in Int /\ \A q \in P : u[q] \in Int /\ low <= u[q]
          BY <3>1, <4>1
        <5> HIDE DEF low
        <5>2. low * Cardinality(P) <= z
          BY <1>0, <5>1, SumAbove
        <5> QED
          BY <1>0, <5>2 DEF low
      <4> QED
        BY <4>2, <4>3, <4>4
    <3>4. 2 * ((total - s) * W - weights[n] * total) = z
      <4> HIDE DEF s, z
      <4>1. weights[n] \in Int /\ W = f[P] + weights[n]
        BY <1>0, <1>1, <1>3
      <4>2. 2 * ((total - s) * (f[P] + weights[n]) - weights[n] * total)
              = (2 * total) * f[P] + (-2 * (f[P] + weights[n])) * s
        BY <1>3, <1>6, <4>1, Remainder
      <4> QED
        BY <3>2, <4>1, <4>2
    <3>5. a[n] = total - s
      <4> HIDE DEF s, sh
      <4> QED
        BY <1>0, <1>7
    <3>6. (-W) * (n - 1) = -(W * (n - 1))
      BY <1>4
    <3> HIDE DEF s, z
    <3>7. Within(2 * (a[n] * W - weights[n] * total), W * (n - 1))
      BY <3>3, <3>4, <3>5, <3>6 DEF Within
    <3> QED
      BY <2>2, <3>7
  <2> QED
    BY <2>1, <2>2
<1> QED
  BY <1>4, <1>8, <1>9, <1>10

Shared(a, obs, total, n, priced) ==
  /\ obs \in [1..n -> Obligation] /\ a = Engine!Residual(obs, total)
  /\ priced = {i \in 1..n : obs[i].ssp # NoPrice} /\ priced # 1..n

\* What the known prices leave is shared, each share within half a cent.
LEMMA ResidualIsFair ==
  ASSUME NEW n \in Nat \ {0}, NEW obs, NEW total \in Nat, NEW a, NEW priced,
         Shared(a, obs, total, n, priced)
  PROVE  /\ a \in [1..n -> Int] /\ n - Cardinality(priced) \in Nat
         /\ Within(2 * (SumFunction(a) - total), n - Cardinality(priced))
<1> SUFFICES ASSUME obs \in [1..n -> Obligation], a = Engine!Residual(obs, total),
                    priced = {i \in 1..n : obs[i].ssp # NoPrice}, priced # 1..n
             PROVE  /\ a \in [1..n -> Int] /\ n - Cardinality(priced) \in Nat
                    /\ Within(2 * (SumFunction(a) - total), n - Cardinality(priced))
  BY DEF Shared
<1> DEFINE S == 1..n
           ssp == [j \in priced |-> obs[j].ssp]
           Upto(i) == {k \in priced : k < i}
<1>0. /\ IsFiniteSet(S) /\ Cardinality(S) = n /\ DOMAIN obs = S /\ Len(obs) = n
      /\ IsFiniteSet(priced) /\ priced \subseteq S
  <2>1. IsFiniteSet(S) /\ Cardinality(S) = n
    BY FirstNumbers
  <2>2. obs \in Seq(Obligation) /\ DOMAIN obs = 1..n
    OBVIOUS
  <2>3. Len(obs) = n
    BY <2>2
  <2>4. IsFiniteSet(priced) /\ priced \subseteq S
    BY <2>1, FS_Subset
  <2> QED
    BY <2>1, <2>2, <2>3, <2>4
<1>1. \A j \in priced : ssp[j] \in Int /\ ssp[j] \in Nat \ {0} /\ obs[j].ssp = ssp[j]
  <2> SUFFICES ASSUME NEW j \in priced PROVE obs[j].ssp \in Nat \ {0}
    OBVIOUS
  <2>1. obs[j] \in Obligation /\ obs[j].ssp # NoPrice
    OBVIOUS
  <2>2. obs[j].ssp \in Amounts \cup {NoPrice}
    BY <2>1 DEF Obligation
  <2> QED
    BY <2>1, <2>2, Prices
<1>2. PICK f : Sums(f, ssp, priced)
  <2> HIDE DEF ssp
  <2> QED
    BY <1>0, <1>1, SumsExist
<1>3. \A i : f[Upto(i)] \in Int /\ f[Upto(i)] = Sigma(Upto(i), ssp)
  <2> SUFFICES ASSUME NEW i PROVE f[Upto(i)] \in Int /\ f[Upto(i)] = Sigma(Upto(i), ssp)
    OBVIOUS
  <2>1. Upto(i) \in SUBSET priced
    OBVIOUS
  <2> HIDE DEF Upto
  <2> QED
    BY <1>2, <2>1 DEF Sums
<1> DEFINE Left(i) == IF f[Upto(i)] >= total THEN 0 ELSE total - f[Upto(i)]
           rest == Left(n + 1)
           others == n - Cardinality(priced)
           r == Engine!Round(rest, others)
<1>4. others \in Nat \ {0}
  <2>1. Cardinality(priced) \in Nat /\ Cardinality(priced) <= n
    BY <1>0, FS_Subset, FS_CardinalityType
  <2>2. Cardinality(priced) # n
    <3> HIDE DEF S
    <3> QED
      BY <1>0, FS_Subset DEF S
  <2> QED
    BY <2>1, <2>2
<1>5. \A i : Left(i) \in Nat
  <2> HIDE DEF Upto
  <2> QED
    BY <1>3
<1>6. r \in Int /\ 2 * (others * r) - 2 * rest <= others /\ -others <= 2 * (others * r) - 2 * rest
  <2>1. rest \in Int
    <3> HIDE DEF Left
    <3> QED
      BY <1>5
  <2> HIDE DEF rest, others
  <2> QED
    BY <1>4, <2>1, Rounding
<1>7. a = [i \in S |-> IF i \in priced THEN (IF ssp[i] <= Left(i) THEN ssp[i] ELSE Left(i)) ELSE r]
  <2>0. Engine!Known(obs) = priced
    BY <1>0 DEF Engine!Known
  <2>1. \A i : Engine!Left(obs, total, i) = Left(i)
    <3> SUFFICES ASSUME NEW i PROVE Engine!Left(obs, total, i) = Left(i)
      OBVIOUS
    <3>1. [j \in {k \in priced : k < i} |-> obs[j].ssp] = [j \in Upto(i) |-> ssp[j]]
      OBVIOUS
    <3>2. SumFunction([j \in Upto(i) |-> ssp[j]]) = f[Upto(i)]
      <4> HIDE DEF Upto
      <4> QED
        BY <1>3 DEF Sigma
    <3> QED
      BY <2>0, <3>1, <3>2, SameSum DEF Engine!Left
  <2>2. Engine!Cardinality(DOMAIN obs) - Engine!Cardinality(Engine!Known(obs)) = others
    BY <1>0, <2>0, SameCard
  <2> HIDE DEF Left, others, ssp
  <2>3. a = [i \in S |->
               IF i \in priced
               THEN (IF obs[i].ssp <= Left(i) THEN obs[i].ssp ELSE Left(i))
               ELSE Engine!Round(Left(n + 1), others)]
    BY <1>0, <2>0, <2>1, <2>2 DEF Engine!Residual
  <2> QED
    BY <1>1, <2>3
<1>8. a \in [S -> Int]
  <2> HIDE DEF Left, r, ssp
  <2> QED
    BY <1>1, <1>5, <1>6, <1>7
<1>9. PICK g : Sums(g, a, S)
  <2>1. \A q \in S : a[q] \in Int
    BY <1>8
  <2> QED
    BY <1>0, <2>1, SumsExist
<1> DEFINE Fine == {m \in Nat : m <= n => g[Upto(m + 1)] = total - Left(m + 1)}
<1>10. 0 \in Fine
  <2>1. Upto(0 + 1) = {}
    BY <1>0
  <2>2. f[{}] = 0 /\ g[{}] = 0
    BY <1>2, <1>9 DEF Sums
  <2>3. g[Upto(0 + 1)] = 0 /\ f[Upto(0 + 1)] = 0
    <3> HIDE DEF Upto
    <3> QED
      BY <2>1, <2>2
  <2>4. Left(0 + 1) = total
    <3> HIDE DEF Upto
    <3> QED
      BY <2>3
  <2> HIDE DEF Upto, Left
  <2>5. g[Upto(0 + 1)] = total - Left(0 + 1)
    BY <2>3, <2>4
  <2> QED
    BY <2>5
<1>11. ASSUME NEW m \in Nat, m \in Fine, m + 1 <= n PROVE m + 1 \in Fine
  <2> DEFINE i == m + 1
  <2>0. i \in S /\ m <= n
    BY <1>11
  <2>1. g[Upto(i)] = total - Left(i)
    <3> HIDE DEF Left, Upto
    <3> QED
      BY <1>11, <2>0
  <2>2. CASE i \in priced
    <3>1. Upto(i + 1) = Upto(i) \cup {i} /\ i \notin Upto(i) /\ Upto(i) \subseteq priced
      BY <1>0, <2>0, <2>2
    <3>2. f[Upto(i + 1)] = f[Upto(i)] + ssp[i] /\ f[Upto(i)] \in Int
      <4>1. Upto(i) \in SUBSET priced /\ i \in priced \ Upto(i) /\ f[Upto(i)] \in Int
        BY <1>3, <2>2, <3>1
      <4> HIDE DEF Upto, i, ssp
      <4>2. f[Upto(i) \cup {i}] = f[Upto(i)] + ssp[i]
        BY <1>2, <4>1 DEF Sums, Grows
      <4> QED
        BY <3>1, <4>1, <4>2
    <3>3. g[Upto(i + 1)] = g[Upto(i)] + a[i] /\ g[Upto(i)] \in Int
      <4>1. Upto(i) \in SUBSET S /\ i \in S \ Upto(i)
        BY <1>0, <2>0, <3>1
      <4> HIDE DEF Upto, i, S
      <4>2. g[Upto(i) \cup {i}] = g[Upto(i)] + a[i] /\ g[Upto(i)] \in Int
        BY <1>9, <4>1 DEF Sums, Grows
      <4> QED
        BY <3>1, <4>2
    <3>4. a[i] = IF ssp[i] <= Left(i) THEN ssp[i] ELSE Left(i)
      <4> HIDE DEF Left, r, ssp
      <4> QED
        BY <1>7, <2>0, <2>2
    <3>5. ssp[i] \in Nat \ {0}
      BY <1>1, <2>2
    <3> HIDE DEF Upto, ssp
    <3>6. g[Upto(i + 1)] = total - Left(i + 1)
      <4>1. CASE ssp[i] <= Left(i)
        BY <2>1, <3>2, <3>3, <3>4, <3>5, <4>1
      <4>2. CASE ~(ssp[i] <= Left(i))
        BY <2>1, <3>2, <3>3, <3>4, <3>5, <4>2
      <4> QED
        BY <4>1, <4>2
    <3> HIDE DEF Left
    <3> QED
      BY <3>6
  <2>3. CASE i \notin priced
    <3>1. Upto(i + 1) = Upto(i)
      BY <1>0, <2>0, <2>3
    <3> HIDE DEF Upto
    <3>2. Left(i + 1) = Left(i)
      BY <3>1
    <3> HIDE DEF Left
    <3>3. g[Upto(i + 1)] = total - Left(i + 1)
      BY <2>1, <3>1, <3>2
    <3> QED
      BY <3>3
  <2> QED
    BY <2>2, <2>3
<1>12. g[priced] = total - rest
  <2>1. n \in Fine
    <3> HIDE DEF Fine
    <3>1. \A k \in 0..(n - 1) : k \in Fine => k + 1 \in Fine
      BY <1>11
    <3> QED
      BY <1>10, <3>1, Upwards
  <2>2. Upto(n + 1) = priced
    BY <1>0
  <2>3. g[Upto(n + 1)] = total - rest
    <3> HIDE DEF Left, Upto
    <3> QED
      BY <2>1
  <2> HIDE DEF rest, Upto
  <2> QED
    BY <2>2, <2>3
<1> DEFINE U == S \ priced
<1>13. g[S] = g[priced] + g[U] /\ g[priced] \in Int /\ g[U] \in Int
  <2>1. S = priced \cup U /\ U \subseteq S /\ priced \cap U = {} /\ \A q \in S : a[q] \in Int
    BY <1>0, <1>8
  <2> HIDE DEF U, S
  <2>2. g[priced \cup U] = g[priced] + g[U]
    <3>1. Additive(g, S)
      BY <1>9, SumUnions
    <3> QED
      BY <1>0, <2>1, <3>1 DEF Additive
  <2> QED
    BY <1>0, <1>9, <2>1, <2>2 DEF Sums
<1>14. g[U] = r * others
  <2>1. IsFiniteSet(U) /\ Cardinality(U) = others
    <3>1. IsFiniteSet(U) /\ Cardinality(U) = Cardinality(S) - Cardinality(S \cap priced)
      BY <1>0, FS_Difference
    <3>2. S \cap priced = priced
      BY <1>0
    <3> QED
      BY <1>0, <3>1, <3>2
  <2>2. \A q \in U : a[q] = r
    <3> HIDE DEF Left, r, ssp
    <3> QED
      BY <1>7
  <2>3. g[U] = Sigma(U, a)
    BY <1>9 DEF Sums
  <2> HIDE DEF U, r
  <2>7. \A q \in U : a[q] \in Int /\ r <= a[q] /\ a[q] <= r
    BY <1>6, <2>2
  <2>4. r * Cardinality(U) <= Sigma(U, a)
    BY <1>6, <2>1, <2>7, SumAbove
  <2>5. Sigma(U, a) <= r * Cardinality(U)
    BY <1>6, <2>1, <2>7, SumBelow
  <2>6. r * Cardinality(U) \in Int
    BY <1>4, <1>6, <2>1
  <2> HIDE DEF others
  <2> QED
    BY <1>13, <2>1, <2>3, <2>4, <2>5, <2>6 DEF U
<1>15. SumFunction(a) = g[S]
  <2>1. a = [x \in S |-> a[x]] /\ DOMAIN a = S
    BY <1>8
  <2> HIDE DEF S
  <2> QED
    BY <1>9, <2>1, SumIsSigma DEF Sums
<1>16. Within(2 * (SumFunction(a) - total), others)
  <2>1. rest \in Int
    <3> HIDE DEF Left
    <3> QED
      BY <1>5
  <2> HIDE DEF rest, r, others, S, U
  <2>2. r * others = others * r /\ others * r \in Int
    BY <1>4, <1>6
  <2>3. SumFunction(a) - total = others * r - rest
    BY <1>12, <1>13, <1>14, <1>15, <2>1, <2>2
  <2> QED
    BY <1>6, <2>1, <2>2, <2>3 DEF Within
<1> QED
  BY <1>4, <1>8, <1>16

\* All that a contract's obligations say of its prices.
LEMMA TotalIsNat ==
  ASSUME NEW c \in Contract, NEW n \in Nat \ {0}, NEW obs, obs \in [1..n -> Obligation]
  PROVE  Total(c, obs) \in Nat
<1>1. CASE c.arr # NoPrice
  <2>1. c.arr \in Amounts \cup {NoPrice}
    BY DEF Contract
  <2> QED
    BY <1>1, <2>1, Prices DEF Total
<1>2. CASE c.arr = NoPrice
  <2> DEFINE w == [i \in 1..n |-> obs[i].price]
             S == 1..n
  <2>1. \A q \in S : w[q] \in Int /\ 0 <= w[q]
    <3> SUFFICES ASSUME NEW q \in S PROVE w[q] \in Int /\ 0 <= w[q]
      OBVIOUS
    <3>1. obs[q] \in Obligation
      OBVIOUS
    <3>2. obs[q].price \in Amounts
      BY <3>1 DEF Obligation
    <3>3. w[q] = obs[q].price
      OBVIOUS
    <3>4. obs[q].price \in Nat
      BY <3>2, Prices
    <3> HIDE DEF w
    <3> QED
      BY <3>3, <3>4
  <2>2. IsFiniteSet(S) /\ Cardinality(S) = n /\ 0 \in Int /\ 0 * n = 0
    BY FirstNumbers
  <2>3. DOMAIN w = S /\ w = [x \in S |-> w[x]] /\ DOMAIN obs = S
    OBVIOUS
  <2>4. Total(c, obs) = SumFunction(w)
    BY <1>2, <2>3 DEF Total
  <2> HIDE DEF w, S
  <2>5. 0 * Cardinality(S) <= Sigma(S, w)
    BY <2>1, <2>2, SumAbove
  <2>6. Sigma(S, w) \in Int
    BY <2>1, <2>2, SumType
  <2> QED
    BY <2>2, <2>3, <2>4, <2>5, <2>6, SumIsSigma
<1> QED
  BY <1>1, <1>2

LEMMA MagnitudeWithin ==
  ASSUME NEW d \in Int, NEW most \in Int, Within(2 * d, most)
  PROVE  2 * Magnitude(d) <= most
<1>1. CASE d < 0
  BY <1>1 DEF Magnitude, Within
<1>2. CASE ~(d < 0)
  BY <1>2 DEF Magnitude, Within
<1> QED
  BY <1>1, <1>2

\* allocatePrices: AllocationAddsUp, for any obligations.
LEMMA AllocatedIsFair ==
  ASSUME contract \in Contract, obligations \in Seq(Obligation), obligations # <<>>,
         allocations = Engine!Allocated(obligations, Total(contract, obligations))
  PROVE  /\ allocations \in Seq(Int) /\ Len(allocations) = Len(obligations)
         /\ allocations # <<>> /\ AllocationAddsUp
<1> DEFINE n == Len(obligations)
           S == 1..n
           total == Total(contract, obligations)
           priced == {i \in S : obligations[i].ssp # NoPrice}
           weights == [i \in S |-> Weight(i)]
<1>0. /\ n \in Nat \ {0} /\ DOMAIN obligations = S /\ obligations \in [S -> Obligation]
  OBVIOUS
<1>1. total \in Nat
  BY <1>0, TotalIsNat
<1>2. \A i \in S : /\ obligations[i].price \in Nat \ {0}
                   /\ obligations[i].ssp # NoPrice => obligations[i].ssp \in Nat \ {0}
  BY <1>0, Prices DEF Obligation
<1>3. ASSUME allocations \in [S -> Int]
      PROVE  allocations \in Seq(Int) /\ Len(allocations) = n /\ allocations # <<>>
  <2>1. allocations \in Seq(Int) /\ DOMAIN allocations = 1..n
    BY <1>0, <1>3
  <2>2. Len(allocations) = n
    BY <1>0, <2>1
  <2> QED
    BY <1>0, <2>1, <2>2
<1>4. CASE n = 1
  <2>1. allocations = <<obligations[1].price>>
    BY <1>4 DEF Engine!Allocated
  <2>2. obligations[1].price \in Int
    BY <1>2, <1>4
  <2>3. allocations \in [S -> Int] /\ allocations[1] = obligations[1].price
    BY <1>4, <2>1, <2>2
  <2>4. SumFunction(allocations) = allocations[1]
    <3> DEFINE a == allocations
    <3>1. \A q \in {1} : a[q] \in Int
      BY <2>2, <2>3
    <3>2. IsFiniteSet({1})
      BY FS_Singleton
    <3> HIDE DEF a
    <3>3. PICK f : Sums(f, a, {1})
      BY <3>1, <3>2, SumsExist
    <3>4. f[{} \cup {1}] = f[{}] + a[1] /\ f[{}] = 0
      BY <3>3 DEF Sums, Grows
    <3>5. {} \cup {1} = {1} /\ a[1] \in Int
      BY <3>1
    <3>6. f[{1}] = a[1]
      BY <3>4, <3>5
    <3>7. DOMAIN a = {1} /\ a = [x \in {1} |-> a[x]]
      BY <1>4, <2>3 DEF a
    <3>8. SumFunction(a) = Sigma({1}, a)
      BY <3>7, SumIsSigma
    <3>9. f[{1}] = Sigma({1}, a)
      BY <3>3 DEF Sums
    <3> QED
      BY <3>6, <3>8, <3>9 DEF a
  <2>5. Len(allocations) = 1
    BY <1>3, <1>4, <2>3
  <2>6. AllocationAddsUp
    BY <2>2, <2>3, <2>4, <2>5 DEF AllocationAddsUp, Magnitude
  <2> QED
    BY <1>3, <1>4, <2>3, <2>6
<1>5. ASSUME n # 1, weights \in [S -> Nat \ {0}],
             allocations = Engine!Proportional(weights, total), priced \in {{}, S}
      PROVE  allocations \in [S -> Int] /\ AllocationAddsUp
  <2> DEFINE W == SumFunction(weights)
  <2>1. /\ W \in Nat \ {0} /\ allocations \in [1..n -> Int] /\ SumFunction(allocations) = total
        /\ \A i \in 1..n : Within(2 * (allocations[i] * W - weights[i] * total),
                                  W * (IF i = n THEN n - 1 ELSE 1))
    <3>1. Proportioned(allocations, weights, total, n)
      BY <1>5 DEF Proportioned
    <3> HIDE DEF n, weights, total
    <3>2. Fair(allocations, weights, total, n)
      BY <1>0, <1>1, <3>1, ProportionalIsFair
    <3> QED
      BY <3>2 DEF Fair
  <2>2. Len(allocations) = n
    BY <1>3, <2>1
  <2>3. (IF n = 1 \/ priced = {} THEN 0 ELSE n - Cardinality(priced)) = 0
    <3>1. Cardinality(S) = n
      BY <1>0, FirstNumbers
    <3>2. CASE priced = {}
      BY <3>2
    <3>3. CASE priced = S
      <4>1. n - Cardinality(priced) = 0
        <5> HIDE DEF priced, S, n
        <5> QED
          BY <1>0, <3>1, <3>3
      <4> HIDE DEF priced, n
      <4> QED
        BY <4>1
    <3> QED
      BY <1>5, <3>2, <3>3
  <2>4. \A i \in S : 2 * Magnitude(allocations[i] * W - Weight(i) * total)
                       <= W * (IF i = n THEN n - 1 ELSE 1)
    <3> SUFFICES ASSUME NEW i \in S
                 PROVE  2 * Magnitude(allocations[i] * W - Weight(i) * total)
                          <= W * (IF i = n THEN n - 1 ELSE 1)
      OBVIOUS
    <3>1. weights[i] = Weight(i) /\ weights[i] \in Nat /\ allocations[i] \in Int
      BY <1>5, <2>1
    <3> HIDE DEF W, weights, total
    <3>2. allocations[i] * W - Weight(i) * total \in Int
      BY <1>1, <2>1, <3>1
    <3> QED
      BY <2>1, <3>1, <3>2, MagnitudeWithin
  <2>5. 2 * Magnitude(SumFunction(allocations) - total) <= 0
    <3> HIDE DEF total
    <3> QED
      BY <1>1, <2>1 DEF Magnitude
  <2>6. AllocationAddsUp
    <3> SUFFICES ASSUME allocations # <<>> PROVE AllocationAddsUp
      BY DEF AllocationAddsUp
    <3>1. priced = {i \in DOMAIN obligations : obligations[i].ssp # NoPrice}
      BY <1>0
    <3>2. SumFunction([i \in 1..n |-> Weight(i)]) = W
      OBVIOUS
    <3> HIDE DEF n, W, weights, total, priced
    <3> QED
      BY <1>5, <2>2, <2>3, <2>4, <2>5, <3>1, <3>2 DEF AllocationAddsUp, n, total
  <2> QED
    BY <2>1, <2>6
<1>6. CASE n # 1 /\ priced = S
  <2>1. allocations = Engine!Proportional([i \in S |-> obligations[i].ssp], total)
    BY <1>0, <1>6 DEF Engine!Allocated
  <2>2. weights = [i \in S |-> obligations[i].ssp]
    BY <1>6 DEF Weight
  <2>3. weights \in [S -> Nat \ {0}]
    BY <1>2, <1>6, <2>2
  <2> QED
    BY <1>3, <1>5, <1>6, <2>1, <2>2, <2>3
<1>7. CASE n # 1 /\ priced = {}
  <2>1. allocations = Engine!Proportional([i \in S |-> obligations[i].price], total)
    BY <1>0, <1>7 DEF Engine!Allocated
  <2>2. weights = [i \in S |-> obligations[i].price]
    BY <1>7 DEF Weight
  <2>3. weights \in [S -> Nat \ {0}]
    BY <1>2, <1>7, <2>2
  <2> QED
    BY <1>3, <1>5, <1>7, <2>1, <2>2, <2>3
<1>8. CASE n # 1 /\ priced # {} /\ priced # S
  <2>1. allocations = Engine!Residual(obligations, total)
    BY <1>0, <1>8 DEF Engine!Allocated
  <2>2. /\ allocations \in [S -> Int] /\ n - Cardinality(priced) \in Nat
        /\ Within(2 * (SumFunction(allocations) - total), n - Cardinality(priced))
    <3>1. Shared(allocations, obligations, total, n, priced)
      BY <1>0, <1>8, <2>1 DEF Shared
    <3> HIDE DEF n, total, priced
    <3> QED
      BY <1>0, <1>1, <3>1, ResidualIsFair
  <2>3. Len(allocations) = n
    BY <1>3, <2>2
  <2>4. n - Cardinality(priced) # 0
    <3>1. Cardinality(priced) # Cardinality(S)
      <4>1. IsFiniteSet(S) /\ priced \subseteq S
        BY <1>0, FirstNumbers
      <4> HIDE DEF priced, S
      <4> QED
        BY <1>8, <4>1, FS_Subset
    <3>2. Cardinality(S) = n
      BY <1>0, FirstNumbers
    <3>3. Cardinality(priced) \in Nat
      <4>1. IsFiniteSet(priced)
        BY <1>0, FirstNumbers, FS_Subset
      <4> QED
        BY <4>1, FS_CardinalityType
    <3> HIDE DEF priced, n
    <3> QED
      BY <1>0, <3>1, <3>2, <3>3
  <2>5. SumFunction(allocations) - total \in Int
    <3>1. \A q \in S : allocations[q] \in Int
      BY <2>2
    <3>2. IsFiniteSet(S) /\ allocations = [x \in S |-> allocations[x]] /\ DOMAIN allocations = S
      BY <1>0, <2>2, FirstNumbers
    <3> HIDE DEF S, total
    <3>3. Sigma(S, allocations) \in Int
      BY <3>1, <3>2, SumType
    <3> QED
      BY <1>1, <3>2, <3>3, SumIsSigma
  <2>6. 2 * Magnitude(SumFunction(allocations) - total) <= n - Cardinality(priced)
    <3> HIDE DEF n, total, priced
    <3> QED
      BY <2>2, <2>5, MagnitudeWithin
  <2>7. AllocationAddsUp
    <3>1. priced = {i \in DOMAIN obligations : obligations[i].ssp # NoPrice}
      BY <1>0
    <3> HIDE DEF n, total, priced
    <3> QED
      BY <1>8, <2>3, <2>4, <2>6, <3>1 DEF AllocationAddsUp, n, total
  <2> QED
    BY <1>3, <2>2, <2>7
<1> QED
  BY <1>4, <1>6, <1>7, <1>8

(***************************************************************************)
(* Schedules                                                               *)
(***************************************************************************)
Service(first, last) == first \in Days /\ last \in Days /\ first < last
Covers(s, d, last) == s <= d /\ d <= Engine!PeriodEnd(s, last)

LEMMA Months ==
  ASSUME NEW first, NEW last, Service(first, last), NEW d \in first..last
  PROVE  /\ first \in Nat /\ last \in Nat /\ d \in Nat
         /\ EndOfMonth(d) \in Nat /\ d <= EndOfMonth(d)
         /\ \A c \in d..last : c <= EndOfMonth(d) => EndOfMonth(c) = EndOfMonth(d)
<1>1. first \in Nat /\ last \in Nat
  BY ScheduleAssumption DEF Service
<1>2. \A e \in first..last :
        /\ EndOfMonth(e) \in Nat /\ e <= EndOfMonth(e)
        /\ \A c \in e..last : c <= EndOfMonth(e) => EndOfMonth(c) = EndOfMonth(e)
  BY ScheduleAssumption DEF Service
<1> QED
  BY <1>1, <1>2

LEMMA PeriodsStart ==
  ASSUME NEW first, NEW last, Service(first, last), NEW s \in Engine!Starts(first, last)
  PROVE  /\ s \in first..last /\ s \in Nat /\ Covers(s, s, last)
         /\ Engine!PeriodEnd(s, last) \in first..last /\ Engine!PeriodEnd(s, last) \in Nat
         /\ s # first => \E c \in first..last : EndOfMonth(c) < last /\ s = EndOfMonth(c) + 1
<1>1. first \in first..last /\ first \in Nat /\ last \in Nat
  <2>1. first \in Nat /\ last \in Nat /\ first < last
    BY ScheduleAssumption DEF Service
  <2> QED
    BY <2>1
<1>2. s # first => \E c \in first..last : EndOfMonth(c) < last /\ s = EndOfMonth(c) + 1
  BY DEF Engine!Starts
<1>3. s \in first..last
  <2>1. CASE s = first
    BY <1>1, <2>1
  <2>2. CASE s # first
    <3>1. PICK c \in first..last : EndOfMonth(c) < last /\ s = EndOfMonth(c) + 1
      BY <1>2, <2>2
    <3>2. EndOfMonth(c) \in Nat /\ c <= EndOfMonth(c)
      BY Months
    <3> QED
      BY <1>1, <3>1, <3>2
  <2> QED
    BY <2>1, <2>2
<1>4. EndOfMonth(s) \in Nat /\ s <= EndOfMonth(s) /\ s \in Nat
  BY <1>3, Months
<1>5. Covers(s, s, last) /\ Engine!PeriodEnd(s, last) \in first..last
  BY <1>1, <1>3, <1>4 DEF Covers, Engine!PeriodEnd
<1> QED
  BY <1>1, <1>2, <1>3, <1>4, <1>5

LEMMA StartsAreFinite ==
  ASSUME NEW first, NEW last, Service(first, last)
  PROVE  IsFiniteSet(Engine!Starts(first, last)) /\ first \in Engine!Starts(first, last)
<1>1. first \in Nat /\ last \in Nat
  BY ScheduleAssumption DEF Service
<1>2. IsFiniteSet(first..last)
  BY <1>1, FS_Interval
<1>3. Engine!Starts(first, last) \subseteq first..last
  BY PeriodsStart
<1> QED
  BY <1>2, <1>3, FS_Subset DEF Engine!Starts

\* Each day of the service is in a period.
LEMMA DaysAreCovered ==
  ASSUME NEW first, NEW last, Service(first, last), NEW d \in first..last
  PROVE  \E s \in Engine!Starts(first, last) : Covers(s, d, last)
<1> DEFINE M == {c \in first..d : EndOfMonth(c) = EndOfMonth(d)}
<1>0. first \in Nat /\ last \in Nat /\ d \in Nat /\ EndOfMonth(d) \in Nat /\ d <= EndOfMonth(d)
      /\ first <= d /\ d <= last
  BY Months
<1>1. PICK t \in M : \A c \in M : t <= c
  <2>1. M \subseteq Nat /\ d \in M
    BY <1>0
  <2> HIDE DEF M
  <2>2. M # {}
    BY <2>1
  <2> QED
    BY <2>1, <2>2, Lowest
<1>2. t \in first..last /\ t <= d /\ EndOfMonth(t) = EndOfMonth(d) /\ t \in Nat
  BY <1>0
<1>3. Covers(t, d, last)
  BY <1>0, <1>2 DEF Covers, Engine!PeriodEnd
<1>4. t \in Engine!Starts(first, last)
  <2>1. CASE t = first
    BY <2>1 DEF Engine!Starts
  <2>2. CASE t # first
    <3> DEFINE c == t - 1
    <3>1. c \in first..last /\ c \in first..d /\ c < t
      BY <1>0, <1>2, <2>2
    <3>2. EndOfMonth(c) # EndOfMonth(d)
      BY <1>1, <1>2, <3>1
    <3>3. /\ EndOfMonth(c) \in Nat /\ c <= EndOfMonth(c)
          /\ \A e \in c..last : e <= EndOfMonth(c) => EndOfMonth(e) = EndOfMonth(c)
      <4> HIDE DEF c
      <4> QED
        BY <3>1, Months
    <3>4. t \in c..last
      BY <1>2
    <3>5. ~(t <= EndOfMonth(c))
      BY <1>2, <3>2, <3>3, <3>4
    <3>6. EndOfMonth(c) = c /\ t = EndOfMonth(c) + 1 /\ EndOfMonth(c) < last
      BY <1>0, <1>2, <3>3, <3>5
    <3> HIDE DEF c
    <3> QED
      BY <3>1, <3>6 DEF Engine!Starts
  <2> QED
    BY <2>1, <2>2
<1> QED
  BY <1>3, <1>4

\* No day of the service is in two periods.
LEMMA PeriodsAreDisjoint ==
  ASSUME NEW first, NEW last, Service(first, last), NEW d \in Int,
         NEW s \in Engine!Starts(first, last), Covers(s, d, last),
         NEW t \in Engine!Starts(first, last), Covers(t, d, last)
  PROVE  s = t
<1>1. ASSUME NEW p \in Engine!Starts(first, last), Covers(p, d, last),
             NEW q \in Engine!Starts(first, last), Covers(q, d, last), p < q
      PROVE  FALSE
  <2>1. p \in first..last /\ p \in Nat /\ q \in first..last /\ q \in Nat /\ q # first
        /\ first \in Nat /\ last \in Nat
    <3>1. first \in Nat /\ last \in Nat
      BY ScheduleAssumption DEF Service
    <3>2. p \in first..last /\ p \in Nat /\ q \in first..last /\ q \in Nat
      BY PeriodsStart
    <3> QED
      BY <1>1, <3>1, <3>2
  <2>2. PICK c \in first..last : EndOfMonth(c) < last /\ q = EndOfMonth(c) + 1
    BY <2>1, PeriodsStart
  <2>3. EndOfMonth(c) \in Nat /\ c <= EndOfMonth(c) /\ c \in Nat
        /\ \A e \in c..last : e <= EndOfMonth(c) => EndOfMonth(e) = EndOfMonth(c)
    BY Months
  <2> DEFINE e == EndOfMonth(c)
  <2>4. e \in c..last /\ e = q - 1 /\ e \in p..last
    BY <1>1, <2>1, <2>2, <2>3
  <2>5. EndOfMonth(e) = e
    BY <2>3, <2>4
  <2>6. EndOfMonth(p) \in Nat
        /\ \A x \in p..last : x <= EndOfMonth(p) => EndOfMonth(x) = EndOfMonth(p)
    BY <2>1, Months
  <2>7. q <= EndOfMonth(p)
    BY <1>1, <2>1, <2>6 DEF Covers, Engine!PeriodEnd
  <2> HIDE DEF e
  <2>8. EndOfMonth(e) = EndOfMonth(p)
    BY <2>1, <2>4, <2>6, <2>7
  <2> QED
    BY <2>1, <2>4, <2>5, <2>7, <2>8
<1>2. s \in Nat /\ t \in Nat
  BY PeriodsStart
<1> QED
  BY <1>1, <1>2

Length(s, last) == Engine!PeriodEnd(s, last) - s + 1
Lengths(first, last) == [s \in Engine!Starts(first, last) |-> Length(s, last)]

\* The periods have as many days as the service.
LEMMA LengthsAddUp ==
  ASSUME NEW first, NEW last, Service(first, last)
  PROVE  /\ \A s \in Engine!Starts(first, last) : Lengths(first, last)[s] \in Nat
         /\ Sigma(Engine!Starts(first, last), Lengths(first, last)) = last - first + 1
<1> DEFINE S == first..last
           K == Engine!Starts(first, last)
           v == Lengths(first, last)
           w == [d \in S |-> 1]
           key == [d \in S |-> CHOOSE s \in K : Covers(s, d, last)]
<1>0. first \in Nat /\ last \in Nat /\ first < last
  BY ScheduleAssumption DEF Service
<1>1. IsFiniteSet(S) /\ Cardinality(S) = last - first + 1
  BY <1>0, FS_Interval
<1>2. IsFiniteSet(K)
  BY StartsAreFinite
<1>3. \A d \in S : key[d] \in K /\ Covers(key[d], d, last)
  <2> SUFFICES ASSUME NEW d \in S PROVE key[d] \in K /\ Covers(key[d], d, last)
    OBVIOUS
  <2>1. \E s \in K : Covers(s, d, last)
    BY DaysAreCovered
  <2> HIDE DEF K
  <2> QED
    BY <2>1
<1>4. \A q \in S : w[q] \in Int /\ 1 <= w[q] /\ w[q] <= 1
  OBVIOUS
<1>5. ASSUME NEW s \in SUBSET S PROVE Sigma(s, w) = Cardinality(s) /\ Cardinality(s) \in Nat
  <2>1. IsFiniteSet(s)
    BY <1>1, FS_Subset
  <2>2. \A q \in s : w[q] \in Int /\ 1 <= w[q] /\ w[q] <= 1
    BY <1>4
  <2>3. 1 \in Int /\ Cardinality(s) \in Nat
    BY <2>1, FS_CardinalityType
  <2> HIDE DEF w, S
  <2>4. 1 * Cardinality(s) <= Sigma(s, w)
    BY <2>1, <2>2, <2>3, SumAbove
  <2>5. Sigma(s, w) <= 1 * Cardinality(s)
    BY <2>1, <2>2, <2>3, SumBelow
  <2>6. Sigma(s, w) \in Int
    BY <2>1, <2>2, SumType
  <2> QED
    BY <2>3, <2>4, <2>5, <2>6
<1>6. ASSUME NEW k \in K
      PROVE  v[k] \in Nat /\ v[k] = Sigma({y \in S : key[y] = k}, w)
  <2>1. k \in Nat /\ k \in S /\ Engine!PeriodEnd(k, last) \in Nat
        /\ Engine!PeriodEnd(k, last) \in S /\ k <= Engine!PeriodEnd(k, last)
    BY PeriodsStart DEF Covers
  <2>2. {y \in S : key[y] = k} = k..Engine!PeriodEnd(k, last)
    <3>1. ASSUME NEW y \in S, key[y] = k PROVE y \in k..Engine!PeriodEnd(k, last)
      <4>1. Covers(k, y, last)
        <5> HIDE DEF key
        <5> QED
          BY <1>3, <3>1
      <4> QED
        BY <1>0, <2>1, <4>1 DEF Covers
    <3>2. ASSUME NEW y \in k..Engine!PeriodEnd(k, last) PROVE y \in S /\ key[y] = k
      <4>1. y \in S /\ Covers(k, y, last) /\ y \in Int
        BY <1>0, <2>1 DEF Covers
      <4>2. key[y] \in K /\ Covers(key[y], y, last)
        <5> HIDE DEF key, K, S
        <5> QED
          BY <1>3, <4>1
      <4> HIDE DEF key
      <4> QED
        BY <4>1, <4>2, PeriodsAreDisjoint
    <3> HIDE DEF key
    <3> QED
      BY <3>1, <3>2
  <2>3. Cardinality(k..Engine!PeriodEnd(k, last)) = Length(k, last)
    BY <2>1, FS_Interval DEF Length
  <2>4. k..Engine!PeriodEnd(k, last) \in SUBSET S
    BY <1>0, <2>1
  <2>5. v[k] = Length(k, last)
    BY DEF Lengths
  <2> HIDE DEF v, K, key, w, S
  <2> QED
    BY <1>5, <2>2, <2>3, <2>4, <2>5
<1>7. Sigma(K, v) = Sigma(S, w)
  <2> HIDE DEF v, K, key, w, S
  <2>1. SumsByKey(v, K, S, key, w)
    BY <1>6 DEF SumsByKey
  <2> QED
    BY <1>1, <1>2, <1>3, <1>4, <2>1, SumParts
<1>8. Sigma(S, w) = last - first + 1
  <2> HIDE DEF w
  <2> QED
    BY <1>1, <1>5
<1> HIDE DEF w, S
<1> QED
  BY <1>6, <1>7, <1>8

\* One period, and no other, ends on the last day.
LEMMA OneIsLast ==
  ASSUME NEW first, NEW last, Service(first, last)
  PROVE  \E s \in Engine!Starts(first, last) :
           /\ Engine!PeriodEnd(s, last) = last
           /\ \A t \in Engine!Starts(first, last) : Engine!PeriodEnd(t, last) = last => t = s
<1>0. first \in Nat /\ last \in Nat /\ first < last
  BY ScheduleAssumption DEF Service
<1>1. last \in first..last
  BY <1>0
<1>2. PICK s \in Engine!Starts(first, last) : Covers(s, last, last)
  BY <1>1, DaysAreCovered
<1>3. Engine!PeriodEnd(s, last) = last
  <2>1. Engine!PeriodEnd(s, last) \in first..last
    BY PeriodsStart
  <2> QED
    BY <1>0, <1>2, <2>1 DEF Covers
<1>4. ASSUME NEW t \in Engine!Starts(first, last), Engine!PeriodEnd(t, last) = last
      PROVE  t = s
  <2>1. t \in first..last
    BY PeriodsStart
  <2>2. Covers(t, last, last)
    BY <1>0, <1>4, <2>1 DEF Covers
  <2>3. last \in Int
    BY <1>0
  <2> QED
    BY <1>2, <2>2, <2>3, PeriodsAreDisjoint
<1> QED
  BY <1>3, <1>4

\* Periods that end on one day are one.
LEMMA EndsDiffer ==
  ASSUME NEW first, NEW last, Service(first, last),
         NEW s \in Engine!Starts(first, last), NEW t \in Engine!Starts(first, last),
         Engine!PeriodEnd(s, last) = Engine!PeriodEnd(t, last)
  PROVE  s = t
<1> DEFINE d == Engine!PeriodEnd(s, last)
<1>1. d \in Int /\ s \in Nat /\ t \in Nat /\ s <= d /\ t <= Engine!PeriodEnd(t, last)
  BY PeriodsStart DEF Covers
<1>2. Covers(s, d, last) /\ Covers(t, d, last)
  BY <1>1 DEF Covers
<1> HIDE DEF d
<1> QED
  BY <1>1, <1>2, PeriodsAreDisjoint

Share(s, first, last, amount) == Engine!Round(amount * Length(s, last), last - first)
Shares(first, last, amount) ==
  [s \in Engine!Starts(first, last) |-> Share(s, first, last, amount)]
Others(first, last, final) == Engine!Starts(first, last) \ {final}
\* What each period is scheduled, the final one the rest.
Scheduled(first, last, amount, final) ==
  [s \in Engine!Starts(first, last) |->
     IF s = final THEN amount - Sigma(Others(first, last, final), Shares(first, last, amount))
     ELSE Shares(first, last, amount)[s]]
Straight(s, last, amount) ==
  [start |-> s, end |-> Engine!PeriodEnd(s, last), scheduled |-> amount, recognized |-> 0,
   method |-> "straight_line"]

LEMMA StraightLineSchedules ==
  ASSUME NEW first, NEW last, Service(first, last), NEW amount \in Int
  PROVE  \E final \in Engine!Starts(first, last) :
           /\ Engine!PeriodEnd(final, last) = last
           /\ Engine!StraightLine(first, last, amount)
                = {Straight(s, last, Scheduled(first, last, amount, final)[s]) :
                     s \in Engine!Starts(first, last)}
<1> DEFINE K == Engine!Starts(first, last)
           final == CHOOSE s \in K : Engine!PeriodEnd(s, last) = last
<1>1. final \in K /\ Engine!PeriodEnd(final, last) = last
  <2>1. \E s \in K : Engine!PeriodEnd(s, last) = last
    BY OneIsLast
  <2> HIDE DEF K
  <2> QED
    BY <2>1
<1>2. Engine!SumFunction([t \in K \ {final} |->
          Engine!Round(amount * (Engine!PeriodEnd(t, last) - t + 1), last - first)])
      = Sigma(Others(first, last, final), Shares(first, last, amount))
  <2>1. [t \in K \ {final} |->
          Engine!Round(amount * (Engine!PeriodEnd(t, last) - t + 1), last - first)]
        = [t \in Others(first, last, final) |-> Shares(first, last, amount)[t]]
    <3> HIDE DEF final
    <3> QED
      BY DEF Others, Shares, Share, Length
  <2> QED
    BY <2>1, SameSum DEF Sigma
<1>3. Engine!StraightLine(first, last, amount)
      = {Engine!Period(s, Engine!PeriodEnd(s, last),
            IF s = final
            THEN amount - Engine!SumFunction([t \in K \ {final} |->
                   Engine!Round(amount * (Engine!PeriodEnd(t, last) - t + 1), last - first)])
            ELSE Engine!Round(amount * (Engine!PeriodEnd(s, last) - s + 1), last - first),
            0, "straight_line") : s \in K}
  BY Zenon DEF Engine!StraightLine
<1> HIDE DEF final
<1>4. ASSUME NEW s \in K
      PROVE  Engine!Period(s, Engine!PeriodEnd(s, last),
                IF s = final
                THEN amount - Engine!SumFunction([t \in K \ {final} |->
                       Engine!Round(amount * (Engine!PeriodEnd(t, last) - t + 1), last - first)])
                ELSE Engine!Round(amount * (Engine!PeriodEnd(s, last) - s + 1), last - first),
                0, "straight_line")
             = Straight(s, last, Scheduled(first, last, amount, final)[s])
  BY <1>2 DEF Engine!Period, Straight, Scheduled, Shares, Share, Length
<1>5. Engine!StraightLine(first, last, amount)
      = {Straight(s, last, Scheduled(first, last, amount, final)[s]) : s \in K}
  BY <1>3, <1>4, Zenon
<1> QED
  BY <1>1, <1>5

\* Each period has its share, and they add up.
LEMMA SharesAddUp ==
  ASSUME NEW first, NEW last, Service(first, last), NEW amount \in Int,
         NEW final \in Engine!Starts(first, last)
  PROVE  LET K == Engine!Starts(first, last)
             w == Scheduled(first, last, amount, final)
         IN  /\ \A s \in K : w[s] \in Int
             /\ Sigma(K, w) = amount
             /\ \A s \in K : Within(2 * (w[s] * (last - first) - amount * Length(s, last)),
                              2 * Magnitude(amount) + Cardinality(K) * (last - first))
<1> DEFINE K == Engine!Starts(first, last)
           O == Others(first, last, final)
           n == last - first
           sh == Shares(first, last, amount)
           len == Lengths(first, last)
           w == Scheduled(first, last, amount, final)
           x == Sigma(O, sh)
<1>0. n \in Nat \ {0}
  BY ScheduleAssumption DEF Service
<1>1. /\ IsFiniteSet(K) /\ IsFiniteSet(O) /\ final \in K /\ O \subseteq K /\ final \notin O
      /\ K = O \cup {final} /\ Cardinality(K) \in Nat /\ Cardinality(O) \in Nat
      /\ Cardinality(K) = Cardinality(O) + 1
  <2>1. IsFiniteSet(K) /\ final \in K /\ O = K \ {final}
    BY StartsAreFinite DEF Others
  <2> HIDE DEF K, O
  <2>2. K = O \cup {final} /\ O \subseteq K /\ final \notin O
    BY <2>1
  <2> QED
    BY <2>1, <2>2, OneLess
<1>2. \A s \in K : len[s] \in Nat /\ len[s] = Length(s, last)
  BY LengthsAddUp DEF Lengths
<1>3. ASSUME NEW s \in K
      PROVE  sh[s] \in Int /\ Within(2 * (sh[s] * n - amount * len[s]), n)
  <2> DEFINE m == amount * len[s]
             r == Engine!Round(m, n)
  <2>1. m \in Int
    BY <1>2
  <2>2. r \in Int /\ 2 * (n * r) - 2 * m <= n /\ -n <= 2 * (n * r) - 2 * m
    <3> HIDE DEF m, n
    <3> QED
      BY <1>0, <2>1, Rounding
  <2>3. sh[s] = r
    BY <1>2 DEF Shares, Share
  <2> HIDE DEF m, r, sh, n
  <2>4. 2 * (r * n - m) = 2 * (n * r) - 2 * m /\ 2 * (r * n - m) \in Int
    BY <1>0, <2>1, <2>2
  <2> QED
    BY <2>2, <2>3, <2>4 DEF Within, m
<1>4. x \in Int
  <2>1. \A q \in O : sh[q] \in Int
    BY <1>1, <1>3
  <2> HIDE DEF O, sh
  <2> QED
    BY <1>1, <2>1, SumType
<1>5. \A s \in K : w[s] = IF s = final THEN amount - x ELSE sh[s]
  BY DEF Scheduled
<1> HIDE DEF K, O, sh, len, w, x
<1>6. \A s \in K : w[s] \in Int
  BY <1>3, <1>4, <1>5
<1>7. Sigma(K, w) = amount
  <2>1. PICK f : Sums(f, w, K)
    BY <1>1, <1>6, SumsExist
  <2>2. f[O \cup {final}] = f[O] + w[final]
    BY <1>1, <2>1 DEF Sums, Grows
  <2>3. f[O] = Sigma(O, w) /\ f[K] = Sigma(K, w)
    BY <1>1, <2>1 DEF Sums
  <2>4. Sigma(O, w) = x
    <3>1. \A s \in O : w[s] = sh[s]
      BY <1>1, <1>5
    <3> QED
      BY <3>1, SameSummands DEF x
  <2>5. w[final] = amount - x
    BY <1>1, <1>5
  <2> QED
    BY <1>1, <1>4, <2>2, <2>3, <2>4, <2>5
<1> DEFINE most == 2 * Magnitude(amount) + Cardinality(K) * n
<1>8. Magnitude(amount) \in Nat /\ -Magnitude(amount) <= amount /\ amount <= Magnitude(amount)
  BY DEF Magnitude
<1>9. most \in Int /\ n <= most /\ most = 2 * Magnitude(amount) + Cardinality(O) * n + n
      /\ Cardinality(O) * n \in Nat
  <2> HIDE DEF n
  <2>1. Cardinality(K) * n = Cardinality(O) * n + n
    BY <1>0, <1>1
  <2>2. Cardinality(O) * n \in Nat
    BY <1>0, <1>1
  <2> QED
    BY <1>0, <1>8, <2>1, <2>2
<1>10. ASSUME NEW s \in K
       PROVE  Within(2 * (w[s] * n - amount * len[s]), most)
  <2>1. CASE s # final
    <3>1. w[s] = sh[s]
      BY <1>5, <2>1
    <3>2. Within(2 * (w[s] * n - amount * len[s]), n)
      BY <1>3, <3>1
    <3> HIDE DEF most, n
    <3> QED
      BY <1>0, <1>9, <3>2 DEF Within
  <2>2. CASE s = final
    <3> DEFINE u == [q \in O |-> (2 * amount) * len[q] + (-2 * n) * sh[q]]
               z == Sigma(O, u)
               y == Sigma(O, len)
    <3>1. \A q \in O : u[q] \in Int /\ -n <= u[q] /\ u[q] <= n
      <4> SUFFICES ASSUME NEW q \in O PROVE u[q] \in Int /\ -n <= u[q] /\ u[q] <= n
        OBVIOUS
      <4>1. q \in K /\ len[q] \in Int /\ sh[q] \in Int
        BY <1>1, <1>2, <1>3
      <4>2. Within(2 * (sh[q] * n - amount * len[q]), n)
        BY <1>3, <4>1
      <4>3. u[q] = (2 * amount) * len[q] + (-2 * n) * sh[q]
        OBVIOUS
      <4> HIDE DEF u, n
      <4>4. ASSUME NEW e \in Int, NEW d \in Int
            PROVE  (2 * amount) * d + (-2 * n) * e = -(2 * (e * n - amount * d))
        BY <1>0
      <4>5. u[q] = -(2 * (sh[q] * n - amount * len[q]))
        BY <4>1, <4>3, <4>4
      <4> QED
        BY <1>0, <4>2, <4>5 DEF Within
    <3>2. z = (2 * amount) * y + (-2 * n) * x
      <4>1. \A q \in O : len[q] \in Int /\ sh[q] \in Int
                           /\ u[q] = (2 * amount) * len[q] + (-2 * n) * sh[q]
        BY <1>1, <1>2, <1>3
      <4>2. 2 * amount \in Int /\ -2 * n \in Int
        BY <1>0
      <4>4. Combines(u, 2 * amount, len, -2 * n, sh, O)
        BY <4>1, <4>2 DEF Combines
      <4> DEFINE aa == 2 * amount
                 bb == -2 * n
      <4> HIDE DEF u, aa, bb
      <4>5. Sigma(O, u) = aa * Sigma(O, len) + bb * Sigma(O, sh)
        <5>1. Combines(u, aa, len, bb, sh, O)
          BY <4>4 DEF aa, bb
        <5> QED
          BY <1>1, <5>1, SumLinear
      <4> QED
        BY <4>5 DEF aa, bb, x
    <3>3. /\ z \in Int /\ z <= n * Cardinality(O) /\ (-n) * Cardinality(O) <= z
      <4>1. -n \in Int /\ n \in Int
        BY <1>0
      <4> HIDE DEF u, n
      <4>2. z \in Int
        BY <1>1, <3>1, SumType
      <4>3. z <= n * Cardinality(O)
        BY <1>1, <3>1, <4>1, SumBelow
      <4>4. (-n) * Cardinality(O) <= z
        <5> DEFINE low == -n
        <5>1. low \in Int /\ \A q \in O : u[q] \in Int /\ low <= u[q]
          BY <3>1, <4>1
        <5> HIDE DEF low
        <5>2. low * Cardinality(O) <= z
          BY <1>1, <5>1, SumAbove
        <5> QED
          BY <5>2 DEF low
      <4> QED
        BY <4>2, <4>3, <4>4
    <3>4. y \in Int /\ y + len[final] = n + 1 /\ len[final] \in Int
      <4>1. \A q \in K : len[q] \in Int
        BY <1>2
      <4>2. PICK f : Sums(f, len, K)
        BY <1>1, <4>1, SumsExist
      <4>3. f[O \cup {final}] = f[O] + len[final]
        BY <1>1, <4>2 DEF Sums, Grows
      <4>4. f[O] = y /\ f[K] = Sigma(K, len) /\ f[O] \in Int
        BY <1>1, <4>2 DEF Sums
      <4>5. Sigma(K, len) = last - first + 1
        BY LengthsAddUp DEF K, len
      <4>6. last - first + 1 = n + 1
        OBVIOUS
      <4> HIDE DEF n, y
      <4> QED
        BY <1>1, <4>1, <4>3, <4>4, <4>5, <4>6
    <3>5. 2 * ((amount - x) * n - amount * len[final]) = z - 2 * amount
      <4> HIDE DEF z, y, n
      <4> DEFINE l == len[final]
                 k == y + l - 1
      <4>0. n = k /\ l \in Int /\ k \in Int
        BY <1>0, <3>4
      <4>1. n = k /\ l \in Int /\ k \in Int /\ z = (2 * amount) * y + (-2 * k) * x
        <5> HIDE DEF k
        <5> QED
          BY <3>2, <4>0
      <4>2. (amount - x) * k - amount * l = amount * y - amount - x * k
        BY <1>4, <3>4, <4>1
      <4> HIDE DEF k, l
      <4>3. (-2 * k) * x = -2 * (x * k) /\ (2 * amount) * y = 2 * (amount * y)
            /\ amount * y \in Int /\ x * k \in Int
        BY <1>4, <3>4, <4>1
      <4>4. 2 * ((amount - x) * k - amount * l) = z - 2 * amount
        BY <4>1, <4>2, <4>3
      <4> QED
        BY <4>1, <4>4 DEF l
    <3>6. w[s] = amount - x
      BY <1>5, <2>2
    <3>7. Within(2 * (w[s] * n - amount * len[s]), most)
      <4>1. 2 * (w[s] * n - amount * len[s]) = z - 2 * amount
        BY <2>2, <3>5, <3>6
      <4>2. (-n) * Cardinality(O) = -(Cardinality(O) * n) /\ n * Cardinality(O) = Cardinality(O) * n
        BY <1>0, <1>1
      <4> HIDE DEF z, n, most
      <4> QED
        BY <1>0, <1>8, <1>9, <3>3, <4>1, <4>2 DEF Within
    <3> QED
      BY <3>7
  <2> QED
    BY <2>1, <2>2
<1>11. \A s \in K : Within(2 * (w[s] * (last - first) - amount * Length(s, last)),
                           2 * Magnitude(amount) + Cardinality(K) * (last - first))
  <2> SUFFICES ASSUME NEW s \in K
               PROVE  Within(2 * (w[s] * (last - first) - amount * Length(s, last)),
                             2 * Magnitude(amount) + Cardinality(K) * (last - first))
    OBVIOUS
  <2>1. len[s] = Length(s, last)
    BY <1>2
  <2> QED
    BY <1>10, <2>1
<1> QED
  BY <1>6, <1>7, <1>11 DEF K, w

LEMMA SumOfOnes ==
  ASSUME NEW S, IsFiniteSet(S), NEW w, \A q \in S : w[q] = 1
  PROVE  Sigma(S, w) = Cardinality(S) /\ Cardinality(S) \in Nat
<1>1. \A q \in S : w[q] \in Int /\ 1 <= w[q] /\ w[q] <= 1
  OBVIOUS
<1>2. 1 \in Int /\ Cardinality(S) \in Nat
  BY FS_CardinalityType
<1>3. 1 * Cardinality(S) <= Sigma(S, w)
  BY <1>1, <1>2, SumAbove
<1>4. Sigma(S, w) <= 1 * Cardinality(S)
  BY <1>1, <1>2, SumBelow
<1>5. Sigma(S, w) \in Int
  BY <1>1, SumType
<1> QED
  BY <1>2, <1>3, <1>4, <1>5

LEMMA SameNumber ==
  ASSUME NEW S, IsFiniteSet(S), NEW h, \A p, q \in S : h[p] = h[q] => p = q
  PROVE  /\ IsFiniteSet({h[q] : q \in S})
         /\ Cardinality({h[q] : q \in S}) = Cardinality(S)
<1> DEFINE T == {h[q] : q \in S}
           w == [q \in S |-> 1]
           v == [y \in T |-> 1]
<1>1. \A q \in S : w[q] \in Int /\ w[q] = 1 /\ v[h[q]] = w[q]
  OBVIOUS
<1>2. \A y \in T : v[y] = 1
  OBVIOUS
<1> HIDE DEF w, v
<1>3. IsFiniteSet(T) /\ Sigma(T, v) = Sigma(S, w)
  BY <1>1, SumMap
<1> HIDE DEF T
<1>4. Cardinality(T) = Cardinality(S)
  BY <1>1, <1>2, <1>3, SumOfOnes
<1> QED
  BY <1>3, <1>4 DEF T

\* What a set of periods comes to.
Due(periods) == [p \in periods |-> p.scheduled]
WellFormed(periods) ==
  /\ IsFiniteSet(periods)
  /\ \A p \in periods : p.end \in Nat /\ p.scheduled \in Int /\ p.recognized \in Int
Even(periods, first, last, amount) ==
  /\ Sigma(periods, Due(periods)) = amount
  /\ \A p \in periods :
       2 * Magnitude(p.scheduled * (last - first) - amount * (p.end - p.start + 1))
         <= 2 * Magnitude(amount) + Cardinality(periods) * (last - first)
Tiled(periods, first, last) ==
  \A d \in first..last : Cardinality({p \in periods : p.start <= d /\ d <= p.end}) = 1
EndsApart(periods) ==
  \A p, q \in periods : p.end = q.end => p = q
InLine(periods) ==
  \A p \in periods : p.method = "straight_line" /\ p.recognized = 0

\* generateStraightLineSchedule: its periods tile the service, are even and add up.
LEMMA StraightLineIsRight ==
  ASSUME NEW first, NEW last, Service(first, last), NEW amount \in Int,
         NEW periods, periods = Engine!StraightLine(first, last, amount)
  PROVE  /\ WellFormed(periods) /\ InLine(periods) /\ EndsApart(periods)
         /\ Even(periods, first, last, amount) /\ Tiled(periods, first, last)
<1> DEFINE K == Engine!Starts(first, last)
<1>1. PICK final \in K :
        periods = {Straight(s, last, Scheduled(first, last, amount, final)[s]) : s \in K}
  BY StraightLineSchedules
<1> DEFINE w == Scheduled(first, last, amount, final)
           h == [s \in K |-> Straight(s, last, w[s])]
           v == Due(periods)
           n == last - first
           most == 2 * Magnitude(amount) + Cardinality(K) * n
<1>2. /\ \A s \in K : w[s] \in Int
      /\ Sigma(K, w) = amount
      /\ \A s \in K : Within(2 * (w[s] * n - amount * Length(s, last)), most)
  BY SharesAddUp
<1>3. IsFiniteSet(K)
  BY StartsAreFinite
<1>4. periods = {h[s] : s \in K} /\ \A s \in K : h[s] \in periods /\ h[s] = Straight(s, last, w[s])
  BY <1>1
<1>5. \A s \in K : /\ s \in Nat /\ Engine!PeriodEnd(s, last) \in Nat
                   /\ s <= Engine!PeriodEnd(s, last)
  BY PeriodsStart DEF Covers
<1>6. \A s \in K : /\ h[s].start = s /\ h[s].end = Engine!PeriodEnd(s, last)
                   /\ h[s].scheduled = w[s] /\ h[s].recognized = 0
                   /\ h[s].method = "straight_line"
  <2> SUFFICES ASSUME NEW s \in K
               PROVE  /\ h[s].start = s /\ h[s].end = Engine!PeriodEnd(s, last)
                      /\ h[s].scheduled = w[s] /\ h[s].recognized = 0
                      /\ h[s].method = "straight_line"
    OBVIOUS
  <2>1. h[s] = Straight(s, last, w[s])
    BY <1>4
  <2> HIDE DEF h, w
  <2> QED
    BY <2>1 DEF Straight
<1> HIDE DEF h, w, v, K, n, most
<1>7. \A p, q \in K : h[p] = h[q] => p = q
  BY <1>6
<1>8. \A s \in K : v[h[s]] = w[s]
  BY <1>4, <1>6 DEF v, Due
<1>9. IsFiniteSet(periods) /\ Sigma(periods, v) = amount
  <2>1. IsFiniteSet({h[s] : s \in K}) /\ Sigma({h[s] : s \in K}, v) = Sigma(K, w)
    BY <1>2, <1>3, <1>7, <1>8, SumMap
  <2> QED
    BY <1>2, <1>4, <2>1
<1>10. Cardinality(periods) = Cardinality(K) /\ Cardinality(K) \in Nat
  <2>1. Cardinality({h[q] : q \in K}) = Cardinality(K)
    BY <1>3, <1>7, SameNumber
  <2> QED
    BY <1>3, <1>4, <2>1, FS_CardinalityType
<1>11. \A p \in periods : \E s \in K : p = h[s]
  BY <1>4
<1>12. WellFormed(periods)
  BY <1>2, <1>5, <1>6, <1>9, <1>11 DEF WellFormed
<1>13. InLine(periods)
  BY <1>6, <1>11 DEF InLine
<1>14. EndsApart(periods)
  <2>1. \A s, t \in K : Engine!PeriodEnd(s, last) = Engine!PeriodEnd(t, last) => s = t
    BY EndsDiffer DEF K
  <2> QED
    BY <1>6, <1>11, <2>1 DEF EndsApart
<1>15. Even(periods, first, last, amount)
  <2>0. n \in Nat /\ most \in Int
    <3>1. n \in Nat
      BY ScheduleAssumption DEF Service, n
    <3>2. Magnitude(amount) \in Int
      BY DEF Magnitude
    <3>3. Cardinality(K) * n \in Int
      BY <1>10, <3>1
    <3> QED
      BY <3>1, <3>2, <3>3 DEF most
  <2>1. ASSUME NEW p \in periods
        PROVE  2 * Magnitude(p.scheduled * n - amount * (p.end - p.start + 1)) <= most
    <3>1. PICK s \in K : p = h[s]
      BY <1>11
    <3>2. p.scheduled = w[s] /\ p.end - p.start + 1 = Length(s, last) /\ w[s] \in Int
          /\ Length(s, last) \in Int
      BY <1>2, <1>5, <1>6, <3>1 DEF Length
    <3>3. w[s] * n - amount * Length(s, last) \in Int
      BY <2>0, <3>2
    <3>4. 2 * Magnitude(w[s] * n - amount * Length(s, last)) <= most
      BY <1>2, <2>0, <3>3, MagnitudeWithin
    <3> QED
      BY <3>2, <3>4
  <2>2. most = 2 * Magnitude(amount) + Cardinality(periods) * (last - first)
    BY <1>10 DEF most, n
  <2> QED
    BY <1>9, <2>1, <2>2 DEF Even, v, n
<1>16. Tiled(periods, first, last)
  <2> SUFFICES ASSUME NEW d \in first..last
               PROVE  Cardinality({p \in periods : p.start <= d /\ d <= p.end}) = 1
    BY DEF Tiled
  <2>1. PICK s \in K : Covers(s, d, last)
    BY DaysAreCovered DEF K
  <2>2. \A t \in K : Covers(t, d, last) => t = s
    <3>1. d \in Int
      OBVIOUS
    <3> QED
      BY <2>1, <3>1, PeriodsAreDisjoint DEF K
  <2>3. {p \in periods : p.start <= d /\ d <= p.end} = {h[s]}
    BY <1>4, <1>6, <1>11, <2>1, <2>2 DEF Covers
  <2> QED
    BY <2>3, FS_Singleton
<1> QED
  BY <1>12, <1>13, <1>14, <1>15, <1>16

LEMMA SameMethod == Engine!Method = Method
BY DEF Engine!Method, Method

LEMMA SchedulesAreWellFormed ==
  ASSUME NEW c, Service(c.start, c.end), NEW o, NEW amount \in Int,
         NEW periods, periods = Engine!Schedule(c, o, amount)
  PROVE  /\ WellFormed(periods)
         /\ Method[o.type] = "straight_line" =>
              periods = Engine!StraightLine(c.start, c.end, amount)
<1>0. c.start \in Nat /\ c.end \in Nat
  BY ScheduleAssumption DEF Service
<1>1. CASE Method[o.type] = "straight_line"
  <2>1. periods = Engine!StraightLine(c.start, c.end, amount)
    BY <1>1, SameMethod DEF Engine!Schedule
  <2>2. WellFormed(periods)
    BY <2>1, StraightLineIsRight
  <2> QED
    BY <2>1, <2>2
<1>2. CASE Method[o.type] = "usage_based"
  <2> DEFINE K == {t \in Engine!Starts(c.start, c.end) : t < c.end}
             h == [s \in K |-> Engine!Period(s, Engine!PeriodEnd(s, c.end), 0, 0, "usage_based")]
  <2>1. periods = {h[s] : s \in K}
    BY <1>2, SameMethod DEF Engine!Schedule, Engine!UsageBased
  <2>2. IsFiniteSet(K)
    BY StartsAreFinite, FS_Subset
  <2>3. ASSUME NEW s \in K
        PROVE h[s].end \in Nat /\ h[s].scheduled \in Int /\ h[s].recognized \in Int
    <3>1. Engine!PeriodEnd(s, c.end) \in Nat
      BY PeriodsStart
    <3> QED
      BY <3>1 DEF Engine!Period
  <2> HIDE DEF h, K
  <2>4. IsFiniteSet({h[s] : s \in K})
    BY <2>2, ImageIsFinite
  <2>5. WellFormed(periods)
    BY <2>1, <2>3, <2>4 DEF WellFormed
  <2> QED
    BY <1>2, <2>5
<1>3. CASE Method[o.type] = "milestone"
  <2>1. periods = {Engine!Period(c.start, c.end, amount, 0, "milestone")}
    BY <1>3, SameMethod DEF Engine!Schedule
  <2>2. IsFiniteSet(periods)
    BY <2>1, FS_Singleton
  <2>3. \A p \in periods : p.end \in Nat /\ p.scheduled \in Int /\ p.recognized \in Int
    BY <1>0, <2>1 DEF Engine!Period
  <2> QED
    BY <1>3, <2>2, <2>3 DEF WellFormed
<1>4. CASE Method[o.type] \notin {"straight_line", "usage_based", "milestone"}
  <2>1. periods = {Engine!Period(c.start, c.start, amount, amount, "as_invoiced")}
    BY <1>4, SameMethod DEF Engine!Schedule
  <2>2. IsFiniteSet(periods)
    BY <2>1, FS_Singleton
  <2>3. \A p \in periods : p.end \in Nat /\ p.scheduled \in Int /\ p.recognized \in Int
    BY <1>0, <2>1 DEF Engine!Period
  <2> QED
    BY <1>4, <2>2, <2>3 DEF WellFormed
<1> QED
  BY <1>1, <1>2, <1>3, <1>4

(***************************************************************************)
(* Balances                                                                *)
(***************************************************************************)
Happened(evs) == IsFiniteSet(evs) /\ \A v \in evs : v.day \in Nat /\ v.amount \in Int
Worth(evs) == [v \in evs |-> v.amount]

LEMMA EventsHappen ==
  ASSUME NEW periods, WellFormed(periods), NEW day
  PROVE  Happened(Engine!Events(periods, day))
<1> DEFINE Q == {q \in periods : q.method = "straight_line" /\ q.end <= day}
           R == {q \in periods : q.method \in {"as_invoiced", "usage_based"} /\ q.recognized > 0}
           g == [p \in Q |-> [day |-> p.end, amount |-> p.scheduled]]
           h == [p \in R |-> [day |-> p.end, amount |-> p.recognized]]
<1>1. IsFiniteSet(Q) /\ IsFiniteSet(R)
  BY FS_Subset DEF WellFormed
<1>2. Engine!Events(periods, day) = {g[p] : p \in Q} \cup {h[p] : p \in R}
  BY DEF Engine!Events
<1>3. \A p \in Q : g[p].day \in Nat /\ g[p].amount \in Int
  BY DEF WellFormed
<1>4. \A p \in R : h[p].day \in Nat /\ h[p].amount \in Int
  BY DEF WellFormed
<1> HIDE DEF Q, R, g, h
<1>5. IsFiniteSet({g[p] : p \in Q}) /\ IsFiniteSet({h[p] : p \in R})
  BY <1>1, ImageIsFinite
<1>6. IsFiniteSet(Engine!Events(periods, day))
  BY <1>2, <1>5, FS_Union
<1> QED
  BY <1>2, <1>3, <1>4, <1>6 DEF Happened

EndDays(periods) == {p.end : p \in periods}
DaysBefore(ends, d) == {e \in ends : e < d}
From(ends, d) == IF DaysBefore(ends, d) = {} THEN -1 ELSE Engine!Max(DaysBefore(ends, d))
During(evs, from, to) == {v \in evs : from < v.day /\ v.day <= to}
\* What is recognized up to each day a period ends.
Recognitions(ends, evs) == [d \in ends |-> Sigma(During(evs, From(ends, d), d), Worth(evs))]
OpeningOn(ends, evs, amount, d) == amount - Sigma(DaysBefore(ends, d), Recognitions(ends, evs))
BalanceOn(ends, evs, amount, d) ==
  [end |-> d, opening |-> OpeningOn(ends, evs, amount, d),
   recognized |-> Recognitions(ends, evs)[d],
   closing |-> OpeningOn(ends, evs, amount, d) - Recognitions(ends, evs)[d]]

LEMMA FromIsTheDayBefore ==
  ASSUME NEW ends, ends \subseteq Nat, NEW d \in ends
  PROVE  /\ From(ends, d) \in Int /\ From(ends, d) < d
         /\ \A e \in DaysBefore(ends, d) : e <= From(ends, d)
         /\ DaysBefore(ends, d) # {} => From(ends, d) \in DaysBefore(ends, d)
<1> DEFINE B == DaysBefore(ends, d)
<1>1. CASE B = {}
  BY <1>1 DEF From
<1>2. CASE B # {}
  <2> DEFINE C == {d - e : e \in B}
  <2>1. C \subseteq Nat /\ C # {}
    <3>1. \A e \in B : d - e \in Nat
      BY DEF DaysBefore
    <3> HIDE DEF B
    <3> QED
      BY <1>2, <3>1
  <2>2. PICK x \in C : \A y \in C : x <= y
    <3> HIDE DEF C
    <3> QED
      BY <2>1, Lowest
  <2>3. PICK m \in B : x = d - m
    BY <2>2
  <2>4. \A e \in B : e \in Nat /\ e < d /\ d - e \in C
    BY DEF DaysBefore
  <2>5. m \in B /\ \A e \in B : e <= m
    <3> SUFFICES ASSUME NEW e \in B PROVE e <= m
      OBVIOUS
    <3>1. x <= d - e /\ e \in Nat /\ m \in Nat /\ d \in Nat
      BY <2>2, <2>4
    <3> QED
      BY <2>3, <3>1
  <2>6. \A e \in B : m >= e
    BY <2>4, <2>5
  <2>7. Engine!Max(B) \in B /\ \A e \in B : Engine!Max(B) >= e
    BY <2>5, <2>6 DEF Engine!Max
  <2>8. From(ends, d) = Engine!Max(B)
    BY <1>2 DEF From
  <2> QED
    BY <2>4, <2>7, <2>8
<1> QED
  BY <1>1, <1>2

LEMMA BalancesAre ==
  ASSUME NEW periods, NEW evs, NEW amount
  PROVE  Engine!Balances(periods, evs, amount)
           = {BalanceOn(EndDays(periods), evs, amount, d) : d \in EndDays(periods)}
<1> DEFINE E == EndDays(periods)
<1>1. \A from, to : Engine!RecognizedIn(evs, from, to) = Sigma(During(evs, from, to), Worth(evs))
  <2> SUFFICES ASSUME NEW from, NEW to
               PROVE  Engine!RecognizedIn(evs, from, to)
                        = Sigma(During(evs, from, to), Worth(evs))
    OBVIOUS
  <2>1. [e \in {v \in evs : from < v.day /\ v.day <= to} |-> e.amount]
          = [e \in During(evs, from, to) |-> Worth(evs)[e]]
    BY DEF During, Worth
  <2> QED
    BY <2>1, SameSum DEF Engine!RecognizedIn, Sigma
<1>2. \A d : {e \in E : e < d} = DaysBefore(E, d)
  BY DEF DaysBefore
<1>3. \A d : Engine!SumFunction([e \in DaysBefore(E, d) |-> Engine!RecognizedIn(evs, From(E, e), e)])
              = Sigma(DaysBefore(E, d), Recognitions(E, evs))
  <2> SUFFICES ASSUME NEW d
               PROVE  Engine!SumFunction([e \in DaysBefore(E, d) |->
                                            Engine!RecognizedIn(evs, From(E, e), e)])
                        = Sigma(DaysBefore(E, d), Recognitions(E, evs))
    OBVIOUS
  <2>1. [e \in DaysBefore(E, d) |-> Engine!RecognizedIn(evs, From(E, e), e)]
          = [e \in DaysBefore(E, d) |-> Recognitions(E, evs)[e]]
    <3>1. \A e \in DaysBefore(E, d) :
            Engine!RecognizedIn(evs, From(E, e), e) = Recognitions(E, evs)[e]
      BY <1>1 DEF Recognitions, DaysBefore
    <3> QED
      BY <3>1, Zenon
  <2> QED
    BY <2>1, SameSum DEF Sigma
<1>4. \A d : (IF DaysBefore(E, d) = {} THEN -1 ELSE Engine!Max(DaysBefore(E, d))) = From(E, d)
  BY DEF From
<1>5. Engine!Balances(periods, evs, amount)
      = {[end |-> d,
          opening |-> amount - Engine!SumFunction([e \in {x \in E : x < d} |->
                                 Engine!RecognizedIn(evs,
                                   IF {x \in E : x < e} = {} THEN -1 ELSE Engine!Max({x \in E : x < e}), e)]),
          recognized |-> Engine!RecognizedIn(evs,
                           IF {x \in E : x < d} = {} THEN -1 ELSE Engine!Max({x \in E : x < d}), d),
          closing |-> amount - Engine!SumFunction([e \in {x \in E : x < d} |->
                                 Engine!RecognizedIn(evs,
                                   IF {x \in E : x < e} = {} THEN -1 ELSE Engine!Max({x \in E : x < e}), e)])
                      - Engine!RecognizedIn(evs,
                           IF {x \in E : x < d} = {} THEN -1 ELSE Engine!Max({x \in E : x < d}), d)]
         : d \in E}
  BY Zenon DEF Engine!Balances, EndDays
<1> HIDE DEF E
<1>6. Engine!Balances(periods, evs, amount)
      = {[end |-> d,
          opening |-> amount - Engine!SumFunction([e \in DaysBefore(E, d) |->
                                 Engine!RecognizedIn(evs, From(E, e), e)]),
          recognized |-> Engine!RecognizedIn(evs, From(E, d), d),
          closing |-> amount - Engine!SumFunction([e \in DaysBefore(E, d) |->
                                 Engine!RecognizedIn(evs, From(E, e), e)])
                      - Engine!RecognizedIn(evs, From(E, d), d)]
         : d \in E}
  BY <1>5 DEF DaysBefore, From
<1>7. \A d \in E : Engine!RecognizedIn(evs, From(E, d), d) = Recognitions(E, evs)[d]
  BY <1>1 DEF Recognitions
<1>8. Engine!Balances(periods, evs, amount) = {BalanceOn(E, evs, amount, d) : d \in E}
  <2>1. ASSUME NEW d \in E
        PROVE  [end |-> d,
                opening |-> amount - Engine!SumFunction([e \in DaysBefore(E, d) |->
                                       Engine!RecognizedIn(evs, From(E, e), e)]),
                recognized |-> Engine!RecognizedIn(evs, From(E, d), d),
                closing |-> amount - Engine!SumFunction([e \in DaysBefore(E, d) |->
                                       Engine!RecognizedIn(evs, From(E, e), e)])
                            - Engine!RecognizedIn(evs, From(E, d), d)]
               = BalanceOn(E, evs, amount, d)
    BY <1>3, <1>7, Zenon DEF BalanceOn, OpeningOn
  <2> QED
    BY <1>6, <2>1, Zenon
<1> QED
  BY <1>8 DEF E

LEMMA EndsAreDays ==
  ASSUME NEW periods, WellFormed(periods)
  PROVE  IsFiniteSet(EndDays(periods)) /\ EndDays(periods) \subseteq Nat
<1> DEFINE h == [p \in periods |-> p.end]
<1>1. EndDays(periods) = {h[p] : p \in periods}
  BY DEF EndDays
<1>2. IsFiniteSet(periods)
  BY DEF WellFormed
<1>3. EndDays(periods) \subseteq Nat
  BY DEF EndDays, WellFormed
<1> HIDE DEF h
<1>4. IsFiniteSet({h[p] : p \in periods})
  BY <1>2, ImageIsFinite
<1> QED
  BY <1>1, <1>3, <1>4

LEMMA RecognitionsAreNumbers ==
  ASSUME NEW ends, NEW evs, Happened(evs)
  PROVE  \A d \in ends : Recognitions(ends, evs)[d] \in Int
<1> SUFFICES ASSUME NEW d \in ends PROVE Recognitions(ends, evs)[d] \in Int
  OBVIOUS
<1> DEFINE S == During(evs, From(ends, d), d)
           w == Worth(evs)
<1>1. IsFiniteSet(S)
  BY FS_Subset DEF Happened, During
<1>2. \A q \in S : w[q] \in Int
  BY DEF Happened, Worth, During
<1>3. Recognitions(ends, evs)[d] = Sigma(S, w)
  BY DEF Recognitions
<1> HIDE DEF S, w
<1> QED
  BY <1>1, <1>2, <1>3, SumType

\* Each balance opens with what the one before closed with.
LEMMA BalancesRoll ==
  ASSUME NEW periods, WellFormed(periods), NEW evs, Happened(evs), NEW amount \in Int,
         NEW bs, bs = Engine!Balances(periods, evs, amount), NEW b \in bs
  PROVE  \/ \E a \in bs : a.end < b.end /\ a.closing = b.opening
         \/ b.opening = amount /\ \A a \in bs : b.end <= a.end
<1> DEFINE E == EndDays(periods)
           rec == Recognitions(E, evs)
<1>1. IsFiniteSet(E) /\ E \subseteq Nat
  BY EndsAreDays
<1>2. \A d \in E : rec[d] \in Int
  BY RecognitionsAreNumbers
<1>3. bs = {BalanceOn(E, evs, amount, d) : d \in E}
  BY BalancesAre
<1> HIDE DEF E, rec
<1>4. PICK d \in E : b = BalanceOn(E, evs, amount, d)
  BY <1>3
<1>5. b.end = d /\ b.opening = amount - Sigma(DaysBefore(E, d), rec)
  BY <1>4 DEF BalanceOn, OpeningOn, rec
<1>6. \A a \in bs : a.end \in E
  BY <1>3 DEF BalanceOn
<1>7. CASE DaysBefore(E, d) = {}
  <2>1. Sigma({}, rec) = 0
    <3>1. PICK f : Sums(f, rec, E)
      BY <1>1, <1>2, SumsExist
    <3> QED
      BY <3>1 DEF Sums
  <2>2. b.opening = amount
    BY <1>5, <1>7, <2>1
  <2>3. \A e \in E : d <= e
    BY <1>1, <1>7 DEF DaysBefore
  <2> QED
    BY <1>5, <1>6, <2>2, <2>3
<1>8. CASE DaysBefore(E, d) # {}
  <2> DEFINE m == From(E, d)
  <2>1. m \in DaysBefore(E, d) /\ \A e \in DaysBefore(E, d) : e <= m
    BY <1>1, <1>8, FromIsTheDayBefore
  <2>2. m \in E /\ m < d
    BY <2>1 DEF DaysBefore
  <2> HIDE DEF m
  <2>3. DaysBefore(E, d) = DaysBefore(E, m) \cup {m} /\ m \notin DaysBefore(E, m) /\ DaysBefore(E, m) \subseteq E
    <3>1. m \notin DaysBefore(E, m) /\ DaysBefore(E, m) \subseteq E
      BY <1>1, <2>2 DEF DaysBefore
    <3>2. \A e \in DaysBefore(E, d) : e \in DaysBefore(E, m) \cup {m}
      <4> SUFFICES ASSUME NEW e \in DaysBefore(E, d), e # m PROVE e \in DaysBefore(E, m)
        OBVIOUS
      <4>1. e \in E /\ e <= m /\ e \in Nat /\ m \in Nat
        BY <1>1, <2>1, <2>2 DEF DaysBefore
      <4> QED
        BY <4>1 DEF DaysBefore
    <3>3. \A e \in DaysBefore(E, m) : e \in DaysBefore(E, d)
      <4> SUFFICES ASSUME NEW e \in DaysBefore(E, m) PROVE e \in DaysBefore(E, d)
        OBVIOUS
      <4>1. e \in E /\ e < m /\ e \in Nat /\ m \in Nat /\ d \in Nat
        BY <1>1, <2>2 DEF DaysBefore
      <4> QED
        BY <2>2, <4>1 DEF DaysBefore
    <3> QED
      BY <2>1, <3>1, <3>2, <3>3
  <2>4. Sigma(DaysBefore(E, d), rec) = Sigma(DaysBefore(E, m), rec) + rec[m]
        /\ Sigma(DaysBefore(E, m), rec) \in Int
    <3>1. PICK f : Sums(f, rec, E)
      BY <1>1, <1>2, SumsExist
    <3>2. f[DaysBefore(E, m) \cup {m}] = f[DaysBefore(E, m)] + rec[m]
      BY <2>2, <2>3, <3>1 DEF Sums, Grows
    <3>3. DaysBefore(E, d) \in SUBSET E /\ DaysBefore(E, m) \in SUBSET E
      BY <2>2, <2>3
    <3>4. f[DaysBefore(E, d)] = Sigma(DaysBefore(E, d), rec) /\ f[DaysBefore(E, m)] = Sigma(DaysBefore(E, m), rec)
          /\ f[DaysBefore(E, m)] \in Int
      BY <3>1, <3>3 DEF Sums
    <3> QED
      BY <2>3, <3>2, <3>4
  <2>5. BalanceOn(E, evs, amount, m) \in bs
    BY <1>3, <2>2
  <2>6. /\ BalanceOn(E, evs, amount, m).end = m
        /\ BalanceOn(E, evs, amount, m).closing = amount - Sigma(DaysBefore(E, m), rec) - rec[m]
    BY DEF BalanceOn, OpeningOn, rec
  <2>7. BalanceOn(E, evs, amount, m).closing = b.opening
    BY <1>2, <1>5, <2>2, <2>4, <2>6
  <2> QED
    BY <1>5, <2>2, <2>5, <2>6, <2>7
<1> QED
  BY <1>7, <1>8

Until(periods, day) == {q \in periods : q.end <= day}

\* The events of a straight-line schedule are its periods that have ended.
LEMMA EventsOfALine ==
  ASSUME NEW periods, WellFormed(periods), InLine(periods), EndsApart(periods), NEW day,
         NEW evs, evs = Engine!Events(periods, day)
  PROVE  /\ Happened(evs) /\ \A v \in evs : v.day \in EndDays(periods)
         /\ Sigma(evs, Worth(evs)) = Sigma(Until(periods, day), Due(periods))
<1> DEFINE Q == Until(periods, day)
           h == [p \in Q |-> [day |-> p.end, amount |-> p.scheduled]]
           w == Due(periods)
           v == Worth(evs)
<1>1. evs = {h[p] : p \in Q}
  <2>1. {q \in periods : q.method = "straight_line" /\ q.end <= day} = Q
    BY DEF InLine, Until
  <2>2. {q \in periods : q.method \in {"as_invoiced", "usage_based"} /\ q.recognized > 0} = {}
    BY DEF InLine
  <2> QED
    BY <2>1, <2>2 DEF Engine!Events
<1>2. IsFiniteSet(Q) /\ Q \subseteq periods
  BY FS_Subset DEF Until, WellFormed
<1>3. \A p \in Q : w[p] \in Int /\ w[p] = p.scheduled
  BY <1>2 DEF Due, WellFormed
<1>4. \A p \in Q : h[p].day = p.end /\ h[p].amount = p.scheduled
  OBVIOUS
<1> HIDE DEF Q, h, w, v
<1>5. \A p, q \in Q : h[p] = h[q] => p = q
  BY <1>2, <1>4 DEF EndsApart
<1>6. \A p \in Q : v[h[p]] = w[p]
  BY <1>1, <1>3, <1>4 DEF v, Worth
<1>7. Sigma({h[p] : p \in Q}, v) = Sigma(Q, w)
  BY <1>2, <1>3, <1>5, <1>6, SumMap
<1>8. \A e \in evs : e.day \in EndDays(periods)
  BY <1>1, <1>2, <1>4 DEF EndDays
<1>9. Happened(evs)
  BY EventsHappen
<1> QED
  BY <1>1, <1>7, <1>8, <1>9 DEF Q, w, v

\* The last balance closes with what no event has recognized.
LEMMA LastBalance ==
  ASSUME NEW periods, WellFormed(periods), InLine(periods), EndsApart(periods), NEW day,
         NEW amount \in Int,
         NEW bs, bs = Engine!Balances(periods, Engine!Events(periods, day), amount),
         NEW b \in bs, \A a \in bs : a.end <= b.end
  PROVE  b.closing = amount - Sigma(Until(periods, day), Due(periods))
<1> DEFINE E == EndDays(periods)
           evs == Engine!Events(periods, day)
           rec == Recognitions(E, evs)
           w == Worth(evs)
           key == [v \in evs |-> v.day]
<1>1. IsFiniteSet(E) /\ E \subseteq Nat
  BY EndsAreDays
<1>2. /\ Happened(evs) /\ \A v \in evs : v.day \in E
      /\ Sigma(evs, w) = Sigma(Until(periods, day), Due(periods))
  BY EventsOfALine
<1>3. \A d \in E : rec[d] \in Int
  BY <1>2, RecognitionsAreNumbers
<1>4. bs = {BalanceOn(E, evs, amount, d) : d \in E}
  BY BalancesAre
<1>5. IsFiniteSet(evs) /\ \A v \in evs : w[v] \in Int /\ key[v] \in E /\ key[v] = v.day
  BY <1>2 DEF Happened, Worth
<1>6. \A d \in E : rec[d] = Sigma(During(evs, From(E, d), d), w)
  BY DEF Recognitions
<1> HIDE DEF E, rec, evs, w, key
<1>7. ASSUME NEW d \in E PROVE rec[d] = Sigma({v \in evs : key[v] = d}, w)
  <2>0. /\ From(E, d) \in Int /\ From(E, d) < d
        /\ \A e \in DaysBefore(E, d) : e <= From(E, d)
    BY <1>1, FromIsTheDayBefore
  <2>1. ASSUME NEW v \in evs
        PROVE  (From(E, d) < v.day /\ v.day <= d) <=> v.day = d
    <3>1. v.day \in E /\ v.day \in Nat /\ d \in Nat
      BY <1>1, <1>2
    <3>2. v.day < d => v.day <= From(E, d)
      BY <2>0, <3>1 DEF DaysBefore
    <3> QED
      BY <2>0, <3>1, <3>2
  <2>2. During(evs, From(E, d), d) = {v \in evs : key[v] = d}
    BY <1>5, <2>1 DEF During
  <2> QED
    BY <1>6, <2>2
<1>8. Sigma(E, rec) = Sigma(evs, w)
  <2>1. \A q \in evs : w[q] \in Int
    BY <1>5
  <2>2. \A q \in evs : key[q] \in E
    BY <1>5
  <2>3. SumsByKey(rec, E, evs, key, w)
    BY <1>7 DEF SumsByKey
  <2>4. IsFiniteSet(evs) /\ IsFiniteSet(E)
    BY <1>1, <1>5
  <2> QED
    BY <2>1, <2>2, <2>3, <2>4, SumParts
<1>9. PICK d \in E : b = BalanceOn(E, evs, amount, d)
  BY <1>4
<1>10. b.end = d /\ b.closing = amount - Sigma(DaysBefore(E, d), rec) - rec[d]
  BY <1>9 DEF BalanceOn, OpeningOn, rec
<1>11. \A e \in E : e <= d
  <2> SUFFICES ASSUME NEW e \in E PROVE e <= d
    OBVIOUS
  <2>1. BalanceOn(E, evs, amount, e) \in bs /\ BalanceOn(E, evs, amount, e).end = e
    BY <1>4 DEF BalanceOn
  <2> QED
    BY <1>10, <2>1
<1>12. E = DaysBefore(E, d) \cup {d} /\ d \notin DaysBefore(E, d) /\ DaysBefore(E, d) \subseteq E
  <2>1. d \notin DaysBefore(E, d) /\ DaysBefore(E, d) \subseteq E
    BY <1>1 DEF DaysBefore
  <2>2. \A e \in E : e \in DaysBefore(E, d) \cup {d}
    <3> SUFFICES ASSUME NEW e \in E, e # d PROVE e \in DaysBefore(E, d)
      OBVIOUS
    <3>1. e <= d /\ e \in Nat /\ d \in Nat
      BY <1>1, <1>11
    <3> QED
      BY <3>1 DEF DaysBefore
  <2> QED
    BY <2>1, <2>2
<1>13. /\ Sigma(E, rec) = Sigma(DaysBefore(E, d), rec) + rec[d]
       /\ Sigma(DaysBefore(E, d), rec) \in Int
  <2>1. PICK f : Sums(f, rec, E)
    BY <1>1, <1>3, SumsExist
  <2>2. f[DaysBefore(E, d) \cup {d}] = f[DaysBefore(E, d)] + rec[d]
    BY <1>12, <2>1 DEF Sums, Grows
  <2>3. f[DaysBefore(E, d)] = Sigma(DaysBefore(E, d), rec) /\ f[E] = Sigma(E, rec)
        /\ f[DaysBefore(E, d)] \in Int
    BY <1>12, <2>1 DEF Sums
  <2> QED
    BY <1>12, <2>2, <2>3
<1>14. b.closing = amount - Sigma(E, rec)
  BY <1>3, <1>10, <1>13
<1> QED
  BY <1>2, <1>8, <1>14

(***************************************************************************)
(* Reconciliation                                                          *)
(***************************************************************************)
Summable(w, S) == IsFiniteSet(S) /\ \A q \in S : w[q] \in Int
Sorted(key, S, K) == IsFiniteSet(K) /\ \A q \in S : key[q] \in K
\* One result for each key, with what v says of it.
Reports(h, f, v, K) ==
  /\ \A j, k \in K : h[j] = h[k] => j = k
  /\ \A k \in K : f[h[k]] = v[k]

LEMMA CountedOnce ==
  ASSUME NEW S, NEW w, Summable(w, S), NEW K, NEW key, Sorted(key, S, K),
         NEW v, SumsByKey(v, K, S, key, w), NEW h, NEW f, Reports(h, f, v, K)
  PROVE  Sigma({h[k] : k \in K}, f) = Sigma(S, w)
<1>0. IsFiniteSet(S) /\ IsFiniteSet(K) /\ (\A q \in S : w[q] \in Int) /\ \A q \in S : key[q] \in K
  BY DEF Summable, Sorted
<1>1. (\A k \in K : v[k] \in Int) /\ Sigma(K, v) = Sigma(S, w)
  BY <1>0, SumParts
<1>2. (\A j, k \in K : h[j] = h[k] => j = k) /\ \A k \in K : f[h[k]] = v[k]
  BY DEF Reports
<1>3. Sigma({h[k] : k \in K}, f) = Sigma(K, v)
  BY <1>0, <1>1, <1>2, SumMap
<1> QED
  BY <1>1, <1>3

Keys(xs) == {Engine!Key(x) : x \in xs}
KeyOf(xs) == [x \in xs |-> Engine!Key(x)]
Totals(xs) == [b \in xs |-> b.total]

LEMMA KeysAreFinite ==
  ASSUME NEW xs, IsFiniteSet(xs)
  PROVE  IsFiniteSet(Keys(xs)) /\ \A x \in xs : KeyOf(xs)[x] = Engine!Key(x) /\ KeyOf(xs)[x] \in Keys(xs)
<1> DEFINE h == KeyOf(xs)
<1>1. Keys(xs) = {h[x] : x \in xs} /\ \A x \in xs : h[x] = Engine!Key(x) /\ h[x] \in Keys(xs)
  BY DEF Keys, KeyOf
<1> HIDE DEF h
<1>2. IsFiniteSet({h[x] : x \in xs})
  BY ImageIsFinite
<1> QED
  BY <1>1, <1>2 DEF h

\* reconcileContract: every cent of both sides is in one result.
LEMMA ReconciledCountsAll ==
  ASSUME NEW periods, IsFiniteSet(periods), \A p \in periods : p.scheduled \in Int,
         NEW bills, IsFiniteSet(bills), \A b \in bills : b.total \in Int,
         NEW rs, rs = Engine!Reconciled(periods, bills)
  PROVE  /\ SumFunction([r \in rs |-> r.scheduled]) = SumFunction([p \in periods |-> p.scheduled])
         /\ SumFunction([r \in rs |-> r.invoiced]) = SumFunction([b \in bills |-> b.total])
<1> DEFINE K == Keys(periods) \cup Keys(bills)
           h == [k \in K |-> Engine!Result(k, periods, bills)]
           f == [r \in rs |-> r.scheduled]
           g == [r \in rs |-> r.invoiced]
           v == [k \in K |-> Sigma(Engine!Side(periods, k), Due(periods))]
           u == [k \in K |-> Sigma(Engine!Side(bills, k), Totals(bills))]
           dp == Due(periods)
           tb == Totals(bills)
           kp == KeyOf(periods)
           kb == KeyOf(bills)
<1>1. IsFiniteSet(K)
  BY KeysAreFinite, FS_Union
<1>2. rs = {h[k] : k \in K} /\ \A k \in K : h[k] \in rs /\ h[k] = Engine!Result(k, periods, bills)
  BY DEF Engine!Reconciled, Keys
<1>3. ASSUME NEW k
      PROVE  Engine!SumFunction([p \in Engine!Side(periods, k) |-> p.scheduled])
               = Sigma(Engine!Side(periods, k), dp)
  <2>1. [p \in Engine!Side(periods, k) |-> p.scheduled]
          = [p \in Engine!Side(periods, k) |-> dp[p]]
    BY DEF Engine!Side, Due
  <2> QED
    BY <2>1, SameSum DEF Sigma
<1>4. ASSUME NEW k
      PROVE  Engine!SumFunction([b \in Engine!Side(bills, k) |-> b.total])
               = Sigma(Engine!Side(bills, k), tb)
  <2>1. [b \in Engine!Side(bills, k) |-> b.total]
          = [b \in Engine!Side(bills, k) |-> tb[b]]
    BY DEF Engine!Side, Totals
  <2> QED
    BY <2>1, SameSum DEF Sigma
<1>5. ASSUME NEW k \in K
      PROVE  h[k].key = k /\ h[k].scheduled = v[k] /\ h[k].invoiced = u[k]
  <2>1. h[k] = Engine!Result(k, periods, bills)
    BY <1>2
  <2>2. /\ Engine!Result(k, periods, bills).key = k
        /\ Engine!Result(k, periods, bills).scheduled
             = Engine!SumFunction([p \in Engine!Side(periods, k) |-> p.scheduled])
        /\ Engine!Result(k, periods, bills).invoiced
             = Engine!SumFunction([b \in Engine!Side(bills, k) |-> b.total])
    BY DEF Engine!Result
  <2>3. v[k] = Sigma(Engine!Side(periods, k), dp) /\ u[k] = Sigma(Engine!Side(bills, k), tb)
    OBVIOUS
  <2> HIDE DEF h, v, u, dp, tb
  <2> QED
    BY <1>3, <1>4, <2>1, <2>2, <2>3
<1>6. SumsByKey(v, K, periods, kp, dp)
  <2> SUFFICES ASSUME NEW k \in K
               PROVE  v[k] = Sigma({y \in periods : kp[y] = k}, dp)
    BY DEF SumsByKey
  <2>1. Engine!Side(periods, k) = {y \in periods : kp[y] = k}
    BY DEF Engine!Side, KeyOf
  <2>2. v[k] = Sigma(Engine!Side(periods, k), dp)
    OBVIOUS
  <2> HIDE DEF v, kp, dp
  <2> QED
    BY <2>1, <2>2
<1>7. SumsByKey(u, K, bills, kb, tb)
  <2> SUFFICES ASSUME NEW k \in K
               PROVE  u[k] = Sigma({y \in bills : kb[y] = k}, tb)
    BY DEF SumsByKey
  <2>1. Engine!Side(bills, k) = {y \in bills : kb[y] = k}
    BY DEF Engine!Side, KeyOf
  <2>2. u[k] = Sigma(Engine!Side(bills, k), tb)
    OBVIOUS
  <2> HIDE DEF u, kb, tb
  <2> QED
    BY <2>1, <2>2
<1>8. (\A p \in periods : dp[p] \in Int) /\ (\A b \in bills : tb[b] \in Int)
  BY DEF Due, Totals
<1>9. (\A p \in periods : kp[p] \in K) /\ (\A b \in bills : kb[b] \in K)
  BY KeysAreFinite
<1>10. \A k \in K : f[h[k]] = h[k].scheduled /\ g[h[k]] = h[k].invoiced
  <2> HIDE DEF h
  <2> QED
    BY <1>2
<1>11. SumFunction(f) = Sigma(rs, f) /\ SumFunction(g) = Sigma(rs, g)
  <2>1. DOMAIN f = rs /\ f = [r \in rs |-> f[r]] /\ DOMAIN g = rs /\ g = [r \in rs |-> g[r]]
    OBVIOUS
  <2> HIDE DEF f, g
  <2> QED
    BY <2>1, SumIsSigma
<1>12. /\ SumFunction([p \in periods |-> p.scheduled]) = Sigma(periods, dp)
       /\ SumFunction([b \in bills |-> b.total]) = Sigma(bills, tb)
  <2>1. [p \in periods |-> p.scheduled] = [p \in periods |-> dp[p]]
    BY DEF Due
  <2>2. [b \in bills |-> b.total] = [b \in bills |-> tb[b]]
    BY DEF Totals
  <2> HIDE DEF dp, tb
  <2> QED
    BY <2>1, <2>2 DEF Sigma
<1> HIDE DEF K, h, f, g, v, u, dp, tb, kp, kb
<1>13. \A j, k \in K : h[j] = h[k] => j = k
  BY <1>5
<1>14. (\A k \in K : f[h[k]] = v[k]) /\ (\A k \in K : g[h[k]] = u[k])
  BY <1>5, <1>10
<1>15. Sigma({h[k] : k \in K}, f) = Sigma(periods, dp)
  <2>1. Summable(dp, periods)
    BY <1>8 DEF Summable
  <2>2. Sorted(kp, periods, K)
    BY <1>1, <1>9 DEF Sorted
  <2>3. Reports(h, f, v, K)
    BY <1>13, <1>14 DEF Reports
  <2> QED
    BY <1>6, <2>1, <2>2, <2>3, CountedOnce
<1>16. Sigma({h[k] : k \in K}, g) = Sigma(bills, tb)
  <2>1. Summable(tb, bills)
    BY <1>8 DEF Summable
  <2>2. Sorted(kb, bills, K)
    BY <1>1, <1>9 DEF Sorted
  <2>3. Reports(h, g, u, K)
    BY <1>13, <1>14 DEF Reports
  <2> QED
    BY <1>7, <2>1, <2>2, <2>3, CountedOnce
<1>17. SumFunction(f) = SumFunction([p \in periods |-> p.scheduled])
       /\ SumFunction(g) = SumFunction([b \in bills |-> b.total])
  BY <1>2, <1>11, <1>12, <1>15, <1>16
<1> QED
  BY <1>17 DEF f, g

Labelled(i) ==
  {[start |-> p.start, end |-> p.end, scheduled |-> p.scheduled, of |-> i] : p \in schedules[i]}

LEMMA AllPeriodsAreFinite ==
  ASSUME IsFiniteSet(DOMAIN schedules), \A i \in DOMAIN schedules : WellFormed(schedules[i])
  PROVE  IsFiniteSet(AllPeriods) /\ \A p \in AllPeriods : p.scheduled \in Int
<1> DEFINE D == DOMAIN schedules
           h == [i \in D |-> Labelled(i)]
<1>1. AllPeriods = UNION {h[i] : i \in D}
  BY DEF AllPeriods, Labelled
<1>2. ASSUME NEW i \in D PROVE IsFiniteSet(h[i]) /\ \A p \in h[i] : p.scheduled \in Int
  <2> DEFINE g == [p \in schedules[i] |->
                     [start |-> p.start, end |-> p.end, scheduled |-> p.scheduled, of |-> i]]
  <2>1. h[i] = {g[p] : p \in schedules[i]} /\ \A p \in schedules[i] : g[p].scheduled = p.scheduled
    BY DEF Labelled
  <2>2. IsFiniteSet(schedules[i]) /\ \A p \in schedules[i] : p.scheduled \in Int
    BY DEF WellFormed
  <2> HIDE DEF g, h
  <2>3. IsFiniteSet({g[p] : p \in schedules[i]})
    BY <2>2, ImageIsFinite
  <2> QED
    BY <2>1, <2>2, <2>3
<1> HIDE DEF h
<1>3. IsFiniteSet({h[i] : i \in D})
  BY ImageIsFinite
<1>4. IsFiniteSet(UNION {h[i] : i \in D})
  BY <1>2, <1>3, FS_UNION
<1> QED
  BY <1>1, <1>2, <1>4

(***************************************************************************)
(* The computation                                                         *)
(***************************************************************************)
LEMMA SameTotal ==
  /\ \A c, obs : Engine!Total(c, obs) = Total(c, obs)
  /\ Engine!Contract = Contract /\ Engine!AllPeriods = AllPeriods
<1>1. \A c, obs : Engine!Total(c, obs) = Total(c, obs)
  BY SameSum DEF Engine!Total, Total
<1>2. Engine!Contract = Contract
  BY DEF Engine!Contract, Contract, Engine!IsInjective, IsInjective
<1>3. Engine!AllPeriods = AllPeriods
  BY DEF Engine!AllPeriods, AllPeriods
<1> QED
  BY <1>1, <1>2, <1>3

LEMMA ContractsAre ==
  ASSUME NEW c \in Contract
  PROVE  /\ Service(c.start, c.end) /\ c.arr \in Amounts \cup {NoPrice}
         /\ c.value \in Amounts \cup {NoPrice}
         /\ \E n \in Nat : c.types \in [1..n -> DOMAIN Method]
<1>1. /\ c.arr \in Amounts \cup {NoPrice} /\ c.value \in Amounts \cup {NoPrice}
      /\ c.start \in Days /\ c.end \in Days /\ c.start < c.end
      /\ c.types \in UNION {{s \in [1..n -> Types] : IsInjective(s)} : n \in 0..MaxObligations}
  BY DEF Contract
<1>2. PICK n \in 0..MaxObligations : c.types \in [1..n -> Types]
  BY <1>1
<1>3. n \in Nat /\ Types \subseteq DOMAIN Method
  BY ScheduleAssumption
<1>4. c.types \in [1..n -> DOMAIN Method]
  BY <1>2, <1>3
<1> QED
  BY <1>1, <1>3, <1>4 DEF Service

\* Obligations of a contract have types and prices.
LEMMA IdentifiedAre ==
  ASSUME NEW c \in Contract
  PROVE  Engine!Identified(c) \in Seq(Obligation)
<1> DEFINE found == CASE c.arr # NoPrice /\ c.types # <<>> -> c.types
                      [] c.arr = NoPrice /\ c.value = NoPrice -> <<>>
                      [] OTHER -> <<"subscription">>
<1>1. \E n \in Nat : found \in [1..n -> DOMAIN Method]
  <2>1. CASE c.arr # NoPrice /\ c.types # <<>>
    BY <2>1, ContractsAre
  <2>2. CASE ~(c.arr # NoPrice /\ c.types # <<>>) /\ c.arr = NoPrice /\ c.value = NoPrice
    <3>1. found = <<>> /\ <<>> \in [1..0 -> DOMAIN Method]
      BY <2>2
    <3> QED
      BY <3>1
  <2>3. CASE ~(c.arr # NoPrice /\ c.types # <<>>) /\ ~(c.arr = NoPrice /\ c.value = NoPrice)
    <3>1. found = <<"subscription">>
      BY <2>3
    <3>2. <<"subscription">> \in [1..1 -> DOMAIN Method]
      BY DEF Method
    <3> QED
      BY <3>1, <3>2
  <2> QED
    BY <2>1, <2>2, <2>3
<1>2. PICK n \in Nat : found \in [1..n -> DOMAIN Method]
  BY <1>1
<1>3. ASSUME NEW i \in 1..n PROVE Engine!Price(c, found[i]) \in Amounts
  <2>0. c.arr \in Amounts \cup {NoPrice} /\ c.value \in Amounts \cup {NoPrice}
    BY ContractsAre
  <2>1. CASE c.arr # NoPrice
    BY <2>0, <2>1 DEF Engine!Price
  <2>2. CASE c.arr = NoPrice /\ c.value = NoPrice
    <3>1. found = <<>>
      BY <2>2
    <3>2. n = 0
      BY <1>2, <3>1
    <3> QED
      BY <3>2
  <2>3. CASE c.arr = NoPrice /\ c.value # NoPrice
    <3>1. found = <<"subscription">>
      BY <2>3
    <3>2. found[i] = "subscription"
      BY <1>2, <3>1
    <3> HIDE DEF found
    <3> QED
      BY <2>0, <2>3, <3>2 DEF Engine!Price
  <2> QED
    BY <2>1, <2>2, <2>3
<1>4. Engine!Identified(c)
        = [i \in DOMAIN found |->
             [type |-> found[i], price |-> Engine!Price(c, found[i]), ssp |-> NoPrice]]
  BY Zenon DEF Engine!Identified
<1> HIDE DEF found
<1>5. Engine!Identified(c) \in [1..n -> Obligation]
  BY <1>2, <1>3, <1>4 DEF Obligation
<1> QED
  BY <1>5

NothingYet ==
  /\ allocations = <<>> /\ schedules = <<>> /\ balances = <<>> /\ invoices = {} /\ results = {}
IsAllocated ==
  obligations # <<>> /\ allocations = Engine!Allocated(obligations, Total(contract, obligations))
IsScheduled ==
  schedules = [i \in DOMAIN obligations |->
                 Engine!Schedule(contract, obligations[i], allocations[i])]
IsBalanced ==
  balances = [i \in DOMAIN schedules |->
                Engine!Balances(schedules[i], Engine!Events(schedules[i], today), allocations[i])]
IsReconciled == invoices \subseteq InvoiceRows /\ results = Engine!Reconciled(AllPeriods, invoices)

\* Each step has computed what it keeps from what the steps before it have kept.
ScheduleIInv ==
  /\ contract \in Contract /\ obligations \in Seq(Obligation) /\ today \in Days \cup {0}
  /\ revStage = "allocate" => obligations # <<>>
  /\ \/ revStage \in {"identify", "allocate", "done"} /\ NothingYet
     \/ revStage = "schedule" /\ IsAllocated /\ schedules = <<>> /\ balances = <<>>
     \/ revStage = "recognize" /\ IsAllocated /\ IsScheduled /\ balances = <<>>
     \/ revStage = "reconcile" /\ IsAllocated /\ IsScheduled /\ IsBalanced
     \/ revStage = "done" /\ IsAllocated /\ IsScheduled /\ IsBalanced /\ IsReconciled

LEMMA ScheduleStarts == Engine!Init => ScheduleIInv
<1> SUFFICES ASSUME Engine!Init PROVE ScheduleIInv
  OBVIOUS
<1>1. contract \in Contract /\ obligations \in Seq(Obligation) /\ today \in Days \cup {0}
  BY SameTotal DEF Engine!Init
<1> QED
  BY <1>1 DEF Engine!Init, ScheduleIInv, NothingYet

LEMMA ScheduleStep == ScheduleIInv /\ [Engine!Next]_scheduleVars => ScheduleIInv'
<1> SUFFICES ASSUME ScheduleIInv, [Engine!Next]_scheduleVars PROVE ScheduleIInv'
  OBVIOUS
<1>0. contract \in Contract /\ obligations \in Seq(Obligation) /\ today \in Days \cup {0}
  BY DEF ScheduleIInv
<1>1. CASE Engine!Identify
  <2>1. obligations' \in Seq(Obligation)
    BY <1>0, <1>1, IdentifiedAre DEF Engine!Identify
  <2>2. NothingYet
    BY <1>1 DEF Engine!Identify, ScheduleIInv
  <2> QED
    BY <1>0, <1>1, <2>1, <2>2 DEF Engine!Identify, ScheduleIInv, NothingYet
<1>2. CASE Engine!GiveObligations
  <2>0. NothingYet
    BY <1>2 DEF Engine!GiveObligations, ScheduleIInv
  <2> DEFINE found == Engine!Identified(contract)
  <2>1. found \in Seq(Obligation) /\ found # <<>>
    BY <1>0, <1>2, IdentifiedAre DEF Engine!GiveObligations
  <2>2. PICK ssps \in [DOMAIN found -> Amounts \cup {NoPrice}] :
          obligations' = [i \in DOMAIN ssps |-> [found[i] EXCEPT !.ssp = ssps[i]]]
    BY <1>2 DEF Engine!GiveObligations
  <2> HIDE DEF found
  <2>3. DOMAIN found = 1..Len(found) /\ Len(found) \in Nat /\ Len(found) # 0
        /\ \A i \in DOMAIN found : found[i] \in Obligation
    BY <2>1
  <2>4. \A i \in DOMAIN found : [found[i] EXCEPT !.ssp = ssps[i]] \in Obligation
    <3> SUFFICES ASSUME NEW i \in DOMAIN found
                 PROVE  [found[i] EXCEPT !.ssp = ssps[i]] \in Obligation
      OBVIOUS
    <3>1. found[i] \in Obligation /\ ssps[i] \in Amounts \cup {NoPrice}
      BY <2>3
    <3> QED
      BY <3>1 DEF Obligation
  <2>5. obligations' \in [1..Len(found) -> Obligation]
    BY <2>2, <2>3, <2>4
  <2>6. obligations' \in Seq(Obligation) /\ obligations' # <<>>
    BY <2>3, <2>5
  <2> QED
    BY <1>0, <1>2, <2>0, <2>6 DEF Engine!GiveObligations, ScheduleIInv, NothingYet
<1>3. CASE Engine!Allocate
  <2>1. NothingYet /\ obligations # <<>>
    BY <1>3 DEF Engine!Allocate, ScheduleIInv
  <2>2. IsAllocated'
    BY <1>3, <2>1, SameTotal DEF Engine!Allocate, IsAllocated
  <2> QED
    BY <1>0, <1>3, <2>1, <2>2 DEF Engine!Allocate, ScheduleIInv, NothingYet
<1>4. CASE Engine!Generate
  <2>1. IsAllocated /\ balances = <<>>
    BY <1>4 DEF Engine!Generate, ScheduleIInv
  <2>2. IsAllocated' /\ IsScheduled'
    BY <1>4, <2>1 DEF Engine!Generate, IsAllocated, IsScheduled, Total
  <2> QED
    BY <1>0, <1>4, <2>1, <2>2 DEF Engine!Generate, ScheduleIInv
<1>5. CASE Engine!Recognize
  <2>1. IsAllocated /\ IsScheduled
    BY <1>5 DEF Engine!Recognize, ScheduleIInv
  <2>2. IsAllocated' /\ IsScheduled' /\ IsBalanced'
    BY <1>5, <2>1 DEF Engine!Recognize, IsAllocated, IsScheduled, IsBalanced, Total
  <2> QED
    BY <1>0, <1>5, <2>2 DEF Engine!Recognize, ScheduleIInv
<1>6. CASE Engine!Reconcile
  <2>1. IsAllocated /\ IsScheduled /\ IsBalanced
    BY <1>6 DEF Engine!Reconcile, ScheduleIInv
  <2>2. IsAllocated' /\ IsScheduled' /\ IsBalanced'
    BY <1>6, <2>1 DEF Engine!Reconcile, IsAllocated, IsScheduled, IsBalanced, Total
  <2>3. AllPeriods' = AllPeriods
    BY <1>6 DEF Engine!Reconcile, AllPeriods
  <2>4. IsReconciled'
    BY <1>6, <2>3, SameTotal DEF Engine!Reconcile, IsReconciled
  <2> QED
    BY <1>0, <1>6, <2>2, <2>4 DEF Engine!Reconcile, ScheduleIInv
<1>7. CASE UNCHANGED scheduleVars
  <2>1. AllPeriods' = AllPeriods
    BY <1>7 DEF scheduleVars, AllPeriods
  <2> QED
    BY <1>7, <2>1 DEF scheduleVars, ScheduleIInv, NothingYet, IsAllocated, IsScheduled,
                      IsBalanced, IsReconciled, Total
<1> QED
  BY <1>1, <1>2, <1>3, <1>4, <1>5, <1>6, <1>7 DEF Engine!Next

\* The sum of the members' scheduled amounts.
LEMMA DueIsSum ==
  ASSUME NEW periods
  PROVE  SumFunction([p \in periods |-> p.scheduled]) = Sigma(periods, Due(periods))
<1>1. [p \in periods |-> p.scheduled] = [p \in periods |-> Due(periods)[p]]
  BY DEF Due
<1> QED
  BY <1>1 DEF Sigma

LEMMA AllocationsAreRight ==
  ASSUME ScheduleIInv
  PROVE  /\ allocations \in Seq(Int) /\ AllocationAddsUp
         /\ IsAllocated => DOMAIN allocations = DOMAIN obligations
<1>1. contract \in Contract /\ obligations \in Seq(Obligation)
  BY DEF ScheduleIInv
<1>2. CASE allocations = <<>>
  <2>1. allocations \in Seq(Int) /\ AllocationAddsUp
    BY <1>2 DEF AllocationAddsUp
  <2>2. ~IsAllocated
    <3> SUFFICES ASSUME IsAllocated PROVE FALSE
      OBVIOUS
    <3>1. obligations # <<>>
          /\ allocations = Engine!Allocated(obligations, Total(contract, obligations))
      BY DEF IsAllocated
    <3> QED
      BY <1>1, <1>2, <3>1, AllocatedIsFair
  <2> QED
    BY <2>1, <2>2
<1>3. CASE allocations # <<>>
  <2>1. obligations # <<>>
        /\ allocations = Engine!Allocated(obligations, Total(contract, obligations))
    BY <1>3 DEF ScheduleIInv, NothingYet, IsAllocated
  <2>2. /\ allocations \in Seq(Int) /\ Len(allocations) = Len(obligations) /\ AllocationAddsUp
    BY <1>1, <2>1, AllocatedIsFair
  <2>3. DOMAIN allocations = DOMAIN obligations
    BY <1>1, <2>2
  <2> QED
    BY <2>2, <2>3
<1> QED
  BY <1>2, <1>3

\* What is known of the schedule of an obligation.
LEMMA SchedulesAre ==
  ASSUME ScheduleIInv, NEW i \in DOMAIN schedules
  PROVE  /\ i \in DOMAIN obligations /\ allocations[i] \in Int /\ IsAllocated
         /\ WellFormed(schedules[i]) /\ Service(contract.start, contract.end)
         /\ Method[obligations[i].type] = "straight_line" =>
              schedules[i] = Engine!StraightLine(contract.start, contract.end, allocations[i])
<1>1. IsAllocated /\ IsScheduled
  BY DEF ScheduleIInv, NothingYet
<1>2. i \in DOMAIN obligations
      /\ schedules[i] = Engine!Schedule(contract, obligations[i], allocations[i])
  BY <1>1 DEF IsScheduled
<1>3. allocations[i] \in Int
  BY <1>1, <1>2, AllocationsAreRight
<1>4. Service(contract.start, contract.end)
  BY ContractsAre DEF ScheduleIInv
<1> QED
  BY <1>1, <1>2, <1>3, <1>4, SchedulesAreWellFormed

LEMMA SchedulesAreRight == ScheduleIInv => PeriodsTile /\ ScheduleIsEven
<1> SUFFICES ASSUME ScheduleIInv, NEW i \in DOMAIN schedules,
                    Method[obligations[i].type] = "straight_line"
             PROVE  /\ Tiled(schedules[i], contract.start, contract.end)
                    /\ Even(schedules[i], contract.start, contract.end, allocations[i])
  BY DueIsSum DEF PeriodsTile, ScheduleIsEven, Tiled, Even
<1> QED
  BY SchedulesAre, StraightLineIsRight

LEMMA BalancesAreRight == ScheduleIInv => BalancesRollForward
<1> SUFFICES ASSUME ScheduleIInv, NEW i \in DOMAIN balances, NEW b \in balances[i]
             PROVE  /\ \/ \E a \in balances[i] : a.end < b.end /\ a.closing = b.opening
                       \/ b.opening = allocations[i] /\ \A a \in balances[i] : b.end <= a.end
                    /\ /\ \A a \in balances[i] : a.end <= b.end
                       /\ Method[obligations[i].type] = "straight_line"
                       => b.closing = allocations[i]
                            - SumFunction([p \in {q \in schedules[i] : q.end <= today} |-> p.scheduled])
  BY DEF BalancesRollForward
<1>1. IsBalanced
  BY DEF ScheduleIInv, NothingYet
<1>2. i \in DOMAIN schedules
      /\ balances[i] = Engine!Balances(schedules[i], Engine!Events(schedules[i], today), allocations[i])
  BY <1>1 DEF IsBalanced
<1>3. allocations[i] \in Int /\ WellFormed(schedules[i])
  BY <1>2, SchedulesAre
<1>4. Happened(Engine!Events(schedules[i], today))
  BY <1>3, EventsHappen
<1>5. \/ \E a \in balances[i] : a.end < b.end /\ a.closing = b.opening
      \/ b.opening = allocations[i] /\ \A a \in balances[i] : b.end <= a.end
  BY <1>2, <1>3, <1>4, BalancesRoll
<1>6. ASSUME \A a \in balances[i] : a.end <= b.end,
             Method[obligations[i].type] = "straight_line"
      PROVE  b.closing = allocations[i]
               - SumFunction([p \in {q \in schedules[i] : q.end <= today} |-> p.scheduled])
  <2>1. InLine(schedules[i]) /\ EndsApart(schedules[i])
    <3>1. schedules[i] = Engine!StraightLine(contract.start, contract.end, allocations[i])
          /\ Service(contract.start, contract.end)
      BY <1>2, <1>6, SchedulesAre
    <3> QED
      BY <1>3, <3>1, StraightLineIsRight
  <2>2. b.closing = allocations[i] - Sigma(Until(schedules[i], today), Due(schedules[i]))
    BY <1>2, <1>3, <1>6, <2>1, LastBalance
  <2>3. [p \in {q \in schedules[i] : q.end <= today} |-> p.scheduled]
          = [p \in Until(schedules[i], today) |-> Due(schedules[i])[p]]
    BY DEF Until, Due
  <2> QED
    BY <2>2, <2>3 DEF Sigma
<1> QED
  BY <1>5, <1>6

LEMMA ResultsAreRight == ScheduleIInv => NothingLeftOut
<1> SUFFICES ASSUME ScheduleIInv, revStage = "done"
             PROVE  /\ SumFunction([r \in results |-> r.scheduled])
                         = SumFunction([p \in AllPeriods |-> p.scheduled])
                    /\ SumFunction([r \in results |-> r.invoiced])
                         = SumFunction([b \in invoices |-> b.total])
  BY DEF NothingLeftOut
<1>1. CASE NothingYet
  <2>1. AllPeriods = {} /\ results = {} /\ invoices = {}
    BY <1>1 DEF NothingYet, AllPeriods
  <2>2. /\ [r \in results |-> r.scheduled] = [p \in AllPeriods |-> p.scheduled]
        /\ [r \in results |-> r.invoiced] = [b \in invoices |-> b.total]
    BY <2>1
  <2> QED
    BY <2>2
<1>2. CASE ~NothingYet
  <2>1. IsReconciled /\ IsScheduled
    BY <1>2 DEF ScheduleIInv
  <2>2. IsFiniteSet(DOMAIN schedules)
    <3>1. DOMAIN schedules = 1..Len(obligations) /\ Len(obligations) \in Nat
      BY <2>1 DEF ScheduleIInv, IsScheduled
    <3> QED
      BY <3>1, FirstNumbers
  <2>3. \A i \in DOMAIN schedules : WellFormed(schedules[i])
    BY SchedulesAre
  <2>4. IsFiniteSet(AllPeriods) /\ \A p \in AllPeriods : p.scheduled \in Int
    BY <2>2, <2>3, AllPeriodsAreFinite
  <2>5. IsFiniteSet(invoices) /\ \A b \in invoices : b.total \in Int
    <3>1. invoices \subseteq InvoiceRows /\ IsFiniteSet(InvoiceRows) /\ \A b \in InvoiceRows : b.total \in Int
      BY <2>1, ScheduleAssumption DEF IsReconciled
    <3> QED
      BY <3>1, FS_Subset
  <2>6. results = Engine!Reconciled(AllPeriods, invoices)
    BY <2>1 DEF IsReconciled
  <2> HIDE DEF AllPeriods
  <2> QED
    BY <2>4, <2>5, <2>6, ReconciledCountsAll
<1> QED
  BY <1>1, <1>2

LEMMA ScheduleHolds == ScheduleIInv => ScheduleInv
<1> SUFFICES ASSUME ScheduleIInv PROVE ScheduleInv
  OBVIOUS
<1>1. ScheduleTypeOK
  <2>1. DOMAIN schedules \subseteq DOMAIN obligations
    BY SchedulesAre
  <2> QED
    BY <2>1, AllocationsAreRight DEF ScheduleIInv, ScheduleTypeOK
<1> QED
  BY <1>1, AllocationsAreRight, SchedulesAreRight, BalancesAreRight, ResultsAreRight DEF ScheduleInv

\* Types; the allocated amounts add up to the price of the contract, each day of the
\* service is in one period, a straight-line schedule is even and adds up, the
\* deferred balances roll forward, and the reconciliation counts every cent once, for
\* any prices, days, months and invoices (allocatePrices, computeRevRec,
\* reconcileContract).
THEOREM ScheduleIsRight == Engine!Spec => []ScheduleInv
<1>1. ScheduleIInv /\ [Engine!Next]_(Engine!scheduleVars) => ScheduleIInv'
  BY ScheduleStep DEF Engine!scheduleVars, scheduleVars
<1> QED
  BY <1>1, ScheduleStarts, ScheduleHolds, PTL DEF Engine!Spec

(***************************************************************************)
(* SimEngine                                                               *)
(***************************************************************************)
WhatIf == INSTANCE SimEngine

Column == Int \cup {Null}
SetsArr(o) == o.type = "contract_term" /\ o.field = "arr"
ChangesArr(o) == SetsArr(o) \/ o.type \in {"price_change", "discount_change"}

\* An override that does not come before o in the sequence changes the same ARR.
ChangesAgain(o, p) == p.on = "contract" /\ p.id = o.id /\ p.seq >= o.seq /\ ChangesArr(p)

LEMMA WhatIfBooks ==
  ASSUME NEW b \in SimBooks
  PROVE  /\ b \in BookOf(DOMAIN b.contracts, DOMAIN b.invoices, DOMAIN b.obligations)
         /\ IsFiniteSet(DOMAIN b.contracts) /\ IsFiniteSet(DOMAIN b.obligations)
BY WhatIfAssumption

LEMMA OverrideIs ==
  ASSUME NEW o \in Overrides
  PROVE  /\ o.type \in DOMAIN Targets /\ o.by \in Int /\ o.seq \in Int
         /\ o.type = "timing_shift" => o.field \in {"start", "end"}
BY WhatIfAssumption

\* The instance has its own copies of the operators of the state.
LEMMA SameValid == \A b, o : WhatIf!Valid(b, o) <=> Valid(b, o)
BY DEF WhatIf!Valid, Valid, WhatIf!ContractFields, ContractFields, WhatIf!TargetExists, TargetExists, WhatIf!Targets, Targets

(***************************************************************************)
(* What an override does to a book                                         *)
(***************************************************************************)
WithArr(b, c, v) == [b EXCEPT !.contracts[c].arr = v]
WithDay(b, c, f, v) == [b EXCEPT !.contracts[c][f] = v]
WithPrice(b, c, v) == [b EXCEPT !.obligations[c].price = v]
WithService(b, c, f, v) == [b EXCEPT !.obligations[c][f] = v]
WithTotal(b, c, v) == [b EXCEPT !.invoices[c].total = v]

LEMMA PutArr ==
  ASSUME NEW C, NEW I, NEW O, NEW b \in BookOf(C, I, O), NEW c \in C, NEW v \in Column
  PROVE  /\ WithArr(b, c, v) \in BookOf(C, I, O)
         /\ WithArr(b, c, v).obligations = b.obligations
         /\ WithArr(b, c, v).contracts[c].arr = v
         /\ \A d \in C : d # c =>
              WithArr(b, c, v).contracts[d].arr = b.contracts[d].arr
BY DEF BookOf, Column, WithArr

LEMMA PutDay ==
  ASSUME NEW C, NEW I, NEW O, NEW b \in BookOf(C, I, O), NEW c \in C, NEW v \in Column,
         NEW f \in {"start", "end"}
  PROVE  /\ WithDay(b, c, f, v) \in BookOf(C, I, O)
         /\ WithDay(b, c, f, v).obligations = b.obligations
         /\ \A d \in C : WithDay(b, c, f, v).contracts[d].arr = b.contracts[d].arr
BY DEF BookOf, Column, WithDay

LEMMA PutPrice ==
  ASSUME NEW C, NEW I, NEW O, NEW b \in BookOf(C, I, O), NEW c \in O, NEW v \in Int
  PROVE  /\ WithPrice(b, c, v) \in BookOf(C, I, O)
         /\ WithPrice(b, c, v).contracts = b.contracts
         /\ \A d \in O : d # c =>
              WithPrice(b, c, v).obligations[d].price = b.obligations[d].price
BY DEF BookOf, WithPrice

LEMMA PutService ==
  ASSUME NEW C, NEW I, NEW O, NEW b \in BookOf(C, I, O), NEW c \in O, NEW v \in Column,
         NEW f \in {"start", "end"}
  PROVE  /\ WithService(b, c, f, v) \in BookOf(C, I, O)
         /\ WithService(b, c, f, v).contracts = b.contracts
         /\ \A d \in O :
              WithService(b, c, f, v).obligations[d].price = b.obligations[d].price
BY DEF BookOf, Column, WithService

LEMMA PutTotal ==
  ASSUME NEW C, NEW I, NEW O, NEW b \in BookOf(C, I, O), NEW c \in I, NEW v \in Int
  PROVE  /\ WithTotal(b, c, v) \in BookOf(C, I, O)
         /\ WithTotal(b, c, v).contracts = b.contracts
         /\ WithTotal(b, c, v).obligations = b.obligations
BY DEF BookOf, WithTotal

\* What an override targets is in the book, and an override changes nothing else.
Aimed(C, I, O, o) ==
  /\ o.on \in Targets[o.type]
  /\ o.on = "contract" => o.id \in C
  /\ o.on = "invoice" => o.id \in I
  /\ o.on = "obligation" => o.id \in O
Effect(C, O, b, m, o) ==
  /\ \A c \in C : m.contracts[c].arr # b.contracts[c].arr =>
       o.on = "contract" /\ o.id = c /\ ChangesArr(o)
  /\ \A c \in O : m.obligations[c].price # b.obligations[c].price =>
       o.on = "obligation" /\ o.id = c
  /\ SetsArr(o) => m.contracts[o.id].arr = o.by

\* A book that differs in one such place is what the override may make of it.
LEMMA ArrEffect ==
  ASSUME NEW C, NEW I, NEW O, NEW b \in BookOf(C, I, O), NEW o, NEW v \in Column,
         o.id \in C, o.on = "contract",
         ChangesArr(o), SetsArr(o) => v = o.by
  PROVE  WithArr(b, o.id, v) \in BookOf(C, I, O) /\ Effect(C, O, b, WithArr(b, o.id, v), o)
<1> DEFINE m == WithArr(b, o.id, v)
<1>1. /\ m \in BookOf(C, I, O) /\ m.obligations = b.obligations /\ m.contracts[o.id].arr = v
      /\ \A d \in C : d # o.id => m.contracts[d].arr = b.contracts[d].arr
  BY PutArr
<1> HIDE DEF m
<1> QED
  <2>1. m \in BookOf(C, I, O) /\ Effect(C, O, b, m, o)
    BY <1>1 DEF Effect
  <2> QED
    BY <2>1 DEF m

LEMMA DayEffect ==
  ASSUME NEW C, NEW I, NEW O, NEW b \in BookOf(C, I, O), NEW o, NEW v \in Column,
         o.id \in C,
         o.field \in {"start", "end"}, ~SetsArr(o)
  PROVE  /\ WithDay(b, o.id, o.field, v) \in BookOf(C, I, O)
         /\ Effect(C, O, b, WithDay(b, o.id, o.field, v), o)
<1> DEFINE m == WithDay(b, o.id, o.field, v)
<1>1. /\ m \in BookOf(C, I, O) /\ m.obligations = b.obligations
      /\ \A d \in C : m.contracts[d].arr = b.contracts[d].arr
  BY PutDay
<1> HIDE DEF m
<1> QED
  <2>1. m \in BookOf(C, I, O) /\ Effect(C, O, b, m, o)
    BY <1>1 DEF Effect
  <2> QED
    BY <2>1 DEF m

LEMMA ServiceEffect ==
  ASSUME NEW C, NEW I, NEW O, NEW b \in BookOf(C, I, O), NEW o, NEW v \in Column,
         o.id \in O,
         o.field \in {"start", "end"}, ~SetsArr(o)
  PROVE  /\ WithService(b, o.id, o.field, v) \in BookOf(C, I, O)
         /\ Effect(C, O, b, WithService(b, o.id, o.field, v), o)
<1> DEFINE m == WithService(b, o.id, o.field, v)
<1>1. /\ m \in BookOf(C, I, O) /\ m.contracts = b.contracts
      /\ \A d \in O : m.obligations[d].price = b.obligations[d].price
  BY PutService
<1> HIDE DEF m
<1> QED
  <2>1. m \in BookOf(C, I, O) /\ Effect(C, O, b, m, o)
    BY <1>1 DEF Effect
  <2> QED
    BY <2>1 DEF m

LEMMA ColumnChanges ==
  ASSUME NEW o \in Overrides, NEW v \in Column
  PROVE  /\ WhatIf!Changed(v, o) \in Column /\ WhatIf!Moved(v, o) \in Column
         /\ v \in Int => WhatIf!Changed(v, o) \in Int /\ WhatIf!Discounted(v, o) \in Int
<1>0. o.by \in Int /\ Null \notin Int
  BY OverrideIs, WhatIfAssumption
<1>1. WhatIf!Or0(v) \in Int
  BY DEF WhatIf!Or0, Column
<1>2. \A i, k \in Int : (i * (100 + k)) \div 100 \in Int /\ (i * (100 - k)) \div 100 \in Int
  <2>1. \A i, k \in Int : i * (100 + k) \in Int /\ i * (100 - k) \in Int
    OBVIOUS
  <2>2. \A i \in Int : i \div 100 \in Int
    OBVIOUS
  <2> QED
    BY <2>1, <2>2
<1>3. WhatIf!Changed(v, o) \in Column /\ (v \in Int => WhatIf!Changed(v, o) \in Int)
  BY <1>0, <1>1, <1>2 DEF WhatIf!Changed, Column
<1>4. WhatIf!Moved(v, o) \in Column
  BY <1>0 DEF WhatIf!Moved, Column
<1>5. v \in Int => WhatIf!Discounted(v, o) \in Int
  BY <1>0, <1>2 DEF WhatIf!Discounted
<1> QED
  BY <1>3, <1>4, <1>5

LEMMA ApplyIs ==
  ASSUME NEW C, NEW I, NEW O, NEW b \in BookOf(C, I, O), NEW o \in Overrides,
         Aimed(C, I, O, o), WhatIf!IsApplied(b, o)
  PROVE  /\ WhatIf!Apply(b, o) \in BookOf(C, I, O)
         /\ Effect(C, O, b, WhatIf!Apply(b, o), o)
<1> DEFINE m == WhatIf!Apply(b, o)
<1>0. /\ o.type \in DOMAIN Targets /\ o.by \in Int /\ o.by \in Column
      /\ o.type = "timing_shift" => o.field \in {"start", "end"}
  BY OverrideIs DEF Column
<1>1. /\ \A c \in C : b.contracts[c].arr \in Column /\ b.contracts[c]["start"] \in Column
                        /\ b.contracts[c]["end"] \in Column
      /\ \A c \in I : b.invoices[c].total \in Int
      /\ \A c \in O : b.obligations[c].price \in Int /\ b.obligations[c]["start"] \in Column
                        /\ b.obligations[c]["end"] \in Column
  BY DEF BookOf, Column
<1>2. CASE o.type = "contract_term"
  <2>1. o.on = "contract" /\ o.id \in C
    BY <1>2 DEF Aimed, Targets
  <2>2. m = WhatIf!ApplyContractTerm(b, o)
    BY <1>2 DEF WhatIf!Apply
  <2>3. CASE o.field = "arr"
    <3>1. m = WithArr(b, o.id, o.by)
      BY <2>2, <2>3 DEF WhatIf!ApplyContractTerm, WithArr
    <3> QED
      <4>1. ChangesArr(o)
        BY <1>2, <2>3 DEF ChangesArr, SetsArr
      <4>2. /\ WithArr(b, o.id, o.by) \in BookOf(C, I, O)
            /\ Effect(C, O, b, WithArr(b, o.id, o.by), o)
        BY <1>0, <2>1, <4>1, ArrEffect
      <4> QED
        BY <3>1, <4>2
  <2>4. CASE o.field \in {"start", "end"}
    <3>1. m = WithDay(b, o.id, o.field, o.by)
      BY <2>2, <2>4 DEF WhatIf!ApplyContractTerm, WithDay
    <3> QED
      <4>1. ~SetsArr(o)
        BY <2>4 DEF SetsArr
      <4>2. /\ WithDay(b, o.id, o.field, o.by) \in BookOf(C, I, O)
            /\ Effect(C, O, b, WithDay(b, o.id, o.field, o.by), o)
        BY <1>0, <2>1, <2>4, <4>1, DayEffect
      <4> QED
        BY <3>1, <4>2
  <2>5. CASE o.field \notin {"arr", "start", "end"}
    BY <2>2, <2>5 DEF WhatIf!ApplyContractTerm, Effect, SetsArr
  <2> QED
    BY <2>3, <2>4, <2>5
<1>3. CASE o.type = "price_change"
  <2>1. m = WhatIf!ApplyPriceChange(b, o) /\ ~SetsArr(o) /\ ChangesArr(o)
    BY <1>3 DEF WhatIf!Apply, SetsArr, ChangesArr
  <2>2. CASE o.on = "contract"
    <3>1. m = WithArr(b, o.id, WhatIf!Changed(b.contracts[o.id].arr, o))
      BY <2>1, <2>2 DEF WhatIf!ApplyPriceChange, WithArr
    <3>2. o.id \in C /\ WhatIf!Changed(b.contracts[o.id].arr, o) \in Column
      BY <1>1, <2>2, ColumnChanges DEF Aimed
    <3> QED
      BY <2>1, <2>2, <3>1, <3>2, PutArr DEF Effect
  <2>3. CASE o.on = "obligation"
    <3>1. m = WithPrice(b, o.id, WhatIf!Changed(b.obligations[o.id].price, o))
      BY <2>1, <2>3 DEF WhatIf!ApplyPriceChange, WithPrice
    <3>2. o.id \in O /\ WhatIf!Changed(b.obligations[o.id].price, o) \in Int
      BY <1>1, <2>3, ColumnChanges DEF Aimed, Column
    <3> QED
      BY <2>1, <2>3, <3>1, <3>2, PutPrice DEF Effect
  <2> QED
    BY <1>3, <2>2, <2>3 DEF Aimed, Targets, WhatIf!IsApplied
<1>4. CASE o.type = "timing_shift"
  <2>1. m = WhatIf!ApplyTimingShift(b, o) /\ ~SetsArr(o) /\ o.field \in {"start", "end"}
    BY <1>0, <1>4 DEF WhatIf!Apply, SetsArr
  <2>2. CASE o.on = "contract"
    <3> DEFINE v == WhatIf!Moved(b.contracts[o.id][o.field], o)
    <3>1. m = WithDay(b, o.id, o.field, v)
      BY <2>1, <2>2 DEF WhatIf!ApplyTimingShift, WithDay
    <3>2. o.id \in C
      BY <2>2 DEF Aimed
    <3>3. b.contracts[o.id][o.field] \in Column
      BY <1>1, <2>1, <3>2
    <3>4. v \in Column
      BY <3>3, ColumnChanges
    <3> HIDE DEF v
    <3>5. /\ WithDay(b, o.id, o.field, v) \in BookOf(C, I, O)
          /\ Effect(C, O, b, WithDay(b, o.id, o.field, v), o)
      BY <2>1, <3>2, <3>4, DayEffect
    <3> QED
      BY <3>1, <3>5
  <2>3. CASE o.on = "obligation"
    <3> DEFINE v == WhatIf!Moved(b.obligations[o.id][o.field], o)
    <3>1. m = WithService(b, o.id, o.field, v)
      BY <2>1, <2>3 DEF WhatIf!ApplyTimingShift, WithService
    <3>2. o.id \in O
      BY <2>3 DEF Aimed
    <3>3. b.obligations[o.id][o.field] \in Column
      BY <1>1, <2>1, <3>2
    <3>4. v \in Column
      BY <3>3, ColumnChanges
    <3> HIDE DEF v
    <3>5. /\ WithService(b, o.id, o.field, v) \in BookOf(C, I, O)
          /\ Effect(C, O, b, WithService(b, o.id, o.field, v), o)
      BY <2>1, <3>2, <3>4, ServiceEffect
    <3> QED
      BY <3>1, <3>5
  <2> QED
    BY <1>4, <2>2, <2>3 DEF Aimed, Targets
<1>5. CASE o.type = "discount_change"
  <2>1. m = WhatIf!ApplyDiscount(b, o) /\ ~SetsArr(o) /\ ChangesArr(o)
    BY <1>5 DEF WhatIf!Apply, SetsArr, ChangesArr
  <2>2. CASE o.on = "contract"
    <3>1. m = WithArr(b, o.id, WhatIf!Discounted(b.contracts[o.id].arr, o))
      BY <2>1, <2>2 DEF WhatIf!ApplyDiscount, WithArr
    <3>2. o.id \in C /\ b.contracts[o.id].arr \in Int
      BY <1>1, <1>5, <2>2 DEF Aimed, WhatIf!IsApplied, Column
    <3>3. WhatIf!Discounted(b.contracts[o.id].arr, o) \in Column
      BY <3>2, ColumnChanges DEF Column
    <3> DEFINE v == WhatIf!Discounted(b.contracts[o.id].arr, o)
    <3> HIDE DEF v
    <3>4. /\ WithArr(b, o.id, v) \in BookOf(C, I, O)
          /\ Effect(C, O, b, WithArr(b, o.id, v), o)
      BY <2>1, <2>2, <3>2, <3>3, ArrEffect DEF v
    <3> QED
      BY <3>1, <3>4 DEF v
  <2>3. CASE o.on = "invoice"
    <3>1. m = WithTotal(b, o.id, WhatIf!Discounted(b.invoices[o.id].total, o))
      BY <2>1, <2>3 DEF WhatIf!ApplyDiscount, WithTotal
    <3>2. o.id \in I /\ WhatIf!Discounted(b.invoices[o.id].total, o) \in Int
      BY <1>1, <2>3, ColumnChanges DEF Aimed, Column
    <3> QED
      BY <2>1, <2>3, <3>1, <3>2, PutTotal DEF Effect
  <2> QED
    BY <1>5, <2>2, <2>3 DEF Aimed, Targets, WhatIf!IsApplied
<1>6. CASE o.type = "billing_adjustment"
  <2>1. m = WhatIf!ApplyBilling(b, o) /\ ~SetsArr(o)
    BY <1>6 DEF WhatIf!Apply, SetsArr
  <2>2. o.on = "invoice" /\ o.id \in I
    BY <1>6 DEF Aimed, Targets, WhatIf!IsApplied
  <2> DEFINE old == b.invoices[o.id].total
             v == IF o.op = "pct" THEN (old * (100 + o.by)) \div 100 ELSE old + o.by
  <2>3. m = WithTotal(b, o.id, v)
    BY <2>1 DEF WhatIf!ApplyBilling, WithTotal
  <2>4. old \in Int
    BY <1>1, <2>2
  <2>5. v \in Int
    <3> HIDE DEF old
    <3>1. old * (100 + o.by) \in Int
      BY <1>0, <2>4
    <3> QED
      BY <1>0, <2>4, <3>1
  <2> HIDE DEF v
  <2> QED
    BY <2>1, <2>2, <2>3, <2>5, PutTotal DEF Effect
<1> QED
  <2>1. o.type # "usage_adjustment"
    BY DEF WhatIf!IsApplied
  <2>2. o.type \in {"contract_term", "usage_adjustment", "billing_adjustment", "timing_shift",
                    "discount_change", "price_change"}
    BY <1>0 DEF Targets
  <2> QED
    BY <1>2, <1>3, <1>4, <1>5, <1>6, <2>1, <2>2


(***************************************************************************)
(* The order of the overrides                                              *)
(***************************************************************************)
Numbered(rows, S) == \A i \in S : i \in Int /\ rows[i].seq \in Int
Ordered(rows, n, f) == \A k, m \in 1..n : k < m => WhatIf!Before(rows, f[k], f[m])

LEMMA BeforeIsOrder ==
  ASSUME NEW rows, NEW S, Numbered(rows, S)
  PROVE  /\ \A i \in S : ~WhatIf!Before(rows, i, i)
         /\ \A i, j \in S : WhatIf!Before(rows, i, j) \/ WhatIf!Before(rows, j, i) \/ i = j
         /\ \A i, j, k \in S :
              WhatIf!Before(rows, i, j) /\ WhatIf!Before(rows, j, k) => WhatIf!Before(rows, i, k)
BY DEF WhatIf!Before, Numbered

\* Some row comes after all others.
LEMMA LastRow ==
  ASSUME NEW rows, NEW S, IsFiniteSet(S), Numbered(rows, S), S # {}
  PROVE  \E m \in S : \A i \in S \ {m} : WhatIf!Before(rows, i, m)
<1> DEFINE Has(s) == \E m \in s : \A i \in s \ {m} : WhatIf!Before(rows, i, m)
           B == {s \in SUBSET S : s = {} \/ Has(s)}
<1>1. {} \in B
  OBVIOUS
<1>2. ASSUME NEW s \in SUBSET S, s \in B, NEW x \in S \ s PROVE s \cup {x} \in B
  <2>1. CASE s = {}
    <3>1. \A i \in (s \cup {x}) \ {x} : WhatIf!Before(rows, i, x)
      BY <2>1
    <3> QED
      BY <3>1
  <2>2. CASE Has(s)
    <3>1. PICK m \in s : \A i \in s \ {m} : WhatIf!Before(rows, i, m)
      BY <2>2
    <3>2. CASE WhatIf!Before(rows, x, m)
      <4>1. \A i \in (s \cup {x}) \ {m} : WhatIf!Before(rows, i, m)
        BY <3>1, <3>2
      <4> QED
        BY <4>1
    <3>3. CASE WhatIf!Before(rows, m, x)
      <4>1. \A i \in (s \cup {x}) \ {x} : WhatIf!Before(rows, i, x)
        BY <3>1, <3>3, BeforeIsOrder
      <4> QED
        BY <4>1
    <3> QED
      BY <3>2, <3>3, BeforeIsOrder
  <2> QED
    BY <1>2, <2>1, <2>2
<1>3. S \in B
  <2> HIDE DEF B
  <2> QED
    BY <1>1, <1>2, MemberByMember
<1> QED
  BY <1>3

LEMMA RowsCanBeOrdered ==
  ASSUME NEW rows, NEW S, IsFiniteSet(S), Numbered(rows, S)
  PROVE  \E f \in [1..Cardinality(S) -> S] : Ordered(rows, Cardinality(S), f)
<1> DEFINE Can(s, n) == \E f \in [1..n -> s] : Ordered(rows, n, f)
           Fine == {n \in Nat : \A s \in SUBSET S : Cardinality(s) = n => Can(s, n)}
<1>0. \A s \in SUBSET S : IsFiniteSet(s) /\ Cardinality(s) \in Nat
  BY FS_Subset, FS_CardinalityType
<1>1. 0 \in Fine
  <2> SUFFICES ASSUME NEW s \in SUBSET S PROVE Can(s, 0)
    OBVIOUS
  <2>1. [k \in 1..0 |-> s] \in [1..0 -> s] /\ Ordered(rows, 0, [k \in 1..0 |-> s])
    BY DEF Ordered
  <2> QED
    BY <2>1
<1>2. ASSUME NEW k \in Nat, k \in Fine PROVE k + 1 \in Fine
  <2> SUFFICES ASSUME NEW s \in SUBSET S, Cardinality(s) = k + 1 PROVE Can(s, k + 1)
    OBVIOUS
  <2>0. IsFiniteSet(s) /\ s # {} /\ Numbered(rows, s)
    BY <1>0, FS_EmptySet DEF Numbered
  <2>1. PICK m \in s : \A i \in s \ {m} : WhatIf!Before(rows, i, m)
    BY <2>0, LastRow
  <2>2. Cardinality(s \ {m}) = k
    <3>1. Cardinality(s) = Cardinality(s \ {m}) + 1 /\ Cardinality(s \ {m}) \in Nat
      BY <2>0, OneLess
    <3> QED
      BY <3>1
  <2>3. PICK f \in [1..k -> s \ {m}] : Ordered(rows, k, f)
    <3>1. s \ {m} \in SUBSET S
      OBVIOUS
    <3> QED
      BY <1>2, <2>2, <3>1
  <2> DEFINE g == [i \in 1..(k + 1) |-> IF i = k + 1 THEN m ELSE f[i]]
  <2>4. g \in [1..(k + 1) -> s]
    OBVIOUS
  <2>5. ASSUME NEW i \in 1..(k + 1), NEW j \in 1..(k + 1), i < j
        PROVE  WhatIf!Before(rows, g[i], g[j])
    <3>1. i \in 1..k /\ g[i] = f[i] /\ f[i] \in s \ {m}
      BY <2>5
    <3>2. CASE j = k + 1
      BY <2>1, <3>1, <3>2
    <3>3. CASE j # k + 1
      <4>1. j \in 1..k /\ g[j] = f[j]
        BY <3>3
      <4> QED
        BY <2>3, <2>5, <3>1, <4>1 DEF Ordered
    <3> QED
      BY <3>2, <3>3
  <2> HIDE DEF g
  <2> QED
    BY <2>4, <2>5 DEF Ordered
<1>3. Cardinality(S) \in Fine
  <2> HIDE DEF Fine
  <2>1. Cardinality(S) \in Nat
    BY <1>0
  <2> QED
    BY <1>1, <1>2, <2>1, Upwards
<1> QED
  BY <1>0, <1>3

\* What is in order holds every row, once.
LEMMA OrderedIsOnto ==
  ASSUME NEW rows, NEW S, IsFiniteSet(S), Numbered(rows, S), NEW n, n = Cardinality(S),
         NEW f \in [1..n -> S], Ordered(rows, n, f)
  PROVE  /\ n \in Nat
         /\ \A k, m \in 1..n : WhatIf!Before(rows, f[k], f[m]) => k < m
         /\ \A i \in S : \E k \in 1..n : f[k] = i
<1>1. n \in Nat
  BY FS_CardinalityType
<1>2. \A k, m \in 1..n : k < m \/ k = m \/ m < k
  BY <1>1
<1>3. ASSUME NEW k \in 1..n, NEW m \in 1..n, WhatIf!Before(rows, f[k], f[m]) PROVE k < m
  <2>1. CASE m < k
    <3>1. WhatIf!Before(rows, f[m], f[k]) /\ f[k] \in S /\ f[m] \in S
      BY <2>1 DEF Ordered
    <3> QED
      BY <1>3, <3>1, BeforeIsOrder
  <2>2. CASE m = k
    BY <1>3, <2>2, BeforeIsOrder
  <2> QED
    BY <1>2, <2>1, <2>2
<1>4. f \in Injection(1..n, S)
  <2>1. \A k, m \in 1..n : f[k] = f[m] => k = m
    BY <1>2, BeforeIsOrder DEF Ordered
  <2> QED
    BY <2>1 DEF Injection, IsInjective
<1>5. f \in Surjection(1..n, S)
  <2>1. Cardinality(1..n) = n
    BY <1>1, FS_Interval
  <2> QED
    BY <1>4, <2>1, FS_Injection
<1> QED
  BY <1>1, <1>3, <1>5 DEF Surjection

(***************************************************************************)
(* Deltas                                                                  *)
(***************************************************************************)
LEMMA SameAmounts ==
  /\ \A w : WhatIf!SumFunction(w) = SumFunction(w)
  /\ \A D : WhatIf!AmountOf(D) = AmountOf(D)
  /\ \A D, kind : WhatIf!OfKind(D, kind) = OfKind(D, kind)
<1>1. \A w : WhatIf!SumFunction(w) = SumFunction(w)
  BY DEF WhatIf!SumFunction, WhatIf!SumFunctionOnSet, WhatIf!FoldFunctionOnSet,
         WhatIf!MapThenFoldSet, SumFunction, SumFunctionOnSet, FoldFunctionOnSet, MapThenFoldSet
<1>2. \A D : WhatIf!AmountOf(D) = AmountOf(D)
  BY <1>1 DEF WhatIf!AmountOf, AmountOf
<1>3. \A D, kind : WhatIf!OfKind(D, kind) = OfKind(D, kind)
  BY DEF WhatIf!OfKind, OfKind
<1> QED
  BY <1>1, <1>2, <1>3

LEMMA SumOfOne ==
  ASSUME NEW x, NEW w, w[x] \in Int
  PROVE  Sigma({x}, w) = w[x] /\ Sigma({}, w) = 0
<1>1. IsFiniteSet({x})
  BY FS_Singleton
<1>2. PICK f : Sums(f, w, {x})
  BY <1>1, SumsExist
<1>3. f[{} \cup {x}] = f[{}] + w[x]
  BY <1>2 DEF Sums, Grows
<1>4. {} \cup {x} = {x} /\ f[{}] = 0 /\ f[{x}] = Sigma({x}, w) /\ f[{}] = Sigma({}, w)
  BY <1>2 DEF Sums
<1> QED
  BY <1>3, <1>4

\* What adds nothing does not count.
LEMMA SumOfNonzero ==
  ASSUME NEW S, IsFiniteSet(S), NEW w, \A q \in S : w[q] \in Int,
         NEW D, D \subseteq S, \A q \in S \ D : w[q] = 0
  PROVE  IsFiniteSet(D) /\ Sigma(D, w) = Sigma(S, w)
<1>1. PICK f : Sums(f, w, S)
  BY SumsExist
<1> DEFINE R == S \ D
           Fine == {s \in SUBSET R : f[s] = 0}
<1>2. {} \in Fine
  BY <1>1 DEF Sums
<1>3. ASSUME NEW s \in SUBSET R, s \in Fine, NEW x \in R \ s PROVE s \cup {x} \in Fine
  <2>1. f[s \cup {x}] = f[s] + w[x] /\ w[x] = 0
    BY <1>1 DEF Sums, Grows
  <2> QED
    BY <1>3, <2>1
<1>4. IsFiniteSet(R) /\ IsFiniteSet(D)
  BY FS_Subset
<1>5. R \in Fine
  <2> HIDE DEF Fine, R
  <2> QED
    BY <1>2, <1>3, <1>4, MemberByMember
<1>6. R \subseteq S /\ D \cap R = {} /\ D \cup R = S
  OBVIOUS
<1> HIDE DEF R
<1>7. f[D \cup R] = f[D] + f[R]
  BY <1>1, <1>6, SumUnion
<1>8. f[S] = Sigma(S, w) /\ f[S] = Sigma(S, w) /\ f[D] = Sigma(D, w) /\ f[D] \in Int /\ f[R] = 0
  BY <1>1, <1>5 DEF Sums
<1>9. f[D \cup R] = f[S]
  BY <1>6
<1> QED
  BY <1>4, <1>7, <1>8, <1>9

ArrOf(b) == [c \in DOMAIN b.contracts |-> WhatIf!Or0(b.contracts[c].arr)]

LEMMA RevenueOf ==
  ASSUME NEW C, NEW I, NEW O, NEW b \in BookOf(C, I, O), IsFiniteSet(C)
  PROVE  /\ DOMAIN b.contracts = C /\ DOMAIN b.obligations = O
         /\ \A c \in C : ArrOf(b)[c] \in Int /\ ArrOf(b)[c] = WhatIf!Or0(b.contracts[c].arr)
         /\ WhatIf!Revenue(b) = Sigma(C, ArrOf(b)) /\ WhatIf!Revenue(b) \in Int
<1>1. DOMAIN b.contracts = C /\ DOMAIN b.obligations = O
  BY DEF BookOf
<1>2. \A c \in C : ArrOf(b)[c] \in Int /\ ArrOf(b)[c] = WhatIf!Or0(b.contracts[c].arr)
  BY <1>1 DEF BookOf, ArrOf, WhatIf!Or0
<1>3. WhatIf!Revenue(b) = SumFunction(ArrOf(b))
  BY SameAmounts DEF WhatIf!Revenue, ArrOf
<1>4. DOMAIN ArrOf(b) = C /\ ArrOf(b) = [c \in C |-> ArrOf(b)[c]]
  BY <1>1 DEF ArrOf
<1>5. WhatIf!Revenue(b) = Sigma(C, ArrOf(b))
  BY <1>3, <1>4, SumIsSigma
<1>6. Sigma(C, ArrOf(b)) \in Int
  BY <1>2, SumType
<1> QED
  BY <1>1, <1>2, <1>5, <1>6

\* The impacts on contracts add up to the change of revenue.
LEMMA ImpactsAddUp ==
  ASSUME NEW C, NEW I, NEW O, NEW b \in BookOf(C, I, O), NEW m \in BookOf(C, I, O),
         IsFiniteSet(C)
  PROVE  AmountOf(WhatIf!ContractDeltas(b, m)) = WhatIf!Revenue(m) - WhatIf!Revenue(b)
<1> DEFINE old == ArrOf(b)
           new == ArrOf(m)
           w == [c \in C |-> new[c] - old[c]]
           D == {c \in C : old[c] # new[c]}
           h == [c \in C |-> WhatIf!Delta("contract_impact", c, old[c], new[c])]
           T == {h[c] : c \in D}
           amount == [d \in T |-> d.amount]
<1>0. /\ DOMAIN m.contracts = C /\ \A c \in C : old[c] \in Int /\ new[c] \in Int
      /\ \A c \in C : old[c] = WhatIf!Or0(b.contracts[c].arr)
      /\ \A c \in C : new[c] = WhatIf!Or0(m.contracts[c].arr)
      /\ WhatIf!Revenue(b) = Sigma(C, old) /\ WhatIf!Revenue(m) = Sigma(C, new)
      /\ WhatIf!Revenue(b) \in Int /\ WhatIf!Revenue(m) \in Int
  BY RevenueOf
<1> HIDE DEF old, new
<1>1. WhatIf!ContractDeltas(b, m) = T
  BY <1>0 DEF WhatIf!ContractDeltas
<1>2. \A c \in C : w[c] \in Int /\ w[c] = 1 * new[c] + (-1) * old[c]
  BY <1>0
<1>3. Sigma(C, w) = 1 * Sigma(C, new) + (-1) * Sigma(C, old)
  <2>1. Combines(w, 1, new, -1, old, C)
    BY <1>0, <1>2 DEF Combines
  <2> HIDE DEF w
  <2> QED
    BY <2>1, SumLinear
<1>4. IsFiniteSet(D) /\ Sigma(D, w) = Sigma(C, w)
  <2>1. D \subseteq C /\ \A c \in C \ D : w[c] = 0
    BY <1>0
  <2> HIDE DEF D, w
  <2> QED
    BY <1>2, <2>1, SumOfNonzero
<1>5. \A c \in C : h[c].id = c /\ h[c].amount = w[c]
  BY DEF WhatIf!Delta
<1>6. \A c \in D : amount[h[c]] = w[c]
  BY <1>5
<1>7. Sigma(T, amount) = Sigma(D, w)
  <2>1. \A c \in D : w[c] \in Int
    BY <1>2
  <2>2. \A c, d \in D : h[c] = h[d] => c = d
    BY <1>5
  <2> HIDE DEF D, w, h, amount
  <2> QED
    BY <1>4, <1>6, <2>1, <2>2, SumMap
<1>8. AmountOf(T) = Sigma(T, amount)
  <2>1. AmountOf(T) = SumFunction(amount)
    BY DEF AmountOf
  <2>2. DOMAIN amount = T /\ amount = [d \in T |-> amount[d]]
    OBVIOUS
  <2> HIDE DEF amount, T
  <2> QED
    BY <2>1, <2>2, SumIsSigma
<1> HIDE DEF T, D, w
<1> QED
  BY <1>0, <1>1, <1>3, <1>4, <1>7, <1>8

\* The total of the summary is the change of revenue.
LEMMA TotalIsTheChange ==
  ASSUME NEW b, NEW m, WhatIf!Revenue(b) \in Int, WhatIf!Revenue(m) \in Int
  PROVE  AmountOf(WhatIf!TotalDelta(b, m)) = WhatIf!Revenue(m) - WhatIf!Revenue(b)
<1> DEFINE x == WhatIf!Delta("revenue_total", Null, WhatIf!Revenue(b), WhatIf!Revenue(m))
           w == [d \in {x} |-> d.amount]
           v == [d \in {} |-> d.amount]
<1>1. x.amount = WhatIf!Revenue(m) - WhatIf!Revenue(b) /\ x.amount \in Int
  BY DEF WhatIf!Delta
<1> HIDE DEF x
<1>2. CASE WhatIf!Revenue(b) # WhatIf!Revenue(m)
  <2>1. WhatIf!TotalDelta(b, m) = {x}
    BY <1>2 DEF WhatIf!TotalDelta, x
  <2>2. AmountOf({x}) = SumFunction(w) /\ DOMAIN w = {x} /\ w = [d \in {x} |-> w[d]]
    BY DEF AmountOf
  <2>3. w[x] = x.amount
    OBVIOUS
  <2> HIDE DEF w
  <2>4. SumFunction(w) = Sigma({x}, w)
    BY <2>2, SumIsSigma
  <2>5. Sigma({x}, w) = w[x]
    BY <1>1, <2>3, SumOfOne
  <2> QED
    BY <1>1, <2>1, <2>2, <2>3, <2>4, <2>5
<1>3. CASE WhatIf!Revenue(b) = WhatIf!Revenue(m)
  <2>1. WhatIf!TotalDelta(b, m) = {}
    BY <1>3 DEF WhatIf!TotalDelta
  <2>2. AmountOf({}) = SumFunction(v) /\ DOMAIN v = {} /\ v = [d \in {} |-> v[d]]
    BY DEF AmountOf
  <2> HIDE DEF v
  <2>3. SumFunction(v) = Sigma({}, v)
    BY <2>2, SumIsSigma
  <2>4. Sigma({}, v) = 0
    <3> DEFINE u == [d \in {x} |-> 0]
    <3>1. u[x] \in Int
      OBVIOUS
    <3>2. Sigma({}, u) = 0
      <4> HIDE DEF u
      <4> QED
        BY <3>1, SumOfOne
    <3>3. Sigma({}, u) = Sigma({}, v)
      BY SameSummands
    <3> QED
      BY <3>2, <3>3
  <2> QED
    BY <1>3, <2>1, <2>2, <2>3, <2>4
<1> QED
  BY <1>2, <1>3

LEMMA DeltasAre ==
  ASSUME NEW C, NEW I, NEW O, NEW b \in BookOf(C, I, O), NEW m \in BookOf(C, I, O),
         NEW D, D = WhatIf!ContractDeltas(b, m) \cup WhatIf!ObligationDeltas(b, m)
                      \cup WhatIf!TotalDelta(b, m)
  PROVE  /\ OfKind(D, "contract_impact") = WhatIf!ContractDeltas(b, m)
         /\ OfKind(D, "revenue_total") = WhatIf!TotalDelta(b, m)
         /\ \A d \in D : d.kind # "revenue_total" =>
              \/ d.id \in C /\ m.contracts[d.id].arr # b.contracts[d.id].arr
              \/ d.id \in O /\ m.obligations[d.id].price # b.obligations[d.id].price
<1>0. DOMAIN m.contracts = C /\ DOMAIN m.obligations = O
  BY DEF BookOf
<1>1. \A d \in WhatIf!ContractDeltas(b, m) :
        /\ d.kind = "contract_impact"
        /\ d.id \in C /\ m.contracts[d.id].arr # b.contracts[d.id].arr
  BY <1>0 DEF WhatIf!ContractDeltas, WhatIf!Delta
<1>2. \A d \in WhatIf!ObligationDeltas(b, m) :
        /\ d.kind = "obligation_impact"
        /\ d.id \in O /\ m.obligations[d.id].price # b.obligations[d.id].price
  BY <1>0 DEF WhatIf!ObligationDeltas, WhatIf!Delta
<1>3. \A d \in WhatIf!TotalDelta(b, m) : d.kind = "revenue_total"
  BY DEF WhatIf!TotalDelta, WhatIf!Delta
<1>4. /\ "contract_impact" # "obligation_impact" /\ "contract_impact" # "revenue_total"
      /\ "obligation_impact" # "revenue_total"
  OBVIOUS
<1>5. OfKind(D, "contract_impact") = WhatIf!ContractDeltas(b, m)
  <2>1. \A d : d \in OfKind(D, "contract_impact") <=> d \in WhatIf!ContractDeltas(b, m)
    BY <1>1, <1>2, <1>3, <1>4 DEF OfKind
  <2> QED
    BY <2>1
<1>6. OfKind(D, "revenue_total") = WhatIf!TotalDelta(b, m)
  <2>1. \A d : d \in OfKind(D, "revenue_total") <=> d \in WhatIf!TotalDelta(b, m)
    BY <1>1, <1>2, <1>3, <1>4 DEF OfKind
  <2> QED
    BY <2>1
<1> QED
  BY <1>1, <1>2, <1>3, <1>5, <1>6

(***************************************************************************)
(* The invariant                                                           *)
(***************************************************************************)
Accepted == {i \in DOMAIN simGiven : Valid(simBook, simGiven[i])}

\* The accepted overrides in the order f, of which n are applied.
AppliedTo(f, n) ==
  /\ f \in [1..Cardinality(Accepted) -> Accepted] /\ Ordered(simGiven, Cardinality(Accepted), f)
  /\ n \in 0..Cardinality(Accepted)
  /\ simValid \in Seq(Overrides) /\ Len(simValid) = Cardinality(Accepted) - n
  /\ \A k \in 1..Len(simValid) : simValid[k] = simGiven[f[n + k]]

\* What an override sets stands until another one changes it.
StandsAfter(f, n) ==
  \A p \in 1..n :
    /\ SetsArr(simGiven[f[p]])
    /\ \A j \in DOMAIN simGiven \ {f[p]} : ~ChangesAgain(simGiven[f[p]], simGiven[j])
    => simContext.contracts[simGiven[f[p]].id].arr = simGiven[f[p]].by

BookTyped ==
  /\ simBook \in SimBooks
  /\ simGiven \in UNION {[1..n -> Overrides] : n \in 1..MaxOverrides}
  /\ simStage \in {"validate", "threw", "apply", "done"}
  /\ simContext \in BookOf(DOMAIN simBook.contracts, DOMAIN simBook.invoices,
                           DOMAIN simBook.obligations)
  /\ simApplied \in Seq(Overrides)
InOrder ==
  simStage \in {"apply", "done"} =>
    \E f : \E n \in Nat : /\ AppliedTo(f, n) /\ StandsAfter(f, n)
                          /\ simStage = "done" => n = Cardinality(Accepted)
Applied(id) == \E i \in DOMAIN simApplied : simApplied[i].id = id
ChangesAreApplied ==
  /\ \A c \in DOMAIN simBook.contracts :
       simContext.contracts[c].arr # simBook.contracts[c].arr => Applied(c)
  /\ \A c \in DOMAIN simBook.obligations :
       simContext.obligations[c].price # simBook.obligations[c].price => Applied(c)
WhatIfIInv == BookTyped /\ InOrder /\ ChangesAreApplied /\ DeltasAddUp

LEMMA GivenIs ==
  ASSUME BookTyped
  PROVE  \E N \in Nat : simGiven \in [1..N -> Overrides]
BY WhatIfAssumption DEF BookTyped

LEMMA AcceptedIs ==
  ASSUME BookTyped
  PROVE  /\ IsFiniteSet(Accepted) /\ Cardinality(Accepted) \in Nat
         /\ Numbered(simGiven, Accepted)
         /\ \A i \in Accepted : simGiven[i] \in Overrides /\ i \in DOMAIN simGiven
         /\ \A i \in DOMAIN simGiven : simGiven[i] \in Overrides /\ i \in Nat
<1>1. PICK N \in Nat : simGiven \in [1..N -> Overrides]
  BY GivenIs
<1>2. IsFiniteSet(1..N) /\ Accepted \in SUBSET (1..N)
  BY <1>1, FS_Interval DEF Accepted
<1>3. IsFiniteSet(Accepted)
  BY <1>2, FS_Subset
<1>4. Cardinality(Accepted) \in Nat
  BY <1>3, FS_CardinalityType
<1>5. \A i \in DOMAIN simGiven : simGiven[i] \in Overrides /\ i \in Nat /\ simGiven[i].seq \in Int
  BY <1>1, OverrideIs
<1> QED
  BY <1>3, <1>4, <1>5 DEF Numbered, Accepted

\* A valid override is aimed at the book, and one that sets the ARR is applied.
LEMMA ValidIsAimed ==
  ASSUME BookTyped, NEW i \in Accepted
  PROVE  /\ Aimed(DOMAIN simBook.contracts, DOMAIN simBook.invoices, DOMAIN simBook.obligations,
                  simGiven[i])
         /\ SetsArr(simGiven[i]) => simGiven[i].on = "contract"
<1> DEFINE o == simGiven[i]
<1>1. Valid(simBook, o)
  BY DEF Accepted
<1>2. TargetExists(simBook, o) /\ o.on \in Targets[o.type]
  BY <1>1 DEF Valid
<1>3. /\ o.on = "contract" => o.id \in DOMAIN simBook.contracts
      /\ o.on = "invoice" => o.id \in DOMAIN simBook.invoices
      /\ o.on = "obligation" => o.id \in DOMAIN simBook.obligations
  BY <1>2 DEF TargetExists
<1>4. SetsArr(o) => o.on = "contract"
  BY <1>2 DEF SetsArr, Targets
<1> QED
  BY <1>2, <1>3, <1>4 DEF Aimed

LEMMA SameCount == \A S : WhatIf!Cardinality(S) = Cardinality(S)
BY Zenon DEF WhatIf!Cardinality, Cardinality

LEMMA InSequenceIs ==
  ASSUME BookTyped
  PROVE  \E f \in [1..Cardinality(Accepted) -> Accepted] :
           /\ Ordered(simGiven, Cardinality(Accepted), f)
           /\ WhatIf!InSequence(simBook, simGiven)
                = [k \in 1..Cardinality(Accepted) |-> simGiven[f[k]]]
<1> DEFINE n == Cardinality(Accepted)
           Good(f) == \A k, m \in DOMAIN f : k < m => WhatIf!Before(simGiven, f[k], f[m])
           order == WhatIf!Sorted(simGiven, Accepted)
<1>1. {i \in DOMAIN simGiven : WhatIf!Valid(simBook, simGiven[i])} = Accepted
  BY SameValid DEF Accepted
<1>2. WhatIf!InSequence(simBook, simGiven) = [k \in DOMAIN order |-> simGiven[order[k]]]
  BY <1>1 DEF WhatIf!InSequence
<1>3. \E f \in [1..n -> Accepted] : Ordered(simGiven, n, f)
  BY AcceptedIs, RowsCanBeOrdered
<1>4. \A f \in [1..n -> Accepted] : Good(f) <=> Ordered(simGiven, n, f)
  BY DEF Ordered
<1>5. order = CHOOSE f \in [1..n -> Accepted] : Good(f)
  BY SameCount DEF WhatIf!Sorted
<1>6. order \in [1..n -> Accepted] /\ Ordered(simGiven, n, order)
  <2> HIDE DEF n, Good, order
  <2> QED
    BY <1>3, <1>4, <1>5
<1>7. DOMAIN order = 1..n
  BY <1>6
<1> HIDE DEF order, n
<1> QED
  BY <1>2, <1>6, <1>7 DEF n

LEMMA ValidateKeeps ==
  ASSUME WhatIfIInv, WhatIf!ValidateOverrides PROVE WhatIfIInv'
<1> BookTyped /\ ChangesAreApplied
  BY DEF WhatIfIInv
<1>0. UNCHANGED <<simBook, simGiven, simContext, simApplied, simDeltas, simSummary>>
  BY DEF WhatIf!ValidateOverrides
<1>1. simStage' \in {"threw", "apply"} /\ simValid' = WhatIf!InSequence(simBook, simGiven)
  BY DEF WhatIf!ValidateOverrides
<1>2. BookTyped'
  BY <1>0, <1>1 DEF BookTyped
<1>3. ChangesAreApplied'
  BY <1>0 DEF ChangesAreApplied, Applied
<1>4. DeltasAddUp'
  BY <1>1 DEF DeltasAddUp
<1>5. InOrder'
  <2> DEFINE n == Cardinality(Accepted)
  <2>1. PICK f \in [1..n -> Accepted] :
           /\ Ordered(simGiven, n, f)
           /\ WhatIf!InSequence(simBook, simGiven) = [k \in 1..n |-> simGiven[f[k]]]
    BY InSequenceIs
  <2>2. Accepted' = Accepted /\ n \in Nat /\ \A k \in 1..n : simGiven[f[k]] \in Overrides
    BY <1>0, AcceptedIs DEF Accepted
  <2> HIDE DEF n
  <2>3. simValid' \in Seq(Overrides) /\ Len(simValid') = n
    BY <1>1, <2>1, <2>2
  <2>4. \A k \in 1..Len(simValid') : simValid'[k] = simGiven'[f[0 + k]]
    <3>1. \A k \in 1..n : 0 + k = k
      BY <2>2
    <3>2. \A k \in 1..n : simValid'[k] = simGiven[f[k]]
      BY <1>1, <2>1
    <3> QED
      BY <1>0, <2>3, <3>1, <3>2
  <2>5. AppliedTo(f, 0)'
    BY <1>0, <2>1, <2>2, <2>3, <2>4 DEF AppliedTo, n
  <2>6. StandsAfter(f, 0)'
    BY DEF StandsAfter
  <2>7. 0 \in Nat /\ simStage' # "done"
    BY <1>1
  <2> QED
    BY <2>5, <2>6, <2>7 DEF InOrder
<1> QED
  BY <1>2, <1>3, <1>4, <1>5 DEF WhatIfIInv

\* What an override does to the copy.
LEMMA StepIs ==
  ASSUME BookTyped, NEW i \in Accepted, NEW o, o = simGiven[i], NEW m, NEW applied,
         IF WhatIf!IsApplied(simContext, o)
         THEN m = WhatIf!Apply(simContext, o) /\ applied = Append(simApplied, o)
         ELSE m = simContext /\ applied = simApplied
  PROVE  /\ m \in BookOf(DOMAIN simBook.contracts, DOMAIN simBook.invoices,
                         DOMAIN simBook.obligations)
         /\ Effect(DOMAIN simBook.contracts, DOMAIN simBook.obligations, simContext, m, o)
         /\ applied \in Seq(Overrides)
         /\ \A id : Applied(id) => \E k \in DOMAIN applied : applied[k].id = id
         /\ m # simContext => \E k \in DOMAIN applied : applied[k].id = o.id
<1> DEFINE C == DOMAIN simBook.contracts
           I == DOMAIN simBook.invoices
           O == DOMAIN simBook.obligations
<1>1. o \in Overrides /\ Aimed(C, I, O, o) /\ (SetsArr(o) => o.on = "contract")
  BY AcceptedIs, ValidIsAimed
<1>2. simContext \in BookOf(C, I, O) /\ simApplied \in Seq(Overrides)
  BY DEF BookTyped
<1>3. CASE WhatIf!IsApplied(simContext, o)
  <2>1. m = WhatIf!Apply(simContext, o) /\ applied = Append(simApplied, o)
    BY <1>3
  <2>2. m \in BookOf(C, I, O) /\ Effect(C, O, simContext, m, o)
    <3> HIDE DEF C, I, O
    <3>1. /\ WhatIf!Apply(simContext, o) \in BookOf(C, I, O)
          /\ Effect(C, O, simContext, WhatIf!Apply(simContext, o), o)
      BY <1>1, <1>2, <1>3, ApplyIs
    <3> QED
      BY <2>1, <3>1
  <2>3. /\ applied \in Seq(Overrides) /\ Len(applied) = Len(simApplied) + 1
        /\ applied[Len(simApplied) + 1] = o
        /\ \A k \in 1..Len(simApplied) : applied[k] = simApplied[k]
        /\ DOMAIN applied = 1..Len(applied) /\ DOMAIN simApplied = 1..Len(simApplied)
        /\ Len(simApplied) \in Nat
    BY <1>1, <1>2, <2>1
  <2>4. \A id : Applied(id) => \E k \in DOMAIN applied : applied[k].id = id
    BY <2>3 DEF Applied
  <2>5. Len(simApplied) + 1 \in DOMAIN applied
    BY <2>3
  <2> QED
    BY <2>2, <2>3, <2>4, <2>5
<1>4. CASE ~WhatIf!IsApplied(simContext, o)
  <2>1. m = simContext /\ applied = simApplied
    BY <1>4
  <2>2. ~SetsArr(o)
    <3>1. SetsArr(o) => WhatIf!IsApplied(simContext, o)
      BY <1>1 DEF SetsArr, WhatIf!IsApplied
    <3> QED
      BY <1>4, <3>1
  <2>3. Effect(C, O, simContext, simContext, o)
    BY <2>2 DEF Effect
  <2> QED
    BY <1>2, <2>1, <2>3 DEF Applied
<1> QED
  BY <1>3, <1>4

LEMMA ApplyKeeps ==
  ASSUME WhatIfIInv, WhatIf!ApplyOverride PROVE WhatIfIInv'
<1> BookTyped /\ ChangesAreApplied /\ DeltasAddUp /\ InOrder
  BY DEF WhatIfIInv
<1> DEFINE C == DOMAIN simBook.contracts
           I == DOMAIN simBook.invoices
           O == DOMAIN simBook.obligations
           N == Cardinality(Accepted)
           o == Head(simValid)
<1>0. /\ UNCHANGED <<simBook, simGiven, simStage, simSkipped, simDeltas, simSummary>>
      /\ simStage = "apply" /\ simValid # <<>> /\ simValid' = Tail(simValid)
      /\ IF WhatIf!IsApplied(simContext, o)
         THEN simContext' = WhatIf!Apply(simContext, o) /\ simApplied' = Append(simApplied, o)
         ELSE simContext' = simContext /\ simApplied' = simApplied
  BY DEF WhatIf!ApplyOverride
<1>1. PICK f : \E n \in Nat : AppliedTo(f, n) /\ StandsAfter(f, n)
  BY <1>0 DEF InOrder
<1>2. PICK n \in Nat : AppliedTo(f, n) /\ StandsAfter(f, n)
  BY <1>1
<1>3. /\ f \in [1..N -> Accepted] /\ Ordered(simGiven, N, f) /\ n \in 0..N
      /\ simValid \in Seq(Overrides) /\ Len(simValid) = N - n
      /\ \A k \in 1..Len(simValid) : simValid[k] = simGiven[f[n + k]]
  BY <1>2 DEF AppliedTo
<1>4. N \in Nat /\ IsFiniteSet(Accepted) /\ Numbered(simGiven, Accepted)
  BY AcceptedIs
<1> DEFINE i == f[n + 1]
<1> HIDE DEF N
<1>5. Len(simValid) \in Nat \ {0} /\ o = simValid[1]
  BY <1>0, <1>3
<1>6. n + 1 \in 1..N /\ o = simGiven[i] /\ i \in Accepted
  <2>1. n + 1 \in 1..N
    BY <1>3, <1>4, <1>5
  <2> QED
    BY <1>3, <1>5, <2>1
<1> HIDE DEF o
<1>7. /\ simContext' \in BookOf(C, I, O) /\ Effect(C, O, simContext, simContext', o)
      /\ simApplied' \in Seq(Overrides)
      /\ \A id : Applied(id) => \E k \in DOMAIN simApplied' : simApplied'[k].id = id
      /\ simContext' # simContext => \E k \in DOMAIN simApplied' : simApplied'[k].id = o.id
  <2> HIDE DEF i
  <2> QED
    BY <1>0, <1>6, StepIs
<1>8. BookTyped'
  BY <1>0, <1>7 DEF BookTyped
<1>9. ChangesAreApplied'
  <2>1. \A id : Applied(id) => Applied(id)'
    BY <1>7 DEF Applied
  <2> PICK x : x = o.id
    OBVIOUS
  <2>2. simContext' # simContext => Applied(x)'
    BY <1>7 DEF Applied
  <2>3. ASSUME NEW c \in C, simContext'.contracts[c].arr # simBook.contracts[c].arr
        PROVE  Applied(c)'
    <3>1. CASE simContext'.contracts[c].arr = simContext.contracts[c].arr
      BY <2>1, <2>3, <3>1 DEF ChangesAreApplied
    <3>2. CASE simContext'.contracts[c].arr # simContext.contracts[c].arr
      BY <1>7, <2>2, <3>2 DEF Effect
    <3> QED
      BY <3>1, <3>2
  <2>4. ASSUME NEW c \in O, simContext'.obligations[c].price # simBook.obligations[c].price
        PROVE  Applied(c)'
    <3>1. CASE simContext'.obligations[c].price = simContext.obligations[c].price
      BY <2>1, <2>4, <3>1 DEF ChangesAreApplied
    <3>2. CASE simContext'.obligations[c].price # simContext.obligations[c].price
      BY <1>7, <2>2, <3>2 DEF Effect
    <3> QED
      BY <3>1, <3>2
  <2> QED
    BY <1>0, <2>3, <2>4 DEF ChangesAreApplied
<1>10. DeltasAddUp'
  BY <1>0 DEF DeltasAddUp
<1>11. Accepted' = Accepted /\ N' = N
  BY <1>0 DEF Accepted, N
<1>12. AppliedTo(f, n + 1)'
  <2>1. /\ simValid' \in Seq(Overrides) /\ Len(simValid') = Len(simValid) - 1
        /\ \A k \in 1..Len(simValid') : simValid'[k] = simValid[k + 1]
    BY <1>0, <1>3, <1>5
  <2>2. Len(simValid') = N - (n + 1) /\ n + 1 \in 0..N
    BY <1>3, <1>4, <1>6, <2>1
  <2>3. ASSUME NEW k \in 1..Len(simValid') PROVE simValid'[k] = simGiven[f[(n + 1) + k]]
    <3>1. k + 1 \in 1..Len(simValid) /\ n + (k + 1) = (n + 1) + k
      BY <1>5, <2>1
    <3> QED
      BY <1>3, <2>1, <3>1
  <2> QED
    BY <1>0, <1>3, <1>11, <2>1, <2>2, <2>3 DEF AppliedTo, N
<1>13. StandsAfter(f, n + 1)'
  <2> SUFFICES ASSUME NEW p \in 1..(n + 1), SetsArr(simGiven[f[p]]),
                      \A j \in DOMAIN simGiven \ {f[p]} : ~ChangesAgain(simGiven[f[p]], simGiven[j])
               PROVE  simContext'.contracts[simGiven[f[p]].id].arr = simGiven[f[p]].by
    BY <1>0 DEF StandsAfter
  <2>1. CASE p = n + 1
    BY <1>6, <1>7, <2>1 DEF Effect
  <2>2. CASE p # n + 1
    <3> DEFINE q == simGiven[f[p]]
    <3>1. p \in 1..n /\ p < n + 1 /\ p \in 1..N
      BY <1>4, <1>6, <2>2
    <3>2. simContext.contracts[q.id].arr = q.by
      BY <1>2, <3>1 DEF StandsAfter
    <3>3. WhatIf!Before(simGiven, f[p], i) /\ f[p] \in Accepted
      BY <1>3, <1>6, <3>1 DEF Ordered
    <3>4. i # f[p] /\ i \in DOMAIN simGiven /\ q.seq <= o.seq
      <4>1. f[p] \in Int /\ i \in Int /\ q.seq \in Int /\ o.seq \in Int
        BY <1>4, <1>6, <3>3 DEF Numbered
      <4>2. i # f[p] /\ q.seq <= o.seq
        BY <1>6, <3>3, <4>1 DEF WhatIf!Before
      <4> QED
        BY <1>6, <4>2 DEF Accepted
    <3>5. ~ChangesAgain(q, o)
      BY <1>6, <3>4
    <3>6. q.seq \in Int /\ o.seq \in Int
      BY <1>4, <1>6, <3>3 DEF Numbered
    <3>7. q.id \in C
      BY <3>3, ValidIsAimed DEF Aimed
    <3>8. simContext'.contracts[q.id].arr = simContext.contracts[q.id].arr
      BY <1>7, <3>4, <3>5, <3>6, <3>7 DEF Effect, ChangesAgain
    <3> QED
      BY <3>2, <3>8
  <2> QED
    BY <2>1, <2>2
<1>14. InOrder'
  <2>1. n + 1 \in Nat /\ simStage' # "done"
    BY <1>0
  <2> QED
    BY <1>12, <1>13, <2>1 DEF InOrder
<1> QED
  BY <1>8, <1>9, <1>10, <1>14 DEF WhatIfIInv

LEMMA ComputeKeeps ==
  ASSUME WhatIfIInv, WhatIf!ComputeDeltas PROVE WhatIfIInv'
<1> BookTyped /\ ChangesAreApplied /\ InOrder
  BY DEF WhatIfIInv
<1> DEFINE C == DOMAIN simBook.contracts
           I == DOMAIN simBook.invoices
           O == DOMAIN simBook.obligations
<1>0. /\ UNCHANGED <<simBook, simGiven, simValid, simContext, simApplied, simSkipped>>
      /\ simStage = "apply" /\ simValid = <<>> /\ simStage' = "done"
      /\ simDeltas' = WhatIf!ContractDeltas(simBook, simContext)
                        \cup WhatIf!ObligationDeltas(simBook, simContext)
                        \cup WhatIf!TotalDelta(simBook, simContext)
      /\ simSummary' = WhatIf!Summary(simDeltas', simApplied, simSkipped)
  BY DEF WhatIf!ComputeDeltas
<1>1. simBook \in BookOf(C, I, O) /\ simContext \in BookOf(C, I, O) /\ IsFiniteSet(C)
  BY WhatIfBooks DEF BookTyped
<1> HIDE DEF C, I, O
<1>2. /\ OfKind(simDeltas', "contract_impact") = WhatIf!ContractDeltas(simBook, simContext)
      /\ OfKind(simDeltas', "revenue_total") = WhatIf!TotalDelta(simBook, simContext)
      /\ \A d \in simDeltas' : d.kind # "revenue_total" =>
           \/ d.id \in C /\ simContext.contracts[d.id].arr # simBook.contracts[d.id].arr
           \/ d.id \in O /\ simContext.obligations[d.id].price # simBook.obligations[d.id].price
  BY <1>0, <1>1, DeltasAre
<1>3. simSummary'.total = AmountOf(OfKind(simDeltas', "contract_impact"))
  <2>1. simSummary'.total = AmountOf(OfKind(simDeltas', "revenue_total"))
    BY <1>0, SameAmounts DEF WhatIf!Summary
  <2>2. WhatIf!Revenue(simBook) \in Int /\ WhatIf!Revenue(simContext) \in Int
    BY <1>1, RevenueOf
  <2>3. AmountOf(WhatIf!TotalDelta(simBook, simContext))
          = WhatIf!Revenue(simContext) - WhatIf!Revenue(simBook)
    BY <2>2, TotalIsTheChange
  <2>4. AmountOf(WhatIf!ContractDeltas(simBook, simContext))
          = WhatIf!Revenue(simContext) - WhatIf!Revenue(simBook)
    BY <1>1, ImpactsAddUp
  <2> QED
    BY <1>2, <2>1, <2>3, <2>4
<1>4. DeltasAddUp'
  <2>1. ASSUME NEW d \in simDeltas', d.kind # "revenue_total" PROVE Applied(d.id)
    BY <1>2, <2>1 DEF ChangesAreApplied, C, O
  <2> QED
    BY <1>0, <1>3, <2>1 DEF DeltasAddUp, Applied
<1>5. BookTyped'
  BY <1>0 DEF BookTyped
<1>6. ChangesAreApplied'
  BY <1>0 DEF ChangesAreApplied, Applied
<1>7. InOrder'
  <2>1. PICK f : \E n \in Nat : AppliedTo(f, n) /\ StandsAfter(f, n)
    BY <1>0 DEF InOrder
  <2>2. PICK n \in Nat : AppliedTo(f, n) /\ StandsAfter(f, n)
    BY <2>1
  <2>3. AppliedTo(f, n)' /\ StandsAfter(f, n)'
    BY <1>0, <2>2 DEF AppliedTo, StandsAfter, Accepted
  <2>4. n = Cardinality(Accepted')
    <3>1. Accepted' = Accepted /\ Len(simValid) = 0 /\ Cardinality(Accepted) \in Nat
      BY <1>0, AcceptedIs DEF Accepted
    <3> QED
      BY <2>2, <3>1 DEF AppliedTo
  <2> QED
    BY <2>3, <2>4 DEF InOrder
<1> QED
  BY <1>4, <1>5, <1>6, <1>7 DEF WhatIfIInv

LEMMA WhatIfInitKeeps == WhatIf!Init => WhatIfIInv
<1> SUFFICES ASSUME WhatIf!Init PROVE WhatIfIInv
  OBVIOUS
<1>1. /\ simBook \in SimBooks /\ simStage = "validate" /\ simContext = simBook
      /\ simGiven \in UNION {[1..n -> Overrides] : n \in 1..MaxOverrides}
      /\ simApplied = <<>>
  BY DEF WhatIf!Init
<1>2. BookTyped
  BY <1>1, WhatIfBooks DEF BookTyped
<1> QED
  BY <1>1, <1>2 DEF WhatIfIInv, InOrder, ChangesAreApplied, DeltasAddUp

LEMMA WhatIfNextKeeps == ASSUME WhatIfIInv, [WhatIf!Next]_whatIfVars PROVE WhatIfIInv'
<1>1. CASE WhatIf!Next
  BY <1>1, ValidateKeeps, ApplyKeeps, ComputeKeeps DEF WhatIf!Next
<1>2. CASE UNCHANGED whatIfVars
  <2>0. /\ UNCHANGED <<simBook, simGiven, simStage, simValid, simContext>>
        /\ UNCHANGED <<simApplied, simDeltas, simSummary>>
    BY <1>2 DEF whatIfVars
  <2>1. BookTyped'
    BY <2>0 DEF WhatIfIInv, BookTyped
  <2>2. ChangesAreApplied' /\ DeltasAddUp'
    BY <2>0 DEF WhatIfIInv, ChangesAreApplied, Applied, DeltasAddUp
  <2>3. InOrder'
    <3>1. Accepted' = Accepted
      BY <2>0 DEF Accepted
    <3>2. \A f, n : /\ AppliedTo(f, n) <=> AppliedTo(f, n)'
                    /\ StandsAfter(f, n) <=> StandsAfter(f, n)'
      BY <2>0, <3>1 DEF AppliedTo, StandsAfter
    <3> QED
      BY <2>0, <3>1, <3>2 DEF WhatIfIInv, InOrder
  <2> QED
    BY <2>1, <2>2, <2>3 DEF WhatIfIInv
<1> QED
  BY <1>1, <1>2

\* The order leaves out no accepted override, and what is set stands to the end.
LEMMA WhatIfIInvImplies == WhatIfIInv => WhatIfInv
<1> SUFFICES ASSUME WhatIfIInv PROVE WhatIfInv
  OBVIOUS
<1> BookTyped /\ DeltasAddUp /\ InOrder
  BY DEF WhatIfIInv
<1>1. LastSetStands
  <2> SUFFICES ASSUME simStage = "done", NEW i \in DOMAIN simGiven,
                      SetsArr(simGiven[i]), Valid(simBook, simGiven[i]),
                      \A j \in DOMAIN simGiven \ {i} : ~ChangesAgain(simGiven[i], simGiven[j])
               PROVE  simContext.contracts[simGiven[i].id].arr = simGiven[i].by
    BY Zenon DEF LastSetStands, SetsArr, ChangesAgain, ChangesArr
  <2>1. PICK f : AppliedTo(f, Cardinality(Accepted)) /\ StandsAfter(f, Cardinality(Accepted))
    BY DEF InOrder
  <2>2. i \in Accepted
    BY DEF Accepted
  <2>3. PICK p \in 1..Cardinality(Accepted) : f[p] = i
    <3>1. /\ f \in [1..Cardinality(Accepted) -> Accepted]
          /\ Ordered(simGiven, Cardinality(Accepted), f)
      BY <2>1 DEF AppliedTo
    <3> QED
      BY <2>2, <3>1, AcceptedIs, OrderedIsOnto
  <2> QED
    BY <2>1, <2>3 DEF StandsAfter
<1> QED
  BY <1>1 DEF WhatIfInv

\* After every simulation of the engine the deltas add up to the change of revenue, each of them
\* of a row that was overridden, and an amount that an override sets stands unless a later one
\* changes it (runSimulation).
THEOREM WhatIfIsRight == WhatIf!Spec => []WhatIfInv
<1>1. WhatIf!Init => WhatIfIInv
  BY WhatIfInitKeeps
<1>2. WhatIfIInv /\ [WhatIf!Next]_whatIfVars => WhatIfIInv'
  BY WhatIfNextKeeps
<1>3. WhatIfIInv => WhatIfInv
  BY WhatIfIInvImplies
<1> QED
  BY <1>1, <1>2, <1>3, PTL DEF WhatIf!Spec, WhatIf!whatIfVars, whatIfVars

(***************************************************************************)
(* The report of a detection run                                           *)
(***************************************************************************)
Rule == INSTANCE Rules

\* The severity of an issue, by its key: of those of R006 only the ones of invoices that
\* share a number are critical.
Level(rule, dims) ==
  CASE rule \in {"R007", "R061", "R062"} -> 4
    [] rule \in {"R009", "R010", "R017", "R018", "R064", "R110"} -> 2
    [] rule = "R006" -> IF dims.rest = Missing THEN 3 ELSE 4
    [] OTHER -> 3
Percents == {70, 75, 80, 85, 90, 95, 100}

\* An issue about an invoice and its contract.
Billed(x, b) ==
  \E c \in b.contracts, i \in b.invoices :
    /\ i.contract = c.id
    /\ x.contract = c.id /\ x.customer = c.customer /\ x.invoice = i.id
    /\ x.dims.invoice = i.id
ByInvoice == {"R002", "R003", "R004", "R005"}

\* The contract of an issue, by its key.
Keyed(x, b) ==
  CASE x.rule = "R014" -> x.contract = Missing
    [] x.rule = "R110" -> \E i \in b.invoices : x.dims.invoice = i.id /\ x.contract = i.contract
    [] OTHER -> x.contract = x.dims.contract

IssueOf(x) ==
  [rule |-> x.rule, severity |-> x.severity, confidence |-> x.confidence, impact |-> x.impact,
   contract |-> x.contract, customer |-> x.customer, invoice |-> x.invoice, dims |-> x.dims]

\* An issue that some rule raises.
IsIssue(x, b) ==
  /\ x = IssueOf(x)
  /\ x.severity = Level(x.rule, x.dims) /\ x.confidence \in Percents
  /\ Keyed(x, b) /\ (x.rule \in ByInvoice => Billed(x, b))

Raises(rule, b) == \A x \in Rule!Run(rule, b) : IsIssue(x, b) /\ x.rule = rule

-----------------------------------------------------------------------------
\* What each rule raises, of any contracts and invoices.
LEMMA MissingInvoiceRaises == ASSUME NEW b PROVE Raises("R001", b)
<1>1. Rule!Run("R001", b) = Rule!MissingInvoice(b)
  BY DEF Rule!Run
<1>2. ASSUME NEW x \in Rule!MissingInvoice(b)
      PROVE  /\ x = IssueOf(x) /\ x.rule = "R001" /\ x.severity = 3 /\ x.confidence = 100
             /\ Keyed(x, b)
  BY <1>2 DEF Rule!MissingInvoice, Rule!Issue, Rule!Dims, Rule!Dimensions, Rule!High, IssueOf,
              Keyed
<1> QED
  BY <1>1, <1>2 DEF Raises, IsIssue, Level, Percents, ByInvoice

LEMMA UnderbillingRaises == ASSUME NEW b PROVE Raises("R002", b)
<1>1. Rule!Run("R002", b) = Rule!Underbilling(b)
  BY DEF Rule!Run
<1>2. ASSUME NEW x \in Rule!Underbilling(b)
      PROVE  /\ x = IssueOf(x) /\ x.rule = "R002" /\ x.severity = 3 /\ x.confidence = 90
             /\ Keyed(x, b) /\ Billed(x, b)
  BY <1>2 DEF Rule!Underbilling, Rule!Flag, Rule!Issue, Rule!Dims, Rule!Dimensions, Rule!High,
              IssueOf, Keyed, Billed
<1> QED
  BY <1>1, <1>2 DEF Raises, IsIssue, Level, Percents, ByInvoice

LEMMA OverbillingRaises == ASSUME NEW b PROVE Raises("R003", b)
<1>1. Rule!Run("R003", b) = Rule!Overbilling(b)
  BY DEF Rule!Run
<1>2. ASSUME NEW x \in Rule!Overbilling(b)
      PROVE  /\ x = IssueOf(x) /\ x.rule = "R003" /\ x.severity = 3 /\ x.confidence = 90
             /\ Keyed(x, b) /\ Billed(x, b)
  BY <1>2 DEF Rule!Overbilling, Rule!Flag, Rule!Issue, Rule!Dims, Rule!Dimensions, Rule!High,
              IssueOf, Keyed, Billed
<1> QED
  BY <1>1, <1>2 DEF Raises, IsIssue, Level, Percents, ByInvoice

LEMMA WrongUnitPriceRaises == ASSUME NEW b PROVE Raises("R004", b)
<1>1. Rule!Run("R004", b) = Rule!WrongUnitPrice(b)
  BY DEF Rule!Run
<1>2. ASSUME NEW x \in Rule!WrongUnitPrice(b)
      PROVE  /\ x = IssueOf(x) /\ x.rule = "R004" /\ x.severity = 3 /\ x.confidence = 95
             /\ Keyed(x, b) /\ Billed(x, b)
  BY <1>2 DEF Rule!WrongUnitPrice, Rule!FlagLines, Rule!Issue, Rule!Dims, Rule!Dimensions,
              Rule!High, IssueOf, Keyed, Billed
<1> QED
  BY <1>1, <1>2 DEF Raises, IsIssue, Level, Percents, ByInvoice

LEMMA WrongQuantityRaises == ASSUME NEW b PROVE Raises("R005", b)
<1>1. Rule!Run("R005", b) = Rule!WrongQuantity(b)
  BY DEF Rule!Run
<1>2. ASSUME NEW x \in Rule!WrongQuantity(b)
      PROVE  /\ x = IssueOf(x) /\ x.rule = "R005" /\ x.severity = 3 /\ x.confidence = 95
             /\ Keyed(x, b) /\ Billed(x, b)
  BY <1>2 DEF Rule!WrongQuantity, Rule!FlagLines, Rule!Issue, Rule!Dims, Rule!Dimensions,
              Rule!High, IssueOf, Keyed, Billed
<1> QED
  BY <1>1, <1>2 DEF Raises, IsIssue, Level, Percents, ByInvoice

LEMMA BillingBeyondTermRaises == ASSUME NEW b PROVE Raises("R007", b)
<1>1. Rule!Run("R007", b) = Rule!BillingBeyondTerm(b)
  BY DEF Rule!Run
<1>2. ASSUME NEW x \in Rule!BillingBeyondTerm(b)
      PROVE  /\ x = IssueOf(x) /\ x.rule = "R007" /\ x.severity = 4 /\ x.confidence = 100
             /\ Keyed(x, b)
  BY <1>2 DEF Rule!BillingBeyondTerm, Rule!Flag, Rule!Issue, Rule!Dims, Rule!Dimensions,
              Rule!Critical, IssueOf, Keyed
<1> QED
  BY <1>1, <1>2 DEF Raises, IsIssue, Level, Percents, ByInvoice

LEMMA BillingBeforeStartRaises == ASSUME NEW b PROVE Raises("R008", b)
<1>1. Rule!Run("R008", b) = Rule!BillingBeforeStart(b)
  BY DEF Rule!Run
<1>2. ASSUME NEW x \in Rule!BillingBeforeStart(b)
      PROVE  /\ x = IssueOf(x) /\ x.rule = "R008" /\ x.severity = 3 /\ x.confidence = 100
             /\ Keyed(x, b)
  BY <1>2 DEF Rule!BillingBeforeStart, Rule!Flag, Rule!Issue, Rule!Dims, Rule!Dimensions,
              Rule!High, IssueOf, Keyed
<1> QED
  BY <1>1, <1>2 DEF Raises, IsIssue, Level, Percents, ByInvoice

LEMMA CurrencyMismatchRaises == ASSUME NEW b PROVE Raises("R009", b)
<1>1. Rule!Run("R009", b) = Rule!CurrencyMismatch(b)
  BY DEF Rule!Run
<1>2. ASSUME NEW x \in Rule!CurrencyMismatch(b)
      PROVE  /\ x = IssueOf(x) /\ x.rule = "R009" /\ x.severity = 2 /\ x.confidence = 100
             /\ Keyed(x, b)
  BY <1>2 DEF Rule!CurrencyMismatch, Rule!Flag, Rule!Issue, Rule!Dims, Rule!Dimensions,
              Rule!Medium, IssueOf, Keyed
<1> QED
  BY <1>1, <1>2 DEF Raises, IsIssue, Level, Percents, ByInvoice

LEMMA FrequencyMismatchRaises == ASSUME NEW b PROVE Raises("R010", b)
<1>1. Rule!Run("R010", b) = Rule!FrequencyMismatch(b)
  BY DEF Rule!Run
<1>2. ASSUME NEW x \in Rule!FrequencyMismatch(b)
      PROVE  /\ x = IssueOf(x) /\ x.rule = "R010" /\ x.severity = 2 /\ x.confidence = 80
             /\ Keyed(x, b)
  BY <1>2 DEF Rule!FrequencyMismatch, Rule!Flag, Rule!Issue, Rule!Dims, Rule!Dimensions,
              Rule!Medium, IssueOf, Keyed
<1> QED
  BY <1>1, <1>2 DEF Raises, IsIssue, Level, Percents, ByInvoice

LEMMA ExpiredDiscountRaises == ASSUME NEW b PROVE Raises("R011", b)
<1>1. Rule!Run("R011", b) = Rule!ExpiredDiscount(b)
  BY DEF Rule!Run
<1>2. ASSUME NEW x \in Rule!ExpiredDiscount(b)
      PROVE  /\ x = IssueOf(x) /\ x.rule = "R011" /\ x.severity = 3 /\ x.confidence = 90
             /\ Keyed(x, b)
  BY <1>2 DEF Rule!ExpiredDiscount, Rule!FlagTerms, Rule!Issue, Rule!Dims, Rule!Dimensions,
              Rule!High, IssueOf, Keyed
<1> QED
  BY <1>1, <1>2 DEF Raises, IsIssue, Level, Percents, ByInvoice

LEMMA DiscountNotAppliedRaises == ASSUME NEW b PROVE Raises("R012", b)
<1>1. Rule!Run("R012", b) = Rule!DiscountNotApplied(b)
  BY DEF Rule!Run
<1>2. ASSUME NEW x \in Rule!DiscountNotApplied(b)
      PROVE  /\ x = IssueOf(x) /\ x.rule = "R012" /\ x.severity = 3 /\ x.confidence = 85
             /\ Keyed(x, b)
  BY <1>2 DEF Rule!DiscountNotApplied, Rule!FlagTerms, Rule!Issue, Rule!Dims, Rule!Dimensions,
              Rule!High, IssueOf, Keyed
<1> QED
  BY <1>1, <1>2 DEF Raises, IsIssue, Level, Percents, ByInvoice

LEMMA WrongDiscountRateRaises == ASSUME NEW b PROVE Raises("R013", b)
<1>1. Rule!Run("R013", b) = Rule!WrongDiscountRate(b)
  BY DEF Rule!Run
<1>2. ASSUME NEW x \in Rule!WrongDiscountRate(b)
      PROVE  /\ x = IssueOf(x) /\ x.rule = "R013" /\ x.severity = 3 /\ x.confidence = 90
             /\ Keyed(x, b)
  BY <1>2 DEF Rule!WrongDiscountRate, Rule!FlagTerms, Rule!Issue, Rule!Dims, Rule!Dimensions,
              Rule!High, IssueOf, Keyed
<1> QED
  BY <1>1, <1>2 DEF Raises, IsIssue, Level, Percents, ByInvoice

LEMMA DiscountExceedsMaximumRaises == ASSUME NEW b PROVE Raises("R014", b)
<1>1. Rule!Run("R014", b) = Rule!DiscountExceedsMaximum(b)
  BY DEF Rule!Run
<1>2. ASSUME NEW x \in Rule!DiscountExceedsMaximum(b)
      PROVE  /\ x = IssueOf(x) /\ x.rule = "R014" /\ x.severity = 3 /\ x.confidence = 95
             /\ Keyed(x, b)
  BY <1>2 DEF Rule!DiscountExceedsMaximum, Rule!Issue, Rule!Dims, Rule!Dimensions, Rule!High,
              IssueOf, Keyed
<1> QED
  BY <1>1, <1>2 DEF Raises, IsIssue, Level, Percents, ByInvoice

LEMMA RampPricingMismatchRaises == ASSUME NEW b PROVE Raises("R016", b)
<1>1. Rule!Run("R016", b) = Rule!RampPricingMismatch(b)
  BY DEF Rule!Run
<1>2. ASSUME NEW x \in Rule!RampPricingMismatch(b)
      PROVE  /\ x = IssueOf(x) /\ x.rule = "R016" /\ x.severity = 3 /\ x.confidence = 85
             /\ Keyed(x, b)
  BY <1>2 DEF Rule!RampPricingMismatch, Rule!Flag, Rule!Issue, Rule!Dims, Rule!Dimensions,
              Rule!High, IssueOf, Keyed
<1> QED
  BY <1>1, <1>2 DEF Raises, IsIssue, Level, Percents, ByInvoice

LEMMA PeriodSpanMismatchRaises == ASSUME NEW b PROVE Raises("R017", b)
<1>1. Rule!Run("R017", b) = Rule!PeriodSpanMismatch(b)
  BY DEF Rule!Run
<1>2. ASSUME NEW x \in Rule!PeriodSpanMismatch(b)
      PROVE  /\ x = IssueOf(x) /\ x.rule = "R017" /\ x.severity = 2 /\ x.confidence = 90
             /\ Keyed(x, b)
  BY <1>2 DEF Rule!PeriodSpanMismatch, Rule!Flag, Rule!Issue, Rule!Dims, Rule!Dimensions,
              Rule!Medium, IssueOf, Keyed
<1> QED
  BY <1>1, <1>2 DEF Raises, IsIssue, Level, Percents, ByInvoice

LEMMA TimingVarianceRaises == ASSUME NEW b PROVE Raises("R018", b)
<1>1. Rule!Run("R018", b) = Rule!TimingVariance(b)
  BY DEF Rule!Run
<1>2. ASSUME NEW x \in Rule!TimingVariance(b)
      PROVE  /\ x = IssueOf(x) /\ x.rule = "R018" /\ x.severity = 2 /\ x.confidence = 85
             /\ Keyed(x, b)
  BY <1>2 DEF Rule!TimingVariance, Rule!Flag, Rule!Issue, Rule!Dims, Rule!Dimensions,
              Rule!Medium, IssueOf, Keyed
<1> QED
  BY <1>1, <1>2 DEF Raises, IsIssue, Level, Percents, ByInvoice

LEMMA UnmatchedCreditRaises == ASSUME NEW b PROVE Raises("R110", b)
<1>1. Rule!Run("R110", b) = Rule!UnmatchedCredit(b)
  BY DEF Rule!Run
<1>2. ASSUME NEW x \in Rule!UnmatchedCredit(b)
      PROVE  /\ x = IssueOf(x) /\ x.rule = "R110" /\ x.severity = 2 /\ x.confidence = 85
             /\ Keyed(x, b)
  BY <1>2 DEF Rule!UnmatchedCredit, Rule!Issue, Rule!Dims, Rule!Dimensions, Rule!Medium,
              IssueOf, Keyed
<1> QED
  BY <1>1, <1>2 DEF Raises, IsIssue, Level, Percents, ByInvoice

LEMMA CreditExceedsInvoiceRaises == ASSUME NEW b PROVE Raises("R111", b)
<1>1. Rule!Run("R111", b) = Rule!CreditExceedsInvoice(b)
  BY DEF Rule!Run
<1>2. ASSUME NEW x \in Rule!CreditExceedsInvoice(b)
      PROVE  /\ x = IssueOf(x) /\ x.rule = "R111" /\ x.severity = 3 /\ x.confidence = 90
             /\ Keyed(x, b)
  BY <1>2 DEF Rule!CreditExceedsInvoice, Rule!Issue, Rule!Dims, Rule!Dimensions, Rule!High,
              IssueOf, Keyed
<1> QED
  BY <1>1, <1>2 DEF Raises, IsIssue, Level, Percents, ByInvoice

LEMMA NetRevenueNegativeRaises == ASSUME NEW b PROVE Raises("R113", b)
<1>1. Rule!Run("R113", b) = Rule!NetRevenueNegative(b)
  BY DEF Rule!Run
<1>2. ASSUME NEW x \in Rule!NetRevenueNegative(b)
      PROVE  /\ x = IssueOf(x) /\ x.rule = "R113" /\ x.severity = 3 /\ x.confidence = 100
             /\ Keyed(x, b)
  BY <1>2 DEF Rule!NetRevenueNegative, Rule!Issue, Rule!Dims, Rule!Dimensions, Rule!High,
              IssueOf, Keyed
<1> QED
  BY <1>1, <1>2 DEF Raises, IsIssue, Level, Percents, ByInvoice

LEMMA AmendedNoAdjustmentRaises == ASSUME NEW b PROVE Raises("R060", b)
<1>1. Rule!Run("R060", b) = Rule!AmendedNoAdjustment(b)
  BY DEF Rule!Run
<1>2. ASSUME NEW x \in Rule!AmendedNoAdjustment(b)
      PROVE  /\ x = IssueOf(x) /\ x.rule = "R060" /\ x.severity = 3 /\ x.confidence = 70
             /\ Keyed(x, b)
  BY <1>2 DEF Rule!AmendedNoAdjustment, Rule!Issue, Rule!Dims, Rule!Dimensions, Rule!High,
              IssueOf, Keyed
<1> QED
  BY <1>1, <1>2 DEF Raises, IsIssue, Level, Percents, ByInvoice

LEMMA CancelledStillBillingRaises == ASSUME NEW b PROVE Raises("R061", b)
<1>1. Rule!Run("R061", b) = Rule!CancelledStillBilling(b)
  BY DEF Rule!Run
<1>2. ASSUME NEW x \in Rule!CancelledStillBilling(b)
      PROVE  /\ x = IssueOf(x) /\ x.rule = "R061" /\ x.severity = 4 /\ x.confidence = 100
             /\ Keyed(x, b)
  BY <1>2 DEF Rule!CancelledStillBilling, Rule!Flag, Rule!Issue, Rule!Dims, Rule!Dimensions,
              Rule!Critical, IssueOf, Keyed
<1> QED
  BY <1>1, <1>2 DEF Raises, IsIssue, Level, Percents, ByInvoice

LEMMA ExpiredStillBillingRaises == ASSUME NEW b PROVE Raises("R062", b)
<1>1. Rule!Run("R062", b) = Rule!ExpiredStillBilling(b)
  BY DEF Rule!Run
<1>2. ASSUME NEW x \in Rule!ExpiredStillBilling(b)
      PROVE  /\ x = IssueOf(x) /\ x.rule = "R062" /\ x.severity = 4 /\ x.confidence = 90
             /\ Keyed(x, b)
  BY <1>2 DEF Rule!ExpiredStillBilling, Rule!Flag, Rule!Issue, Rule!Dims, Rule!Dimensions,
              Rule!Critical, IssueOf, Keyed
<1> QED
  BY <1>1, <1>2 DEF Raises, IsIssue, Level, Percents, ByInvoice

LEMMA RenewalNotReflectedRaises == ASSUME NEW b PROVE Raises("R064", b)
<1>1. Rule!Run("R064", b) = Rule!RenewalNotReflected(b)
  BY DEF Rule!Run
<1>2. ASSUME NEW x \in Rule!RenewalNotReflected(b)
      PROVE  /\ x = IssueOf(x) /\ x.rule = "R064" /\ x.severity = 2 /\ x.confidence = 75
             /\ Keyed(x, b)
  BY <1>2 DEF Rule!RenewalNotReflected, Rule!Issue, Rule!Dims, Rule!Dimensions, Rule!Medium,
              IssueOf, Keyed
<1> QED
  BY <1>1, <1>2 DEF Raises, IsIssue, Level, Percents, ByInvoice

LEMMA PausedStillBillingRaises == ASSUME NEW b PROVE Raises("R160", b)
<1>1. Rule!Run("R160", b) = Rule!PausedStillBilling(b)
  BY DEF Rule!Run
<1>2. ASSUME NEW x \in Rule!PausedStillBilling(b)
      PROVE  /\ x = IssueOf(x) /\ x.rule = "R160" /\ x.severity = 3 /\ x.confidence = 95
             /\ Keyed(x, b)
  BY <1>2 DEF Rule!PausedStillBilling, Rule!Flag, Rule!Issue, Rule!Dims, Rule!Dimensions,
              Rule!High, IssueOf, Keyed
<1> QED
  BY <1>1, <1>2 DEF Raises, IsIssue, Level, Percents, ByInvoice

\* The first of the invoices that are duplicates of each other is one of them.
LEMMA FirstIsThere ==
  ASSUME NEW g, g # {}, \A i \in g : i.id \in Nat
  PROVE  Rule!First(g) \in g
<1> DEFINE ids == {i.id : i \in g}
<1>1. ids \subseteq Nat /\ ids # {}
  OBVIOUS
<1>2. PICK n \in ids : \A m \in ids : n <= m
  BY <1>1, Lowest
<1>3. PICK i \in g : \A j \in g : i.id <= j.id
  BY <1>2
<1> QED
  BY <1>3 DEF Rule!First

LEMMA DuplicateBillingRaises ==
  ASSUME NEW b \in Books
  PROVE  Raises("R006", b)
<1> USE RulesAssumption
<1>1. Rule!Run("R006", b) = Rule!DuplicateBilling(b)
  BY DEF Rule!Run
<1>2. ASSUME NEW x \in Rule!DuplicateBilling(b)
      PROVE  /\ x = IssueOf(x) /\ x.rule = "R006" /\ x.confidence \in Percents
             /\ x.severity = Level("R006", x.dims) /\ Keyed(x, b)
  <2>1. CASE \E g \in Rule!SamePeriod(b) : x = Rule!OfGroup(g, Rule!High, 85,
      Rule!First(g).from, Missing)
    BY <2>1 DEF Rule!OfGroup, Rule!Issue, Rule!Dimensions, Rule!High, Level, Percents, IssueOf,
           Keyed
  <2>2. CASE \E p \in Rule!ClosePairs(b) :
               x = Rule!Issue("R006", Rule!High, IF Rule!Overlap(p[1], p[2]) THEN 90 ELSE 75,
                              p[2].total, p[1].contract, p[1].customer, p[2].id,
                              Rule!Dims(p[1].contract, p[2].id))
    BY <2>2 DEF Rule!Issue, Rule!Dims, Rule!Dimensions, Rule!High, Level, Percents, IssueOf,
           Keyed
  <2>3. ASSUME NEW g \in Rule!SameNumber(b),
               x = Rule!OfGroup(g, Rule!Critical, 95, Missing, Rule!First(g).number)
        PROVE  /\ x = IssueOf(x) /\ x.rule = "R006" /\ x.confidence \in Percents
               /\ x.severity = Level("R006", x.dims) /\ Keyed(x, b)
    <3>1. g \in Rule!Groups(b, LAMBDA i : i.number) /\ \A i \in g : i.number # Missing
      BY DEF Rule!SameNumber
    <3>2. PICK i \in b.invoices :
            g = {j \in b.invoices : j.contract = i.contract /\ j.number = i.number}
      BY <3>1 DEF Rule!Groups
    <3>3. Rule!First(g) \in g
      BY <3>2, FirstIsThere
    <3>4. Rule!First(g).number # Missing
      BY <3>1, <3>3
    <3> QED
      BY <2>3, <3>4 DEF Rule!OfGroup, Rule!Issue, Rule!Dimensions, Rule!Critical, Level, Percents,
                        IssueOf, Keyed
  <2> QED
    BY <2>1, <2>2, <2>3 DEF Rule!DuplicateBilling
<1> QED
  BY <1>1, <1>2 DEF Raises, IsIssue, ByInvoice

LEMMA RulesRaise ==
  ASSUME NEW b \in Books, NEW n \in 1..LastRule
  PROVE  Raises(Order[n], b)
<1>1. LastRule = 25
  BY DEF LastRule, Order
<1>2. Order[n] \in
        {"R001", "R002", "R003", "R004", "R005", "R006", "R007", "R008", "R009", "R010", "R011",
         "R012", "R013", "R014", "R016", "R017", "R018", "R060", "R061", "R062", "R064", "R110",
         "R111", "R113", "R160"}
  BY <1>1 DEF Order
<1> QED
  BY <1>2, MissingInvoiceRaises, UnderbillingRaises, OverbillingRaises, WrongUnitPriceRaises,
     WrongQuantityRaises, DuplicateBillingRaises, BillingBeyondTermRaises,
     BillingBeforeStartRaises, CurrencyMismatchRaises, FrequencyMismatchRaises,
     ExpiredDiscountRaises, DiscountNotAppliedRaises, WrongDiscountRateRaises,
     DiscountExceedsMaximumRaises, RampPricingMismatchRaises, PeriodSpanMismatchRaises,
     TimingVarianceRaises, UnmatchedCreditRaises, CreditExceedsInvoiceRaises,
     NetRevenueNegativeRaises, AmendedNoAdjustmentRaises, CancelledStillBillingRaises,
     ExpiredStillBillingRaises, RenewalNotReflectedRaises, PausedStillBillingRaises

-----------------------------------------------------------------------------
\* The key of an issue says what it is about.
LEMMA KeyOfContract ==
  ASSUME NEW b \in Books, NEW x, NEW y, IsIssue(x, b), IsIssue(y, b), SameKey(x, y)
  PROVE  x.contract = y.contract
BY RulesAssumption DEF IsIssue, SameKey, Keyed

LEMMA KeyOfInvoice ==
  ASSUME NEW b \in Books, NEW x, NEW y, IsIssue(x, b), IsIssue(y, b), SameKey(x, y),
         x.rule \in ByInvoice
  PROVE  x.customer = y.customer /\ x.invoice = y.invoice
<1>1. x.contract = y.contract
  BY KeyOfContract
<1> QED
  BY <1>1, RulesAssumption DEF IsIssue, SameKey, Billed

\* Of what rules raised with one key there is one that is the best.
LEMMA BestIsThere ==
  ASSUME NEW b, NEW issues, \A x \in issues : IsIssue(x, b), NEW z \in issues,
         NEW same, same = Rule!Duplicates(issues, z)
  PROVE  /\ Rule!Best(same) \in same
         /\ \A y \in same : /\ y.severity = Rule!Best(same).severity
                            /\ Rule!Best(same).confidence >= y.confidence
<1>1. \A x, y \in same : x.severity = y.severity /\ x.severity \in 1..4
  BY DEF SameKey, IsIssue, Level, Rule!SameKey, Rule!Duplicates
<1>2. \A x \in same : x.confidence \in Percents
  BY DEF IsIssue, Rule!Duplicates
<1>3. PICK x \in same : \A y \in same : x.confidence >= y.confidence
  <2> z \in same
    BY DEF SameKey, Rule!SameKey, Rule!Duplicates
  <2> QED
    BY <1>2 DEF Percents
<1>4. ~\E y \in same : Rule!Outranks(y, x)
  BY <1>1, <1>2, <1>3 DEF Rule!Outranks, Percents
<1>5. Rule!Best(same) \in same /\ ~\E y \in same : Rule!Outranks(y, Rule!Best(same))
  BY <1>3, <1>4 DEF Rule!Best
<1>6. ASSUME NEW y \in same
      PROVE  /\ y.severity = Rule!Best(same).severity
             /\ Rule!Best(same).confidence >= y.confidence
  <2>1. y.severity = Rule!Best(same).severity /\ ~Rule!Outranks(y, Rule!Best(same))
    BY <1>1, <1>5
  <2>2. y.confidence \in Percents /\ Rule!Best(same).confidence \in Percents
    BY <1>2, <1>5
  <2> QED
    BY <2>1, <2>2 DEF Rule!Outranks, Percents
<1> QED
  BY <1>5, <1>6

-----------------------------------------------------------------------------
\* Two issues that stay have different keys.
LEMMA KeysDiffer ==
  ASSUME NEW b, NEW raw, \A x \in raw : IsIssue(x, b),
         NEW x \in Rule!RemoveDuplicates(raw), NEW y \in Rule!RemoveDuplicates(raw), SameKey(x, y)
  PROVE  x = y
<1>1. PICK u \in raw : x = Rule!Best(Rule!Duplicates(raw, u))
  BY DEF Rule!RemoveDuplicates
<1>2. PICK v \in raw : y = Rule!Best(Rule!Duplicates(raw, v))
  BY DEF Rule!RemoveDuplicates
<1>3. x \in Rule!Duplicates(raw, u) /\ y \in Rule!Duplicates(raw, v)
  BY <1>1, <1>2, BestIsThere
<1>4. Rule!Duplicates(raw, u) = Rule!Duplicates(raw, v)
  BY <1>3 DEF SameKey, Rule!SameKey, Rule!Duplicates
<1> QED
  BY <1>1, <1>2, <1>4

\* What was raised is kept by its key, no less severe or certain.
LEMMA DuplicatesAreKept ==
  ASSUME NEW b, NEW raw, \A x \in raw : IsIssue(x, b), NEW x \in raw
  PROVE  \E y \in Rule!RemoveDuplicates(raw) :
           /\ y \in raw /\ SameKey(x, y)
           /\ y.severity = x.severity /\ y.confidence >= x.confidence
<1> DEFINE same == Rule!Duplicates(raw, x)
<1>1. x \in same
  BY DEF SameKey, Rule!SameKey, Rule!Duplicates
<1>2. /\ Rule!Best(same) \in same
      /\ x.severity = Rule!Best(same).severity /\ Rule!Best(same).confidence >= x.confidence
  BY <1>1, BestIsThere
<1>3. Rule!Best(same) \in Rule!RemoveDuplicates(raw)
  BY DEF Rule!RemoveDuplicates
<1> QED
  BY <1>2, <1>3 DEF SameKey, Rule!SameKey, Rule!Duplicates

LEMMA DuplicatesAreRaised ==
  ASSUME NEW b, NEW raw, \A x \in raw : IsIssue(x, b)
  PROVE  Rule!RemoveDuplicates(raw) \subseteq raw
<1>1. ASSUME NEW z \in raw PROVE Rule!Best(Rule!Duplicates(raw, z)) \in raw
  BY BestIsThere DEF Rule!Duplicates
<1> QED
  BY <1>1 DEF Rule!RemoveDuplicates

\* What gives way to a more specific issue that matches it is explained by that issue: it
\* is about the contract or the customer, and gives way to none itself.
LEMMA SuppressionIsExplained ==
  ASSUME NEW b \in Books, NEW raw, \A v \in raw : IsIssue(v, b), NEW x \in raw, NEW k \in raw,
         SameKey(x, k), NEW y \in Rule!RemoveDuplicates(raw),
         y.rule \in Hierarchy(k.rule), Rule!MatchesEntity(k, y)
  PROVE  /\ y \in Rule!ApplyHierarchy(Rule!RemoveDuplicates(raw))
         /\ y.rule \in Hierarchy(x.rule)
         /\ \/ y.contract = x.contract
            \/ y.customer \in {x.customer} \ {Missing}
            \/ x.rule = "R062"
<1>1. x.rule = k.rule /\ y \in raw
  BY DuplicatesAreRaised DEF SameKey
<1>2. /\ x.rule \in {"R002", "R003", "R062"} /\ y.rule \in {"R004", "R005", "R061"}
      /\ x.rule # "R062" => x.rule \in {"R002", "R003"} /\ y.rule \in {"R004", "R005"}
  BY <1>1 DEF Hierarchy
<1>3. y \in Rule!ApplyHierarchy(Rule!RemoveDuplicates(raw))
  <2>1. Hierarchy(y.rule) = {}
    BY <1>2 DEF Hierarchy
  <2> QED
    BY <2>1 DEF Hierarchy, Rule!Hierarchy, Rule!ApplyHierarchy
<1>4. ASSUME x.rule # "R062"
      PROVE  y.contract = x.contract \/ y.customer \in {x.customer} \ {Missing}
  <2>1. x.contract = k.contract /\ x.customer = k.customer /\ x.invoice = k.invoice
    BY <1>2, <1>4, KeyOfContract, KeyOfInvoice DEF ByInvoice
  <2>2. Billed(x, b) /\ Billed(y, b)
    BY <1>1, <1>2, <1>4 DEF IsIssue, ByInvoice
  <2>3. \/ x.contract = y.contract
        \/ x.invoice = y.invoice
        \/ x.customer # Missing /\ x.customer = y.customer
    BY <2>1 DEF Rule!MatchesEntity
  <2>4. x.invoice = y.invoice => x.contract = y.contract
    BY <2>2, RulesAssumption DEF Billed
  <2> QED
    BY <2>3, <2>4
<1> QED
  BY <1>1, <1>3, <1>4

LEMMA SameCardinality == \A S : Rule!Cardinality(S) = Cardinality(S)
BY Zenon DEF Rule!Cardinality, Cardinality

\* The score of an issue: its key and entity stay, it is no less severe, and as
\* certain unless its contract is not ready.
LEMMA ScoreRaises ==
  ASSUME NEW b, NEW issues, NEW x, IsIssue(x, b), NEW y, y = Rule!ScoreIssue(x, b, issues)
  PROVE  /\ y.rule = x.rule /\ y.dims = x.dims
         /\ y.contract = x.contract /\ y.customer = x.customer
         /\ y.severity >= x.severity
         /\ y.confidence = x.confidence \/ Capped(x, b)
<1> DEFINE more == Cardinality(Rule!Reasons(x, b, issues))
            severity == Rule!Max({Rule!Min({x.severity + more, Rule!Critical}),
                                  Rule!ImpactSeverity(x)})
            confidence == IF Capped(x, b) THEN Rule!Min({x.confidence, 30}) ELSE x.confidence
<1>1. more \in Nat
  <2>1. Rule!Reasons(x, b, issues) \subseteq {"R070", "R071", "R072"}
    BY DEF Rule!Reasons
  <2>2. IsFiniteSet({"R070", "R071", "R072"})
    <3>1. {"R070", "R071", "R072"} = ({"R070"} \cup {"R071"}) \cup {"R072"}
      OBVIOUS
    <3>2. IsFiniteSet({"R070"})
      BY FS_Singleton
    <3>3. IsFiniteSet({"R070"} \cup {"R071"})
      BY <3>2, FS_AddElement
    <3> QED
      BY <3>1, <3>3, FS_AddElement
  <2> QED
    BY <2>1, <2>2, FS_Subset, FS_CardinalityType
<1>2. x.severity \in 2..4 /\ x.confidence \in Percents /\ Rule!ImpactSeverity(x) \in 1..4
  BY DEF IsIssue, Level, Rule!ImpactSeverity, Rule!Low, Rule!Medium, Rule!High, Rule!Critical
<1>3. Rule!Min({x.severity + more, Rule!Critical}) \in x.severity..4
  <2> DEFINE S == {x.severity + more, Rule!Critical}
  <2>1. \E m \in S : \A n \in S : m <= n
    BY <1>1, <1>2 DEF Rule!Critical
  <2>2. Rule!Min(S) \in S /\ \A n \in S : Rule!Min(S) <= n
    BY <2>1 DEF Rule!Min
  <2> QED
    BY <1>1, <1>2, <2>2 DEF Rule!Critical
<1>4. severity >= x.severity
  <2> DEFINE m == Rule!Min({x.severity + more, Rule!Critical})
              S == {m, Rule!ImpactSeverity(x)}
  <2> HIDE DEF m
  <2>0. m \in x.severity..4
    BY <1>3 DEF m
  <2>1. \E k \in S : \A n \in S : k >= n
    BY <2>0, <1>2
  <2>2. Rule!Max(S) \in S /\ \A n \in S : Rule!Max(S) >= n
    BY <2>1 DEF Rule!Max
  <2>3. Rule!Max(S) >= x.severity
    BY <1>2, <2>0, <2>2
  <2> QED
    BY <2>3 DEF m
<1>5. y = [x EXCEPT !.severity = severity, !.confidence = confidence]
  BY SameCardinality DEF Rule!ScoreIssue, Capped, Rule!Capped
<1> HIDE DEF severity, confidence
<1>6. /\ y.rule = x.rule /\ y.dims = x.dims
      /\ y.contract = x.contract /\ y.customer = x.customer
      /\ y.severity = severity /\ y.confidence = confidence
  <2>1. x = IssueOf(x)
    BY DEF IsIssue
  <2> QED
    BY <1>5, <2>1 DEF IssueOf
<1>7. confidence = x.confidence \/ Capped(x, b)
  BY <1>2 DEF confidence, Percents
<1> QED
  BY <1>4, <1>6, <1>7

(***************************************************************************)
(* The inductive invariant                                                 *)
(***************************************************************************)
\* Between the deduplicator and the scorer.
KeptIssues ==
  /\ \A x \in rulIssues : IsIssue(x, rulBook)
  /\ \A x \in rulRaw :
       \/ \E y \in rulIssues : /\ SameKey(x, y) /\ y.severity = x.severity
                              /\ y.confidence >= x.confidence
       \/ Explained(x.rule, x.contract, {x.customer} \ {Missing})

RulInv ==
  /\ rulBook \in Books /\ rulStep \in 1..Scored
  /\ \A x \in rulRaw : IsIssue(x, rulBook)
  /\ rulStep = Scored - 1 => KeptIssues
  /\ ReportInv

LEMMA Steps == LastRule = 25 /\ Scored = 28
BY DEF LastRule, Scored, Order

LEMMA SameRuleSteps == Rule!LastRule = LastRule /\ Rule!Order = Order
BY DEF Rule!LastRule, LastRule, Rule!Order, Order

LEMMA RulInitKeeps == Rule!Init => RulInv
BY Steps DEF Rule!Init, RulInv, ReportInv, OneIssuePerKey, NothingSilenced, Deduplicated, Finished

LEMMA RuleKeeps ==
  ASSUME RulInv, Rule!SkipRule \/ Rule!RuleThrows \/ Rule!RunRule
  PROVE  RulInv'
<1>1. /\ rulBook' = rulBook /\ rulStep' = rulStep + 1 /\ rulStep \in 1..LastRule
      /\ rulRaw' = rulRaw \/ rulRaw' = rulRaw \cup Rule!Run(Order[rulStep], rulBook)
  BY SameRuleSteps, Steps DEF RulInv, Rule!SkipRule, Rule!RuleThrows, Rule!RunRule
<1>2. \A x \in Rule!Run(Order[rulStep], rulBook) : IsIssue(x, rulBook)
  BY <1>1, RulesRaise DEF Raises, RulInv
<1>3. rulStep' \in 2..26
  BY <1>1, Steps
<1> QED
  BY <1>1, <1>2, <1>3, Steps DEF RulInv, ReportInv, OneIssuePerKey, NothingSilenced, Deduplicated,
                                 Finished

LEMMA DeduplicateKeeps ==
  ASSUME RulInv, Rule!Deduplicate
  PROVE  RulInv'
<1> DEFINE kept == Rule!ApplyHierarchy(Rule!RemoveDuplicates(rulRaw))
<1>1. /\ rulBook' = rulBook /\ rulRaw' = rulRaw /\ rulIssues' = kept
      /\ rulStep' = Scored - 1
  BY SameRuleSteps, Steps DEF Rule!Deduplicate
<1>2. \A x \in rulRaw : IsIssue(x, rulBook)
  BY DEF RulInv
<1>3. kept \subseteq Rule!RemoveDuplicates(rulRaw)
  BY DEF Rule!ApplyHierarchy
<1>4. \A x \in kept : IsIssue(x, rulBook)
  BY <1>2, <1>3, DuplicatesAreRaised
<1>5. \A x, y \in kept : SameKey(x, y) => x = y
  BY <1>2, <1>3, KeysDiffer
<1>6. ASSUME NEW x \in rulRaw
      PROVE  \/ \E y \in kept : /\ SameKey(x, y) /\ y.severity = x.severity
                               /\ y.confidence >= x.confidence
             \/ \E y \in kept :
                  /\ y.rule \in Hierarchy(x.rule)
                  /\ \/ y.contract = x.contract
                     \/ y.customer \in {x.customer} \ {Missing}
                     \/ x.rule = "R062"
  <2>1. PICK k \in Rule!RemoveDuplicates(rulRaw) :
          /\ k \in rulRaw /\ SameKey(x, k)
          /\ k.severity = x.severity /\ k.confidence >= x.confidence
    BY <1>2, DuplicatesAreKept
  <2>2. CASE k \in kept
    BY <2>1, <2>2
  <2>3. CASE k \notin kept
    <3>1. PICK y \in Rule!RemoveDuplicates(rulRaw) :
            y.rule \in Hierarchy(k.rule) /\ Rule!MatchesEntity(k, y)
      BY <2>3 DEF Rule!ApplyHierarchy, Hierarchy, Rule!Hierarchy
    <3> QED
      BY <1>2, <2>1, <3>1, SuppressionIsExplained DEF RulInv
  <2> QED
    BY <2>2, <2>3
<1> HIDE DEF kept
<1>7. KeptIssues'
  BY <1>1, <1>4, <1>6 DEF KeptIssues, Explained
<1>8. ReportInv'
  BY <1>1, <1>5, Steps DEF ReportInv, OneIssuePerKey, NothingSilenced, Finished
<1> QED
  BY <1>1, <1>2, <1>7, <1>8, Steps DEF RulInv

LEMMA ScoreKeeps ==
  ASSUME RulInv, Rule!Score
  PROVE  RulInv'
<1> DEFINE Points(x) == Rule!ScoreIssue(x, rulBook, rulIssues)
<1>1. /\ rulBook' = rulBook /\ rulRaw' = rulRaw /\ rulStep = Scored - 1 /\ rulStep' = Scored
      /\ rulIssues' = {Points(x) : x \in rulIssues}
  BY SameRuleSteps, Steps DEF Rule!Score
<1>2. KeptIssues /\ (\A x, y \in rulIssues : SameKey(x, y) => x = y) /\ rulBook \in Books
      /\ \A x \in rulRaw : IsIssue(x, rulBook)
  BY <1>1 DEF RulInv, ReportInv, OneIssuePerKey, Deduplicated
<1>3. \A x \in rulIssues :
        /\ Points(x).rule = x.rule /\ Points(x).dims = x.dims
        /\ Points(x).contract = x.contract /\ Points(x).customer = x.customer
        /\ Points(x).severity >= x.severity
        /\ Points(x).confidence = x.confidence \/ Capped(x, rulBook)
  BY <1>2, ScoreRaises DEF KeptIssues
<1> HIDE DEF Points
<1>4. \A x, y \in rulIssues' : SameKey(x, y) => x = y
  BY <1>1, <1>2, <1>3 DEF SameKey
<1>5. ASSUME NEW x \in rulRaw
      PROVE  \/ \E y \in rulIssues' :
                  /\ SameKey(x, y) /\ y.severity >= x.severity
                  /\ y.confidence >= x.confidence \/ Capped(x, rulBook)
             \/ Explained(x.rule, x.contract, {x.customer} \ {Missing})'
  <2>1. CASE \E y \in rulIssues : /\ SameKey(x, y) /\ y.severity = x.severity
                                 /\ y.confidence >= x.confidence
    <3>1. PICK y \in rulIssues : /\ SameKey(x, y) /\ y.severity = x.severity
                                 /\ y.confidence >= x.confidence
      BY <2>1
    <3>2. SameKey(x, Points(y)) /\ Points(y) \in rulIssues'
      BY <1>1, <1>3, <3>1 DEF SameKey
    <3>3. x.contract = y.contract
      BY <1>2, <3>1, KeyOfContract DEF KeptIssues
    <3> QED
      BY <1>3, <3>1, <3>2, <3>3 DEF Capped
  <2>2. CASE Explained(x.rule, x.contract, {x.customer} \ {Missing})
    BY <1>1, <1>3, <2>2 DEF Explained
  <2> QED
    BY <1>2, <2>1, <2>2 DEF KeptIssues
<1>6. ReportInv'
  BY <1>1, <1>4, <1>5 DEF ReportInv, OneIssuePerKey, NothingSilenced, Capped
<1> QED
  BY <1>1, <1>2, <1>6, Steps DEF RulInv

LEMMA RulNextKeeps == RulInv /\ [Rule!Next]_rulVars => RulInv'
<1>1. ASSUME RulInv, UNCHANGED rulVars
      PROVE  RulInv'
  BY <1>1 DEF rulVars, RulInv, KeptIssues, ReportInv, OneIssuePerKey, NothingSilenced, Explained,
              Deduplicated, Finished
<1> QED
  BY <1>1, RuleKeeps, DeduplicateKeeps, ScoreKeeps DEF Rule!Next

\* The issues of a run have different keys, and nothing raised is lost or played down
\* on the way into the report (deduplicateIssues, scoreIssues), whatever book it runs on.
THEOREM ReportIsRight == Rule!Spec => []ReportInv
<1>1. Rule!Spec => []RulInv
  BY RulInitKeeps, RulNextKeeps, PTL DEF Rule!Spec, Rule!rulVars, rulVars
<1>2. RulInv => ReportInv
  BY DEF RulInv
<1> QED
  BY <1>1, <1>2, PTL
=============================================================================
