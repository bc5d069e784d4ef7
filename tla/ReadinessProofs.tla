-------------------------- MODULE ReadinessProofs --------------------------
(***************************************************************************)
(* The malware scans, the vulnerability lookups and /ready, proved for any *)
(* number of engines, scans, lookups and packages and for every length of  *)
(* the timeouts and lifetimes.                                             *)
(*                                                                         *)
(* The three parts move on their own but for the clock, so that each has   *)
(* an inductive invariant of its own, kept by its steps and by Tick.       *)
(***************************************************************************)
EXTENDS Readiness, FiniteSetTheorems, TLAPS

-----------------------------------------------------------------------------
(* Malware scans *)

\* What an engine's client made of the reply, engine by engine.
Faithful ==
  \A c \in Scans, e \in Engines :
    /\ engine[c][e] = "clean" => reply[c][e] = "ok"
    /\ reply[c][e] = "found" => engine[c][e] = "detection"

\* The engines of a scan are off until it runs, and not busy once it returned.
InStep ==
  \A c \in Scans :
    /\ scan[c] = "queue" => \A e \in Engines : engine[c][e] = "off"
    /\ scan[c] = "running" => c \in slots /\ \A e \in Engines : engine[c][e] # "off"
    /\ scan[c] # "running" => \A e \in Engines : engine[c][e] \notin Busy

ScanInv ==
  /\ ScanTypeOK /\ Faithful /\ InStep /\ FailClosed
  /\ Cardinality(slots) <= Limit

LEMMA SlotsFinite ==
  ASSUME ScanTypeOK
  PROVE  IsFiniteSet(slots) /\ Cardinality(slots) \in Nat
<1>1. slots \in SUBSET Scans
  BY DEF ScanTypeOK
<1>2. IsFiniteSet(slots)
  BY <1>1, ScanAssumption, FS_Subset
<1>3. QED BY <1>2, FS_CardinalityType

LEMMA ScanInitInv == ScanInit => ScanInv
<1> SUFFICES ASSUME ScanInit PROVE ScanInv
  OBVIOUS
<1>1. ScanTypeOK /\ Faithful /\ InStep /\ FailClosed
  BY DEF ScanInit, ScanTypeOK, Faithful, InStep, FailClosed, Fresh, Busy, Outcomes, Replies
<1>2. Cardinality(slots) <= Limit
  BY FS_EmptySet, ScanAssumption DEF ScanInit
<1>3. QED BY <1>1, <1>2 DEF ScanInv

LEMMA SubmitKeeps == ASSUME ScanInv, NEW c \in Scans, Submit(c) PROVE ScanInv'
<1> USE DEF ScanInv, Submit
<1>1. ScanTypeOK'
  BY DEF ScanTypeOK, Replies
<1>2. Faithful' /\ InStep'
  BY DEF ScanTypeOK, Faithful, InStep, Busy, Outcomes
<1>3. FailClosed'
  BY DEF ScanTypeOK, FailClosed, Outcomes
<1>4. QED BY <1>1, <1>2, <1>3

LEMMA AcquireKeeps == ASSUME ScanInv, NEW c \in Scans, Acquire(c) PROVE ScanInv'
<1> USE DEF ScanInv, Acquire
<1>1. ScanTypeOK'
  BY DEF ScanTypeOK, Busy
<1>2. Faithful' /\ InStep'
  BY DEF ScanTypeOK, Faithful, InStep, Busy, Outcomes
<1>3. FailClosed'
  BY DEF ScanTypeOK, FailClosed, Outcomes
<1>4. Cardinality(slots') <= Limit
  <2>1. IsFiniteSet(slots) /\ Cardinality(slots) \in Nat
    BY SlotsFinite
  <2>2. Cardinality(slots \cup {c}) <= Cardinality(slots) + 1
    BY <2>1, FS_AddElement
  <2>3. Cardinality(slots \cup {c}) \in Nat
    BY <2>1, FS_AddElement, FS_CardinalityType
  <2>4. QED BY <2>1, <2>2, <2>3, ScanAssumption
<1>5. QED BY <1>1, <1>2, <1>3, <1>4

LEMMA GiveUpKeeps == ASSUME ScanInv, NEW c \in Scans, GiveUp(c) PROVE ScanInv'
<1> USE DEF ScanInv, GiveUp
<1>1. ScanTypeOK' /\ Faithful' /\ InStep'
  BY DEF ScanTypeOK, Faithful, InStep, Busy, Outcomes
<1>2. FailClosed'
  BY DEF ScanTypeOK, FailClosed, Faithful, InStep, Outcomes
<1>3. QED BY <1>1, <1>2

LEMMA CancelKeeps == ASSUME ScanInv, NEW c \in Scans, Cancel(c) PROVE ScanInv'
<1> USE DEF ScanInv, Cancel
<1>1. ScanTypeOK' /\ Faithful' /\ InStep' /\ FailClosed'
  BY DEF ScanTypeOK, Faithful, InStep, FailClosed
<1>2. QED BY <1>1

\* A client's steps belong to a scan that runs.
LEMMA BusyRuns ==
  ASSUME ScanInv, NEW c \in Scans, NEW e \in Engines, engine[c][e] \in Busy
  PROVE  scan[c] = "running"
BY DEF ScanInv, InStep

LEMMA EngineKeeps ==
  ASSUME ScanInv, NEW c \in Scans, NEW e \in Engines, EngineStep(c, e)
  PROVE  ScanInv'
<1> USE DEF ScanInv
<1>0. engine[c][e] \in Busy /\ scan[c] = "running"
  BY BusyRuns DEF EngineStep, Dialled, NotDialled, Broken, Replied, Busy
<1>1. CASE Dialled(c, e)
  <2>1. ScanTypeOK' /\ Faithful' /\ InStep' /\ FailClosed'
    BY <1>0, <1>1 DEF Dialled, ScanTypeOK, Faithful, InStep, FailClosed, Busy, Outcomes
  <2>2. QED BY <2>1, <1>1 DEF Dialled
<1>2. CASE NotDialled(c, e) \/ Broken(c, e)
  <2>1. engine' = [engine EXCEPT ![c][e] = "error"] /\ UNCHANGED <<slots, scan, alive, hit, reply>>
    BY <1>2 DEF NotDialled, Broken
  <2>2. ScanTypeOK'
    BY <2>1 DEF ScanTypeOK, Outcomes
  <2>3. Faithful' /\ FailClosed'
    BY <1>0, <2>1 DEF ScanTypeOK, Faithful, FailClosed, Busy, Outcomes
  <2>4. InStep'
    BY <1>0, <2>1 DEF ScanTypeOK, InStep, Busy, Outcomes
  <2>5. QED BY <2>1, <2>2, <2>3, <2>4
<1>3. ASSUME NEW r \in Replies \ {"none"}, Replied(c, e, r) PROVE ScanInv'
  <2>1. Parsed(e, r) \in Outcomes
    BY DEF Parsed, Outcomes
  <2>2. ScanTypeOK'
    BY <1>3, <2>1 DEF Replied, ScanTypeOK
  <2>3. Faithful'
    BY <1>3, <2>1 DEF Replied, ScanTypeOK, Faithful, Parsed
  <2>4. InStep' /\ FailClosed'
    BY <1>0, <1>3, <2>1 DEF Replied, ScanTypeOK, InStep, FailClosed, Busy, Outcomes
  <2>5. QED BY <1>3, <2>2, <2>3, <2>4 DEF Replied
<1>4. QED BY <1>1, <1>2, <1>3 DEF EngineStep

LEMMA ReturnKeepsInv == ASSUME ScanInv, NEW c \in Scans, Return(c) PROVE ScanInv'
<1> USE DEF ScanInv
<1>1. Verdict(c) \in Outcomes
  BY DEF Verdict, Outcomes
<1>2. \A e \in Engines : engine[c][e] \in Outcomes
  BY DEF Return, Finished, Said, ScanTypeOK, InStep
<1>3. Verdict(c) = "clean" => \A e \in Engines : engine[c][e] = "clean"
  BY <1>2 DEF Verdict, Said, Outcomes
<1>4. (\E e \in Engines : engine[c][e] = "detection") => Verdict(c) = "detection"
  <2>1. (\E e \in Engines : engine[c][e] = "detection") => "detection" \in Said(c)
    BY DEF Said
  <2>2. QED BY <2>1 DEF Verdict
<1>5. ScanTypeOK' /\ Faithful'
  BY <1>1 DEF Return, Finished, ScanTypeOK, Faithful
<1>6. InStep'
  BY <1>1, <1>2 DEF Return, Finished, ScanTypeOK, InStep, Busy, Outcomes
<1>7. FailClosed'
  BY <1>1, <1>3, <1>4 DEF Return, Finished, ScanTypeOK, FailClosed, Faithful, Outcomes
<1>8. Cardinality(slots') <= Limit
  <2>1. IsFiniteSet(slots) /\ Cardinality(slots) \in Nat
    BY SlotsFinite
  <2>2. Cardinality(slots \ {c}) <= Cardinality(slots) /\ Cardinality(slots \ {c}) \in Nat
    <3>1. IsFiniteSet(slots \ {c})
      BY <2>1, FS_RemoveElement
    <3>2. Cardinality(slots \ {c}) <= Cardinality(slots)
      BY <2>1, FS_RemoveElement
    <3>3. QED BY <3>1, <3>2, FS_CardinalityType
  <2>3. QED BY <2>1, <2>2, ScanAssumption DEF Return
<1>9. QED BY <1>5, <1>6, <1>7, <1>8

LEMMA ScanStepInv == ScanInv /\ (ScanNext \/ UNCHANGED scanVars) => ScanInv'
<1>1. ASSUME ScanInv, UNCHANGED scanVars PROVE ScanInv'
  BY <1>1 DEF scanVars, ScanInv, ScanTypeOK, Faithful, InStep, FailClosed
<1>2. ASSUME ScanInv, ScanNext PROVE ScanInv'
  <2>1. PICK c \in Scans : Submit(c) \/ Cancel(c) \/ ScanStep(c)
    BY <1>2 DEF ScanNext
  <2>2. QED
    BY <1>2, <2>1, SubmitKeeps, CancelKeeps, AcquireKeeps, GiveUpKeeps, ReturnKeepsInv, EngineKeeps DEF ScanStep
<1>3. QED BY <1>1, <1>2

\* Only a scan that holds a slot keeps an engine busy.
LEMMA BoundFollows == ScanInv => EnginesBounded
<1> SUFFICES ASSUME ScanInv PROVE EnginesBounded
  OBVIOUS
<1>1. ASSUME NEW e \in Engines
      PROVE  Cardinality({c \in Scans : engine[c][e] \in Busy}) <= Limit
  <2>1. {c \in Scans : engine[c][e] \in Busy} \in SUBSET slots
    BY BusyRuns DEF ScanInv, InStep
  <2>2. IsFiniteSet(slots) /\ Cardinality(slots) \in Nat
    BY SlotsFinite DEF ScanInv
  <2>3. PICK B \in SUBSET slots : B = {c \in Scans : engine[c][e] \in Busy}
    BY <2>1
  <2>4. IsFiniteSet(B) /\ Cardinality(B) <= Cardinality(slots)
    BY <2>2, FS_Subset
  <2>5. Cardinality(B) \in Nat
    BY <2>4, FS_CardinalityType
  <2>6. QED BY <2>2, <2>3, <2>4, <2>5, ScanAssumption DEF ScanInv
<1>2. \A c \in Scans : scan[c] # "running" => Said(c) \cap Busy = {}
  BY DEF ScanInv, InStep, Said
<1>3. QED BY <1>1, <1>2 DEF EnginesBounded
-----------------------------------------------------------------------------
(* Vulnerability lookups *)

Sent == [at : {"sent", "answered"}, pkg : Packages, age : 0 .. Never, since : 0 .. Patience]

\* An answer is no older than its query, and an entry of the cache no older
\* than the time it has had and one query's.
Aging ==
  /\ \A l \in Lookups : look[l].at = "answered" => look[l].age <= look[l].since
  /\ \A p \in Packages : cve[p].left > 0 => cve[p].age + cve[p].left <= Oldest

LookInv ==
  /\ LookTypeOK /\ look \in [Lookups -> {Quiet} \cup Sent]
  /\ Aging /\ AnswersFresh

LEMMA Bounds == Oldest \in Nat /\ Never \in Nat /\ Never = Oldest + 1 /\ Oldest = TTL + Patience
BY LookupAssumption DEF Oldest, Never

LEMMA SentIsNotQuiet == \A r \in Sent : r # Quiet /\ r.at # "idle"
BY DEF Sent, Quiet

LEMMA LookInitInv == LookInit => LookInv
BY LookupAssumption DEF LookInit, LookInv, LookTypeOK, Aging, AnswersFresh, Absent, Quiet, Never, Oldest

LEMMA LookKeeps ==
  ASSUME LookInv, NEW l \in Lookups, NEW p \in Packages, Look(l, p)
  PROVE  LookInv'
<1> USE LookupAssumption, Bounds DEF LookInv
<1>1. CASE Cached(p)
  <2>1. cve[p].age \in 0 .. Never /\ cve[p].age <= Oldest
    BY <1>1 DEF Cached, Aging, LookTypeOK, Oldest
  <2>2. QED BY <1>1, <2>1 DEF Look, LookTypeOK, Aging, AnswersFresh
<1>2. CASE ~Cached(p)
  <2>0. [at |-> "sent", pkg |-> p, age |-> Never, since |-> 0] \in Sent
    BY DEF Sent
  <2>1. PICK r \in Sent : r = [at |-> "sent", pkg |-> p, age |-> Never, since |-> 0]
    BY <2>0
  <2>2. look' = [look EXCEPT ![l] = r]
    BY <1>2, <2>1 DEF Look
  <2>3. look' \in [Lookups -> {Quiet} \cup Sent]
    BY <2>2
  <2>4. LookTypeOK'
    BY <1>2, <2>3 DEF Look, LookTypeOK, Sent
  <2>5. Aging'
    BY <1>2, <2>1, <2>2 DEF Look, Aging
  <2>6. QED BY <1>2, <2>3, <2>4, <2>5 DEF Look, AnswersFresh
<1>3. QED BY <1>1, <1>2

LEMMA AnswerKeeps == ASSUME LookInv, NEW l \in Lookups, Answer(l) PROVE LookInv'
<1> USE LookupAssumption, Bounds DEF LookInv
<1>1. look[l] \in Sent
  BY DEF Answer, Quiet
<1>0. [look[l] EXCEPT !.at = "answered", !.age = 0] \in Sent
  <2>1. look[l].pkg \in Packages /\ look[l].since \in 0 .. Patience
    BY <1>1 DEF Sent
  <2>2. 0 \in 0 .. Never
    OBVIOUS
  <2>3. QED BY <1>1, <2>1, <2>2 DEF Sent
<1>2. PICK r \in Sent : r = [look[l] EXCEPT !.at = "answered", !.age = 0]
  BY <1>0
<1>3. look' = [look EXCEPT ![l] = r]
  BY <1>2 DEF Answer
<1>4. look' \in [Lookups -> {Quiet} \cup Sent]
  BY <1>3
<1>5. LookTypeOK'
  BY <1>4 DEF Answer, LookTypeOK, Sent
<1>6. r.age = 0 /\ r.since >= 0
  BY <1>1, <1>2 DEF Sent
<1>7. Aging'
  BY <1>3, <1>6 DEF Answer, Aging
<1>8. QED BY <1>4, <1>5, <1>7 DEF Answer, AnswersFresh

LEMMA ReceiveKeeps == ASSUME LookInv, NEW l \in Lookups, Receive(l) PROVE LookInv'
<1> USE LookupAssumption, Bounds DEF LookInv
<1>1. look[l] \in Sent
  BY DEF Receive, Quiet
<1>2. /\ look[l].pkg \in Packages /\ look[l].age \in 0 .. Never
      /\ look[l].since \in 0 .. Patience /\ look[l].age <= look[l].since
  BY <1>1 DEF Sent, Receive, Aging
<1>3. look' \in [Lookups -> {Quiet} \cup Sent]
  BY DEF Receive
<1>4. LookTypeOK'
  BY <1>2, <1>3 DEF Receive, LookTypeOK, Sent
<1>5. Aging'
  BY <1>2 DEF Receive, Aging, LookTypeOK, Quiet, Oldest
<1>6. AnswersFresh'
  BY <1>2 DEF Receive, AnswersFresh, LookTypeOK, Oldest
<1>7. QED BY <1>3, <1>4, <1>5, <1>6

LEMMA FailKeeps == ASSUME LookInv, NEW l \in Lookups, Fail(l) PROVE LookInv'
BY DEF LookInv, Fail, LookTypeOK, Aging, AnswersFresh, Quiet

LEMMA JanitorKeeps == ASSUME LookInv, Janitor PROVE LookInv'
BY LookupAssumption DEF LookInv, Janitor, LookTypeOK, Aging, AnswersFresh, Absent, Never, Oldest

LEMMA LookTickKeeps == ASSUME LookInv, LookTick PROVE LookInv'
<1> USE LookupAssumption, Bounds DEF LookInv
<1>1. \A n \in 0 .. Never : Older(n) \in 0 .. Never
  BY DEF Older, Never, Oldest
<1>2. cve' \in [Packages -> [age : 0 .. Never, left : 0 .. TTL]]
  <2>1. ASSUME NEW p \in Packages
        PROVE  [age |-> Older(cve[p].age), left |-> IF cve[p].left = 0 THEN 0 ELSE cve[p].left - 1]
                 \in [age : 0 .. Never, left : 0 .. TTL]
    <3>1. cve[p].age \in 0 .. Never /\ cve[p].left \in 0 .. TTL
      BY DEF LookTypeOK
    <3>2. (IF cve[p].left = 0 THEN 0 ELSE cve[p].left - 1) \in 0 .. TTL
      BY <3>1
    <3>3. QED BY <1>1, <3>1, <3>2
  <2>2. QED BY <2>1 DEF LookTick
<1>3. \A p \in Packages : cve'[p].left > 0 => cve'[p].age + cve'[p].left <= Oldest
  <2>1. ASSUME NEW p \in Packages, cve'[p].left > 0
        PROVE  cve'[p].age + cve'[p].left <= Oldest
    <3>1. cve[p].age \in 0 .. Never /\ cve[p].left \in 0 .. TTL
      BY DEF LookTypeOK
    <3>2. /\ cve'[p].age = Older(cve[p].age)
          /\ cve'[p].left = IF cve[p].left = 0 THEN 0 ELSE cve[p].left - 1
      BY DEF LookTick
    <3>3. cve[p].left > 0 /\ cve[p].age + cve[p].left <= Oldest
      BY <2>1, <3>1, <3>2 DEF Aging
    <3>4. QED BY <3>1, <3>2, <3>3 DEF Older
  <2>2. QED BY <2>1
<1>4. ASSUME NEW l \in Lookups, look[l] # Quiet
      PROVE  /\ look'[l] \in Sent
             /\ look'[l].at = "answered" => look'[l].age <= look'[l].since
  <2>1. look[l] \in Sent /\ look[l].since < Patience
    BY <1>4 DEF LookTick, MayPass
  <2>2. look'[l] = [look[l] EXCEPT !.since = @ + 1, !.age = Older(@)]
    BY <1>4 DEF LookTick
  <2>3. look'[l] \in Sent
    <3>1. /\ look[l].at \in {"sent", "answered"} /\ look[l].pkg \in Packages
          /\ look[l].age \in 0 .. Never /\ look[l].since \in 0 .. Patience
      BY <2>1 DEF Sent
    <3>2. look[l].since + 1 \in 0 .. Patience /\ Older(look[l].age) \in 0 .. Never
      BY <1>1, <2>1, <3>1
    <3>3. QED BY <2>1, <2>2, <3>1, <3>2 DEF Sent
  <2>4. look[l].at = "answered" => look[l].age <= look[l].since
    BY DEF Aging
  <2>5. QED BY <2>1, <2>2, <2>3, <2>4 DEF Sent, Older
<1>5. ASSUME NEW l \in Lookups, look[l] = Quiet PROVE look'[l] = Quiet
  BY <1>5 DEF LookTick
<1>6. look' \in [Lookups -> {Quiet} \cup Sent]
  <2>1. look' = [l \in Lookups |-> look'[l]]
    BY DEF LookTick
  <2>2. QED BY <1>4, <1>5, <2>1
<1>7. LookTypeOK'
  BY <1>2, <1>6 DEF LookTick, LookTypeOK, Sent
<1>8. Aging'
  BY <1>3, <1>4, <1>5 DEF Aging, Quiet
<1>9. QED BY <1>6, <1>7, <1>8 DEF LookTick, AnswersFresh

LEMMA LookStepInv == LookInv /\ (LookNext \/ LookTick \/ UNCHANGED lookVars) => LookInv'
<1>1. ASSUME LookInv, UNCHANGED lookVars PROVE LookInv'
  BY <1>1 DEF lookVars, LookInv, LookTypeOK, Aging, AnswersFresh
<1>2. ASSUME LookInv, LookNext PROVE LookInv'
  BY <1>2, LookKeeps, AnswerKeeps, ReceiveKeeps, FailKeeps, JanitorKeeps DEF LookNext
<1>3. QED BY <1>1, <1>2, LookTickKeeps
-----------------------------------------------------------------------------
(* /ready *)

Times(k) == k * ProbeTimeout

\* The time the pass that runs may still take.
PassLeft == Times(Len(Probed)) - Times(loop.at) + ProbeTimeout - loop.time

\* The time within which the probe with index i ends next: in this pass, or in
\* the one that the next tick starts once this one is over.
DueIn(i) ==
  IF loop.at = 0 THEN Times(i) + (IF ticker.due THEN 0 ELSE ticker.next)
  ELSE IF loop.at <= i THEN Times(i) - Times(loop.at) + ProbeTimeout - loop.time
  ELSE Times(i) + (IF ticker.next = 0 THEN PassLeft + Interval
                   ELSE IF ticker.due \/ ticker.next <= PassLeft THEN PassLeft ELSE ticker.next)

ReadyShape ==
  /\ up \in [Active -> BOOLEAN] /\ db \in BOOLEAN
  /\ gone \in [Active -> 0 .. Notice]
  /\ sample \in [Active -> {"unknown", "ok", "down"}]
  /\ loop \in [at : 0 .. Len(Probed), time : 0 .. ProbeTimeout]
  /\ ticker \in [next : 0 .. Interval, due : BOOLEAN]
  /\ eval \in -1 .. ReadyTimeout
  /\ ready \in [failing : SUBSET (Active \cup {"database"}), age : 0 .. ReadyTTL]
  /\ loop.at = 0 => ticker.next > 0
  /\ \A e \in Active : up[e] => gone[e] = 0

\* The probe of an engine that is away and not known to be is due in time.
Noticing ==
  \A i \in 1 .. Len(Probed) :
    ~up[Probed[i]] /\ sample[Probed[i]] # "down" => gone[Probed[i]] + DueIn(i) <= Interval + Pass

\* An answer that all is well was true not long before it was given.
Telling ==
  Answering /\ ready.failing = {} => \A e \in Active : gone[e] <= Interval + Pass + ready.age

ReadyInv == ReadyShape /\ Noticing /\ Telling

LEMMA Numbers ==
  /\ Interval \in Nat \ {0} /\ ReadyTTL \in Nat \ {0} /\ ReadyTimeout \in Nat \ {0}
  /\ ProbeTimeout \in Nat \ {0} /\ ProbeTimeout <= Interval
  /\ Len(Probed) \in Nat \ {0} /\ DOMAIN Probed = 1 .. Len(Probed)
BY ReadyAssumption DEF ProbeTimeout

LEMMA TimesFacts ==
  /\ Times(0) = 0 /\ Pass = Times(Len(Probed))
  /\ \A k \in 0 .. Len(Probed) : Times(k) \in Nat /\ Times(k + 1) = Times(k) + ProbeTimeout
  /\ \A j, k \in 0 .. Len(Probed) : j <= k => Times(j) <= Times(k)
<1>1. Times(0) = 0 /\ Pass = Times(Len(Probed))
  BY Numbers DEF Times, Pass
<1>2. ASSUME NEW k \in 0 .. Len(Probed) PROVE Times(k) \in Nat /\ Times(k + 1) = Times(k) + ProbeTimeout
  BY Numbers DEF Times
<1>3. ASSUME NEW j \in 0 .. Len(Probed), NEW k \in 0 .. Len(Probed), j <= k
      PROVE  Times(j) <= Times(k)
  <2>1. k - j \in Nat
    BY <1>3, Numbers
  <2>2. (k - j) * ProbeTimeout \in Nat
    BY <2>1, Numbers
  <2>3. k * ProbeTimeout = j * ProbeTimeout + (k - j) * ProbeTimeout
    BY Numbers
  <2>4. j * ProbeTimeout \in Nat
    BY Numbers
  <2>5. QED BY <2>2, <2>3, <2>4 DEF Times
<1>4. QED BY <1>1, <1>2, <1>3

LEMMA Sums == Pass \in Nat /\ Notice \in Nat /\ Notice = Interval + Pass + ReadyTTL
BY Numbers, TimesFacts DEF Notice

\* What the provers need of the products, as numbers.
LEMMA TimesAt ==
  ASSUME NEW k \in 0 .. Len(Probed)
  PROVE  Times(k) \in Nat /\ Times(k) <= Pass /\ (k > 0 => Times(k) >= ProbeTimeout)
<1>1. Times(k) \in Nat /\ Times(k) <= Pass
  BY TimesFacts, Numbers
<1>2. ASSUME k > 0 PROVE Times(k) >= ProbeTimeout
  <2>1. k - 1 \in 0 .. Len(Probed) /\ (k - 1) + 1 = k
    BY <1>2, Numbers
  <2>2. Times(k - 1) \in Nat /\ Times((k - 1) + 1) = Times(k - 1) + ProbeTimeout
    BY <2>1, TimesFacts
  <2>3. QED BY <2>1, <2>2, Numbers
<1>3. QED BY <1>1, <1>2

\* What is left of a pass, before and after a step.
LEMMA PassLeftFacts ==
  ASSUME ReadyShape, loop.at > 0
  PROVE  /\ PassLeft \in Nat /\ PassLeft + Times(loop.at) = Pass + ProbeTimeout - loop.time
         /\ loop.time < ProbeTimeout => PassLeft > 0
<1>1. loop.at \in 0 .. Len(Probed) /\ loop.time \in 0 .. ProbeTimeout
  BY DEF ReadyShape
<1>2. PICK t \in Nat : t = Times(loop.at) /\ t <= Pass
  BY <1>1, TimesAt
<1>3. PassLeft = Pass - t + ProbeTimeout - loop.time
  BY <1>2, TimesFacts DEF PassLeft
<1>4. QED BY <1>1, <1>2, <1>3, Sums, Numbers

LEMMA PassLeftNext ==
  ASSUME ReadyShape', loop'.at > 0
  PROVE  /\ PassLeft' \in Nat /\ PassLeft' + Times(loop'.at) = Pass + ProbeTimeout - loop'.time
<1>1. loop'.at \in 0 .. Len(Probed) /\ loop'.time \in 0 .. ProbeTimeout
  BY DEF ReadyShape
<1>2. PICK t \in Nat : t = Times(loop'.at) /\ t <= Pass
  BY <1>1, TimesAt
<1>3. PassLeft' = Pass - t + ProbeTimeout - loop'.time
  BY <1>2, TimesFacts DEF PassLeft
<1>4. QED BY <1>1, <1>2, <1>3, Sums, Numbers

\* A probe is always due, and never later than an interval and a pass.
LEMMA DueBounds ==
  ASSUME ReadyShape, NEW i \in 1 .. Len(Probed)
  PROVE  DueIn(i) \in Nat /\ DueIn(i) <= Interval + Pass
<1>1. /\ loop.at \in 0 .. Len(Probed) /\ loop.time \in 0 .. ProbeTimeout
      /\ ticker.next \in 0 .. Interval
  BY DEF ReadyShape
<1>2. Times(i) \in Nat /\ Times(loop.at) \in Nat /\ Times(i) <= Pass /\ Times(loop.at) <= Pass /\ Pass \in Nat
  <2>1. i \in 0 .. Len(Probed)
    BY Numbers
  <2>2. Times(i) \in Nat /\ Times(i) <= Pass
    BY <2>1, TimesAt
  <2>3. Times(loop.at) \in Nat /\ Times(loop.at) <= Pass
    BY <1>1, TimesAt
  <2>4. QED BY <2>2, <2>3, Sums
<1>3. CASE loop.at = 0
  BY <1>1, <1>2, <1>3, Numbers, SMTT(30) DEF DueIn
<1>4. CASE loop.at > 0 /\ loop.at <= i
  <2>1. Times(loop.at) <= Times(i) /\ Times(loop.at) >= ProbeTimeout
    <3>1. Times(loop.at) <= Times(i)
      BY <1>1, <1>4, TimesFacts, Numbers
    <3>2. QED BY <1>1, <1>4, <3>1, TimesAt
  <2>2. PICK x \in Nat, t \in Nat, p \in Nat, z \in Nat :
             x = Times(i) /\ t = Times(loop.at) /\ p = ProbeTimeout /\ z = loop.time
    BY <1>1, <1>2, Numbers
  <2>3. t <= x /\ t >= p /\ z <= p /\ x <= Pass
    BY <1>1, <1>2, <2>1, <2>2
  <2>4. DueIn(i) = x - t + p - z
    <3>1. loop.at # 0
      BY <1>1, <1>4
    <3>2. DueIn(i) = Times(i) - Times(loop.at) + ProbeTimeout - loop.time
      BY <1>4, <3>1, Zenon DEF DueIn
    <3>3. QED BY <2>2, <3>2
  <2>5. x - t + p - z \in Nat /\ x - t + p - z <= x
    BY <2>3
  <2>6. QED BY <1>2, <2>3, <2>4, <2>5, Numbers
<1>5. CASE loop.at > i
  <2>1. Times(loop.at) >= Times(i) + ProbeTimeout
    <3>1. i + 1 \in 0 .. Len(Probed) /\ i + 1 <= loop.at /\ i \in 0 .. Len(Probed)
      BY <1>1, <1>5, Numbers
    <3>2. Times(i + 1) <= Times(loop.at) /\ Times(i + 1) = Times(i) + ProbeTimeout
      BY <1>1, <3>1, TimesFacts
    <3>3. QED BY <1>2, <3>2, Numbers
  <2>2. PassLeft \in Nat /\ Times(i) + PassLeft <= Pass
    <3>1. PassLeft \in Nat /\ PassLeft + Times(loop.at) = Pass + ProbeTimeout - loop.time
      BY <1>5, PassLeftFacts, <1>1
    <3>2. QED BY <1>1, <1>2, <2>1, <3>1, Numbers
  <2>3. DueIn(i) = Times(i) + (IF ticker.next = 0 THEN PassLeft + Interval
                   ELSE IF ticker.due \/ ticker.next <= PassLeft THEN PassLeft ELSE ticker.next)
    BY <1>1, <1>5 DEF DueIn
  <2>4. PICK x \in Nat : x = Times(i) /\ x + PassLeft <= Pass
    BY <1>2, <2>2
  <2>5. CASE ticker.next = 0
    <3>1. DueIn(i) = x + (PassLeft + Interval)
      BY <2>3, <2>4, <2>5
    <3>2. QED BY <2>2, <2>4, <3>1, Numbers, Sums
  <2>6. CASE ticker.next # 0 /\ (ticker.due \/ ticker.next <= PassLeft)
    <3>1. DueIn(i) = x + PassLeft
      BY <2>3, <2>4, <2>6
    <3>2. QED BY <2>2, <2>4, <3>1, Numbers, Sums
  <2>7. CASE ticker.next # 0 /\ ~(ticker.due \/ ticker.next <= PassLeft)
    <3>1. DueIn(i) = x + ticker.next
      BY <2>3, <2>4, <2>7
    <3>2. PICK n \in Nat : n = ticker.next /\ n <= Interval
      BY <1>1, Numbers
    <3>3. x <= Pass /\ Pass \in Nat
      BY <1>2, <2>4
    <3>4. x + n \in Nat /\ x + n <= Interval + Pass
      BY <3>2, <3>3, Numbers
    <3>5. QED BY <3>1, <3>2, <3>4
  <2>8. QED BY <2>5, <2>6, <2>7
<1>6. QED BY <1>1, <1>3, <1>4, <1>5, Numbers

AllDue == \A i \in 1 .. Len(Probed) : DueIn(i) \in Nat /\ DueIn(i) <= Interval + Pass

LEMMA AllDueBounded == ReadyShape => AllDue
BY DueBounds DEF AllDue

LEMMA GoneNat == ASSUME ReadyShape, NEW e \in Active PROVE gone[e] \in Nat
BY Sums DEF ReadyShape

\* The same after a step.
LEMMA DueBoundsNext ==
  ReadyShape' => \A i \in 1 .. Len(Probed) : DueIn(i)' \in Nat /\ DueIn(i)' <= Interval + Pass
<1>1. ReadyShape' => AllDue'
  BY AllDueBounded, PTL
<1>2. QED BY <1>1 DEF AllDue

LEMMA ReadyInitInv == ReadyInit => ReadyInv
<1> SUFFICES ASSUME ReadyInit PROVE ReadyInv
  OBVIOUS
<1>1. ReadyShape
  BY Numbers, Sums DEF ReadyInit, ReadyShape, Unasked
<1>2. Noticing
  <2>1. ASSUME NEW i \in 1 .. Len(Probed) PROVE gone[Probed[i]] = 0
    BY Numbers DEF ReadyInit, Active
  <2>2. QED BY <1>1, <2>1, DueBounds, Sums, Numbers DEF Noticing
<1>3. Telling
  BY Numbers DEF ReadyInit, Telling, Answering, Unasked
<1>4. QED BY <1>1, <1>2, <1>3 DEF ReadyInv

\* The probes that follow come no later for the end of this one.
LEMMA ProbeDue ==
  ASSUME ReadyShape, ReadyShape', Probe, NEW i \in 1 .. Len(Probed), i # loop.at
  PROVE  DueIn(i)' <= DueIn(i)
<1>1. /\ loop.at \in 1 .. Len(Probed) /\ loop.time \in 0 .. ProbeTimeout
      /\ ticker.next \in 0 .. Interval
  BY Numbers DEF ReadyShape, Probe
<1>2. Times(i) \in Nat /\ Times(loop.at) \in Nat /\ Times(loop.at + 1) = Times(loop.at) + ProbeTimeout
  BY <1>1, TimesFacts, Numbers
<1>3. Times(Len(Probed)) \in Nat /\ Times(loop.at) <= Times(Len(Probed))
  BY <1>1, TimesFacts, Numbers
<1>4. CASE loop.at < Len(Probed)
  <2>1. loop'.at = loop.at + 1 /\ loop'.time = 0 /\ ticker' = ticker
    BY <1>1, <1>4, Numbers DEF Probe, Advance
  <2>2. PassLeft' <= PassLeft /\ PassLeft \in Int /\ PassLeft' \in Int
    <3>1. PassLeft \in Nat /\ PassLeft + Times(loop.at) = Pass + ProbeTimeout - loop.time
      BY <1>1, PassLeftFacts
    <3>2. PassLeft' \in Nat /\ PassLeft' + Times(loop'.at) = Pass + ProbeTimeout - loop'.time
      BY <1>1, <2>1, PassLeftNext
    <3>3. Times(loop'.at) = Times(loop.at) + ProbeTimeout
      BY <1>2, <2>1
    <3>4. QED BY <1>1, <1>2, <2>1, <3>1, <3>2, <3>3, Sums, Numbers
  <2>3. CASE loop.at < i
    BY <1>1, <1>2, <2>1, <2>3, Numbers, SMTT(30) DEF DueIn
  <2>4. CASE loop.at > i
    <3>1. PICK x \in Nat, pl \in Int, pm \in Int : x = Times(i) /\ pl = PassLeft /\ pm = PassLeft' /\ pm <= pl
      BY <1>2, <2>2
    <3>2. DueIn(i) = x + (IF ticker.next = 0 THEN pl + Interval
                   ELSE IF ticker.due \/ ticker.next <= pl THEN pl ELSE ticker.next)
      BY <1>1, <2>4, <3>1 DEF DueIn
    <3>3. DueIn(i)' = x + (IF ticker.next = 0 THEN pm + Interval
                   ELSE IF ticker.due \/ ticker.next <= pm THEN pm ELSE ticker.next)
      BY <1>1, <2>1, <2>4, <3>1 DEF DueIn
    <3>4. QED BY <1>1, <3>1, <3>2, <3>3, Numbers
  <2>5. QED BY <1>1, <2>3, <2>4
<1>5. CASE loop.at = Len(Probed)
  <2>1. loop'.at = 0 /\ loop.at > i
    BY <1>1, <1>5, Numbers DEF Probe, Advance
  <2>2. PassLeft \in Nat
    BY <1>1, PassLeftFacts
  <2>3. ticker' = IF ticker.next = 0 THEN [ticker EXCEPT !.next = Interval] ELSE ticker
    BY <1>5 DEF Probe, Advance
  <2>4. CASE ticker.next = 0
    <3>1. ticker'.next = Interval
      BY <2>3, <2>4 DEF ReadyShape
    <3>2. QED BY <1>1, <1>2, <2>1, <2>2, <2>4, <3>1, Numbers, SMTT(30) DEF DueIn
  <2>5. CASE ticker.next # 0
    BY <1>1, <1>2, <2>1, <2>2, <2>3, <2>5, Numbers, SMTT(30) DEF DueIn
  <2>6. QED BY <2>4, <2>5
<1>6. QED BY <1>1, <1>4, <1>5, Numbers

LEMMA WakeDue ==
  ASSUME ReadyShape, Wake, NEW i \in 1 .. Len(Probed)
  PROVE  DueIn(i)' <= DueIn(i)
<1>1. Times(1) = ProbeTimeout /\ Times(i) \in Nat
  <2>1. 0 \in 0 .. Len(Probed) /\ i \in 0 .. Len(Probed)
    BY Numbers
  <2>2. Times(0 + 1) = Times(0) + ProbeTimeout /\ Times(0) = 0 /\ Times(i) \in Nat
    BY <2>1, TimesFacts
  <2>3. QED BY <2>2, Numbers
<1>2. loop'.at = 1 /\ loop'.time = 0 /\ loop.at = 0 /\ ticker.due
  BY DEF Wake
<1>3. QED BY <1>1, <1>2, Numbers, SMTT(30) DEF DueIn

\* A tick brings every probe closer.
LEMMA TickDue ==
  ASSUME ReadyShape, ReadyTick, NEW i \in 1 .. Len(Probed)
  PROVE  DueIn(i)' <= DueIn(i) - 1
<1>1. /\ loop.at \in 0 .. Len(Probed) /\ loop.time \in 0 .. ProbeTimeout
      /\ ticker.next \in 0 .. Interval /\ ticker.due \in BOOLEAN
  BY DEF ReadyShape
<1>2. Times(i) \in Nat /\ Times(loop.at) \in Nat
  BY <1>1, TimesAt, Numbers
<1>3. loop'.at = loop.at /\ (loop.at > 0 => loop'.time = loop.time + 1 /\ loop.time < ProbeTimeout)
  BY <1>1 DEF ReadyTick, ReadyShape
<1>4. /\ ticker.next = 0 => ticker'.next = 0 /\ ticker'.due = ticker.due
      /\ ticker.next = 1 => ticker'.next = Interval /\ ticker'.due
      /\ ticker.next > 1 => ticker'.next = ticker.next - 1 /\ ticker'.due = ticker.due
  <2>1. CASE ticker.next = 0
    BY <2>1 DEF ReadyTick
  <2>2. CASE ticker.next = 1
    BY <2>2 DEF ReadyTick
  <2>3. CASE ticker.next > 1
    <3>1. ticker' = [ticker EXCEPT !.next = @ - 1]
      BY <1>1, <2>3, Numbers DEF ReadyTick
    <3>2. QED BY <2>3, <3>1 DEF ReadyShape
  <2>4. QED BY <1>1, <2>1, <2>2, <2>3
<1>5. CASE loop.at = 0
  <2>1. ticker.next > 0 /\ ~ticker.due
    BY <1>5 DEF ReadyShape, ReadyTick
  <2>2. QED BY <1>1, <1>2, <1>3, <1>4, <1>5, <2>1, Numbers, SMTT(30) DEF DueIn
<1>6. CASE loop.at > 0 /\ loop.at <= i
  <2>1. PICK x \in Nat, t \in Nat : x = Times(i) /\ t = Times(loop.at)
    BY <1>2
  <2>2. DueIn(i) = x - t + ProbeTimeout - loop.time
    BY <1>6, <1>1, <2>1 DEF DueIn
  <2>3. DueIn(i)' = x - t + ProbeTimeout - (loop.time + 1)
    BY <1>6, <1>1, <1>3, <2>1 DEF DueIn
  <2>4. PICK z \in Nat, p \in Nat : z = loop.time /\ p = ProbeTimeout
    BY <1>1, Numbers
  <2>5. DueIn(i) = x - t + p - z /\ DueIn(i)' = x - t + p - (z + 1)
    BY <2>2, <2>3, <2>4
  <2>6. x - t + p - (z + 1) <= (x - t + p - z) - 1
    OBVIOUS
  <2>7. QED BY <2>5, <2>6
<1>7. CASE loop.at > i
  <2>1. PassLeft' = PassLeft - 1 /\ PassLeft \in Nat \ {0}
    <3>1. PassLeft \in Nat \ {0}
      BY <1>1, <1>3, <1>7, PassLeftFacts
    <3>2. PICK t \in Nat : t = Times(loop.at)
      BY <1>2
    <3>3. PassLeft = Pass - t + ProbeTimeout - loop.time
      BY <3>2, TimesFacts DEF PassLeft
    <3>4. PassLeft' = Pass - t + ProbeTimeout - (loop.time + 1)
      BY <1>1, <1>3, <1>7, <3>2, TimesFacts DEF PassLeft
    <3>5. QED BY <1>1, <3>1, <3>2, <3>3, <3>4, Sums, Numbers
  <2>2. DueIn(i) = Times(i) + (IF ticker.next = 0 THEN PassLeft + Interval
                   ELSE IF ticker.due \/ ticker.next <= PassLeft THEN PassLeft ELSE ticker.next)
    BY <1>1, <1>7 DEF DueIn
  <2>3. DueIn(i)' = Times(i) + (IF ticker'.next = 0 THEN PassLeft - 1 + Interval
                   ELSE IF ticker'.due \/ ticker'.next <= PassLeft - 1 THEN PassLeft - 1 ELSE ticker'.next)
    BY <1>1, <1>3, <1>7, <2>1 DEF DueIn
  <2>4. PICK x \in Nat, pl \in Nat \ {0} : x = Times(i) /\ pl = PassLeft
    BY <1>2, <2>1
  <2>5. CASE ticker.next = 0
    <3>1. DueIn(i) = x + (pl + Interval) /\ DueIn(i)' = x + (pl - 1 + Interval)
      BY <1>4, <2>2, <2>3, <2>4, <2>5
    <3>2. QED BY <2>4, <3>1, Numbers
  <2>6. CASE ticker.next # 0 /\ ticker.due
    <3>1. ticker'.next # 0 /\ ticker'.due
      <4>1. CASE ticker.next = 1
        BY <1>4, <4>1, Numbers
      <4>2. CASE ticker.next > 1
        <5>1. ticker'.next # 0
          BY <1>1, <1>4, <4>2
        <5>2. ticker'.due = ticker.due
          BY <1>4, <4>2
        <5>3. QED BY <2>6, <5>1, <5>2
      <4>3. QED BY <1>1, <2>6, <4>1, <4>2
    <3>2. DueIn(i) = x + pl /\ DueIn(i)' = x + (pl - 1)
      BY <2>2, <2>3, <2>4, <2>6, <3>1
    <3>3. QED BY <2>4, <3>2
  <2>7. CASE ticker.next # 0 /\ ~ticker.due /\ ticker.next <= pl
    <3>1. ticker'.next # 0 /\ (ticker'.due \/ ticker'.next <= pl - 1)
      BY <1>1, <1>4, <2>4, <2>7, Numbers
    <3>2. DueIn(i) = x + pl /\ DueIn(i)' = x + (pl - 1)
      BY <2>2, <2>3, <2>4, <2>7, <3>1
    <3>3. QED BY <2>4, <3>2
  <2>8. CASE ticker.next # 0 /\ ~ticker.due /\ ~(ticker.next <= pl)
    <3>1. ticker.next > 1 /\ ticker'.next = ticker.next - 1 /\ ticker'.due = ticker.due
      BY <1>1, <1>4, <2>4, <2>8, Numbers
    <3>2. ticker'.next # 0 /\ ~(ticker'.next <= pl - 1)
      BY <1>1, <2>4, <2>8, <3>1, Numbers
    <3>3. DueIn(i) = x + ticker.next
      BY <2>2, <2>4, <2>8
    <3>4. DueIn(i)' = x + (ticker.next - 1)
      BY <2>3, <2>4, <2>8, <3>1, <3>2
    <3>5. QED BY <1>1, <2>4, <3>3, <3>4, Numbers
  <2>9. QED BY <2>5, <2>6, <2>7, <2>8
<1>8. QED BY <1>1, <1>5, <1>6, <1>7, Numbers

LEMMA ProbeKeepsInv == ASSUME ReadyInv, Probe PROVE ReadyInv'
<1> USE DEF ReadyInv
<1>0. loop.at \in 1 .. Len(Probed) /\ Probed[loop.at] \in Active
  BY Numbers DEF Probe, ReadyShape, Active
<1>1. loop' \in [at : 0 .. Len(Probed), time : 0 .. ProbeTimeout]
  BY <1>0, Numbers DEF Probe, Advance, ReadyShape
<1>2. ticker' \in [next : 0 .. Interval, due : BOOLEAN] /\ (loop'.at = 0 => ticker'.next > 0)
  <2>1. CASE loop.at = Len(Probed) /\ ticker.next = 0
    <3>1. ticker' = [ticker EXCEPT !.next = Interval]
      BY <2>1 DEF Probe, Advance
    <3>2. Interval \in 0 .. Interval /\ Interval > 0
      BY Numbers
    <3>3. ticker \in [next : 0 .. Interval, due : BOOLEAN]
      BY DEF ReadyShape
    <3>4. ticker'.next = Interval
      BY <3>1, <3>3
    <3>5. ticker' \in [next : 0 .. Interval, due : BOOLEAN]
      BY <3>1, <3>2, <3>3
    <3>6. QED BY <3>2, <3>4, <3>5
  <2>2. CASE ~(loop.at = Len(Probed) /\ ticker.next = 0)
    <3>1. ticker' = ticker
      BY <2>2 DEF Probe, Advance
    <3>2. loop'.at = 0 => loop.at = Len(Probed)
      BY <1>0, Numbers DEF Probe, Advance
    <3>3. ticker.next \in 0 .. Interval /\ ticker \in [next : 0 .. Interval, due : BOOLEAN]
      BY DEF ReadyShape
    <3>4. QED BY <2>2, <3>1, <3>2, <3>3, Numbers
  <2>3. QED BY <2>1, <2>2
<1>3. ReadyShape'
  BY <1>0, <1>1, <1>2 DEF Probe, ReadyShape, Classify
<1>4. ASSUME NEW i \in 1 .. Len(Probed), ~up'[Probed[i]], sample'[Probed[i]] # "down"
      PROVE  gone'[Probed[i]] + DueIn(i)' <= Interval + Pass
  <2>1. Probed[i] \in Active
    BY Numbers DEF Active
  <2>2. Probed[i] # Probed[loop.at] /\ i # loop.at
    BY <1>0, <1>4, <2>1 DEF Probe, Classify, ReadyShape
  <2>3. ~up[Probed[i]] /\ sample[Probed[i]] # "down" /\ gone' = gone
    BY <1>0, <1>4, <2>1, <2>2 DEF Probe, ReadyShape
  <2>4. gone[Probed[i]] + DueIn(i) <= Interval + Pass
    BY <2>3 DEF Noticing
  <2>5. DueIn(i)' <= DueIn(i)
    BY <1>3, <2>2, ProbeDue
  <2>6. DueIn(i) \in Nat /\ DueIn(i)' \in Nat /\ gone[Probed[i]] \in Nat
    BY <1>3, <2>1, DueBounds, DueBoundsNext, GoneNat
  <2>7. QED BY <2>3, <2>4, <2>5, <2>6, Sums, Numbers
<1>5. Telling'
  BY DEF Probe, Telling, Answering
<1>6. QED BY <1>3, <1>4, <1>5 DEF Noticing

LEMMA WakeKeeps == ASSUME ReadyInv, Wake PROVE ReadyInv'
<1> USE DEF ReadyInv
<1>1. ReadyShape'
  <2>1. loop' \in [at : 0 .. Len(Probed), time : 0 .. ProbeTimeout] /\ loop'.at = 1
    BY Numbers DEF Wake
  <2>2. ticker' \in [next : 0 .. Interval, due : BOOLEAN]
    BY DEF Wake, ReadyShape
  <2>3. QED BY <2>1, <2>2 DEF Wake, ReadyShape
<1>2. ASSUME NEW i \in 1 .. Len(Probed), ~up'[Probed[i]], sample'[Probed[i]] # "down"
      PROVE  gone'[Probed[i]] + DueIn(i)' <= Interval + Pass
  <2>1. Probed[i] \in Active
    BY Numbers DEF Active
  <2>2. gone[Probed[i]] + DueIn(i) <= Interval + Pass /\ gone' = gone
    BY <1>2 DEF Noticing, Wake
  <2>3. DueIn(i)' <= DueIn(i)
    BY WakeDue
  <2>4. DueIn(i) \in Nat /\ DueIn(i)' \in Nat /\ gone[Probed[i]] \in Nat
    BY <1>1, <2>1, DueBounds, DueBoundsNext, GoneNat
  <2>5. QED BY <2>2, <2>3, <2>4, Sums, Numbers
<1>3. Telling'
  BY DEF Wake, Telling, Answering
<1>4. QED BY <1>1, <1>2, <1>3 DEF Noticing

\* Steps that leave the probe loop and the engines alone leave what is due.
LEMMA StillNoticing ==
  ASSUME Noticing, UNCHANGED <<up, gone, sample, loop, ticker>>
  PROVE  Noticing'
BY DEF Noticing, DueIn, PassLeft

LEMMA AskKeeps == ASSUME ReadyInv, Ask PROVE ReadyInv'
<1>1. ReadyShape' /\ Telling'
  BY Numbers DEF ReadyInv, Ask, ReadyShape, monitorVars, Telling, Answering
<1>2. QED BY <1>1, StillNoticing DEF ReadyInv, Ask, monitorVars

\* An engine whose last sample is not "down" is not long away.
LEMMA EvaluatedKeeps ==
  ASSUME ReadyInv, NEW d \in SUBSET {"database"}, Evaluated(d)
  PROVE  ReadyInv'
<1> USE DEF ReadyInv
<1>1. ReadyShape'
  <2>1. [failing |-> Failing \cup d, age |-> 0] \in [failing : SUBSET (Active \cup {"database"}), age : 0 .. ReadyTTL]
    <3>1. Failing \cup d \in SUBSET (Active \cup {"database"})
      BY DEF Failing
    <3>2. 0 \in 0 .. ReadyTTL
      BY Numbers
    <3>3. QED BY <3>1, <3>2
  <2>2. QED BY <2>1, Numbers DEF Evaluated, ReadyShape, monitorVars
<1>2. ASSUME Failing = {}, NEW e \in Active PROVE gone[e] <= Interval + Pass
  <2>1. CASE up[e]
    BY <2>1, Sums, Numbers DEF ReadyShape
  <2>2. CASE ~up[e]
    <3>1. PICK i \in 1 .. Len(Probed) : Probed[i] = e
      BY Numbers DEF Active
    <3>2. sample[e] # "down"
      BY <1>2 DEF Failing, Status
    <3>3. gone[e] + DueIn(i) <= Interval + Pass
      BY <2>2, <3>1, <3>2 DEF Noticing
    <3>4. QED BY <3>3, DueBounds, Sums, Numbers DEF ReadyShape
  <2>3. QED BY <2>1, <2>2
<1>3. Telling'
  <2>1. ready'.failing = Failing \cup d /\ ready'.age = 0 /\ gone' = gone
    BY DEF Evaluated
  <2>2. ASSUME ready'.failing = {}, NEW e \in Active PROVE gone'[e] <= Interval + Pass + ready'.age
    <3>1. gone[e] <= Interval + Pass
      BY <1>2, <2>1, <2>2
    <3>2. QED BY <2>1, <3>1, Sums, Numbers DEF ReadyShape
  <2>3. QED BY <2>2 DEF Telling
<1>4. QED BY <1>1, <1>3, StillNoticing DEF Evaluated, monitorVars

LEMMA ChangeKeeps == ASSUME ReadyInv, NEW e \in Active, Change(e) PROVE ReadyInv'
<1> USE DEF ReadyInv
<1>1. ReadyShape'
  BY Sums DEF Change, ReadyShape, monitorVars
<1>2. ASSUME NEW i \in 1 .. Len(Probed), ~up'[Probed[i]], sample'[Probed[i]] # "down"
      PROVE  gone'[Probed[i]] + DueIn(i)' <= Interval + Pass
  <2>1. Probed[i] \in Active
    BY Numbers DEF Active
  <2>2. CASE Probed[i] = e
    <3>1. gone'[Probed[i]] = 0
      BY <2>1, <2>2 DEF Change, ReadyShape
    <3>2. QED BY <1>1, <3>1, DueBoundsNext
  <2>3. CASE Probed[i] # e
    <3>1. gone'[Probed[i]] = gone[Probed[i]] /\ up'[Probed[i]] = up[Probed[i]]
      BY <2>1, <2>3 DEF Change, ReadyShape
    <3>2. DueIn(i)' = DueIn(i) /\ sample' = sample
      BY DEF DueIn, PassLeft, Change, monitorVars
    <3>3. QED BY <1>2, <3>1, <3>2 DEF Noticing
  <2>4. QED BY <2>2, <2>3
<1>3. Telling'
  <2>1. ready' = ready /\ \A f \in Active : gone'[f] = gone[f] \/ gone'[f] = 0
    BY DEF Change, ReadyShape
  <2>2. ASSUME Answering, ready.failing = {}, NEW f \in Active PROVE gone'[f] <= Interval + Pass + ready.age
    <3>1. gone[f] <= Interval + Pass + ready.age /\ ready.age \in Nat
      BY <2>2, Numbers DEF Telling, ReadyShape
    <3>2. CASE gone'[f] = 0
      BY <3>1, <3>2, Sums, Numbers
    <3>3. QED BY <2>1, <3>1, <3>2
  <2>3. QED BY <2>1, <2>2 DEF Telling, Answering
<1>4. QED BY <1>1, <1>2, <1>3 DEF Noticing

LEMMA DatabaseKeeps == ASSUME ReadyInv, DatabaseChange PROVE ReadyInv'
<1>1. ReadyShape' /\ Telling'
  BY DEF ReadyInv, DatabaseChange, ReadyShape, monitorVars, Telling, Answering
<1>2. QED BY <1>1, StillNoticing DEF ReadyInv, DatabaseChange, monitorVars

LEMMA ReadyTickKeeps == ASSUME ReadyInv, ReadyTick PROVE ReadyInv'
<1> USE DEF ReadyInv
<1>1. loop' \in [at : 0 .. Len(Probed), time : 0 .. ProbeTimeout] /\ loop'.at = loop.at
  <2>1. CASE loop.at > 0
    <3>1. loop.time + 1 \in 0 .. ProbeTimeout /\ loop' = [loop EXCEPT !.time = @ + 1]
      BY <2>1, Numbers DEF ReadyTick, ReadyShape
    <3>2. QED BY <3>1 DEF ReadyShape
  <2>2. CASE ~(loop.at > 0)
    BY <2>2 DEF ReadyTick, ReadyShape
  <2>3. QED BY <2>1, <2>2
<1>2. ticker' \in [next : 0 .. Interval, due : BOOLEAN] /\ (ticker.next > 0 => ticker'.next > 0)
  <2>1. ticker.next \in 0 .. Interval
    BY DEF ReadyShape
  <2>2. CASE ticker.next \in {0, 1}
    BY <2>2, Numbers DEF ReadyTick, ReadyShape
  <2>3. CASE ticker.next > 1
    <3>1. ticker' = [ticker EXCEPT !.next = @ - 1]
      BY <2>1, <2>3 DEF ReadyTick
    <3>2. ticker.next - 1 \in 0 .. Interval /\ ticker.next - 1 > 0
      BY <2>1, <2>3, Numbers
    <3>3. QED BY <3>1, <3>2 DEF ReadyShape
  <2>4. QED BY <2>1, <2>2, <2>3, Numbers
<1>3. ready' \in [failing : SUBSET (Active \cup {"database"}), age : 0 .. ReadyTTL]
  <2>1. ready.age \in 0 .. ReadyTTL /\ ready.failing \in SUBSET (Active \cup {"database"})
    BY DEF ReadyShape
  <2>2. (IF ready.age >= ReadyTTL THEN ready.age ELSE ready.age + 1) \in 0 .. ReadyTTL
    BY <2>1, Numbers
  <2>3. QED BY <2>1, <2>2 DEF ReadyTick, ReadyShape
<1>4. gone' \in [Active -> 0 .. Notice] /\ \A e \in Active : up[e] => gone'[e] = 0
  BY Sums DEF ReadyTick, ReadyShape
<1>5. eval' \in -1 .. ReadyTimeout
  BY Numbers DEF ReadyTick, ReadyShape
<1>6. ReadyShape'
  BY <1>1, <1>2, <1>3, <1>4, <1>5 DEF ReadyTick, ReadyShape
<1>7. ASSUME NEW i \in 1 .. Len(Probed), ~up'[Probed[i]], sample'[Probed[i]] # "down"
      PROVE  gone'[Probed[i]] + DueIn(i)' <= Interval + Pass
  <2>1. Probed[i] \in Active
    BY Numbers DEF Active
  <2>2. gone[Probed[i]] + DueIn(i) <= Interval + Pass
    BY <1>7 DEF Noticing, ReadyTick
  <2>3. DueIn(i)' <= DueIn(i) - 1
    BY TickDue
  <2>4. DueIn(i) \in Nat /\ DueIn(i)' \in Nat /\ gone[Probed[i]] \in Nat
    BY <1>6, <2>1, DueBounds, DueBoundsNext, GoneNat
  <2>5. gone'[Probed[i]] \in Nat /\ gone'[Probed[i]] <= gone[Probed[i]] + 1
    BY <2>1, <2>4, Sums DEF ReadyTick
  <2>6. QED BY <2>2, <2>3, <2>4, <2>5, Sums, Numbers
<1>8. Telling'
  <2>1. ASSUME Answering', ready'.failing = {}, NEW e \in Active
        PROVE  gone'[e] <= Interval + Pass + ready'.age
    <3>1. ready.age \in 0 .. ReadyTTL /\ gone[e] \in Nat
      BY Sums DEF ReadyShape
    <3>2. ready.age < ReadyTTL /\ ready'.age = ready.age + 1 /\ ready.failing = {}
      BY <2>1, <3>1, Numbers DEF ReadyTick, ReadyShape, Answering
    <3>3. gone[e] <= Interval + Pass + ready.age
      BY <3>2 DEF Telling, Answering
    <3>4. gone'[e] \in Nat /\ gone'[e] <= gone[e] + 1
      BY <3>1, Sums DEF ReadyTick
    <3>5. QED BY <3>1, <3>2, <3>3, <3>4, Sums, Numbers
  <2>2. QED BY <2>1 DEF Telling
<1>9. QED BY <1>6, <1>7, <1>8 DEF Noticing

LEMMA ReadyStepInv == ReadyInv /\ (ReadyNext \/ ReadyTick \/ UNCHANGED readyVars) => ReadyInv'
<1>1. ASSUME ReadyInv, UNCHANGED readyVars PROVE ReadyInv'
  <2>1. ReadyShape' /\ Telling'
    BY <1>1 DEF ReadyInv, readyVars, ReadyShape, monitorVars, Telling, Answering
  <2>2. QED BY <1>1, <2>1, StillNoticing DEF ReadyInv, readyVars, monitorVars
<1>2. ASSUME ReadyInv, ReadyNext PROVE ReadyInv'
  <2>1. ASSUME DatabaseAnswers PROVE ReadyInv'
    BY <1>2, <2>1, EvaluatedKeeps DEF DatabaseAnswers
  <2>2. ASSUME DatabaseFails PROVE ReadyInv'
    BY <1>2, <2>2, EvaluatedKeeps DEF DatabaseFails
  <2>3. QED
    BY <1>2, <2>1, <2>2, ProbeKeepsInv, WakeKeeps, AskKeeps, DatabaseKeeps, ChangeKeeps DEF ReadyNext
<1>3. QED BY <1>1, <1>2, ReadyTickKeeps

LEMMA NoticedFollows == ReadyInv => OutageNoticed
<1> SUFFICES ASSUME ReadyInv, NEW e \in Active, Answering, gone[e] >= Notice, ready.failing = {} PROVE FALSE
  BY DEF OutageNoticed
<1>1. gone[e] <= Interval + Pass + ready.age /\ ready.age \in Nat /\ ready.age < ReadyTTL
  BY Numbers DEF ReadyInv, Telling, ReadyShape, Answering
<1>2. gone[e] \in Nat
  BY Sums DEF ReadyInv, ReadyShape
<1>3. QED BY <1>1, <1>2, Sums, Numbers
-----------------------------------------------------------------------------
(* Theorems *)

IInv == ScanInv /\ LookInv /\ ReadyInv

\* The steps of one part leave the state of the two others alone; the clock moves
\* them together.
LEMMA PartsKeep == IInv /\ [Next]_vars => IInv'
<1> SUFFICES ASSUME IInv, [Next]_vars PROVE IInv'
  OBVIOUS
<1> USE DEF IInv
<1>1. CASE UNCHANGED vars \/ Tick
  BY <1>1, ScanStepInv, LookStepInv, ReadyStepInv DEF vars, Tick
<1>2. CASE ScanNext /\ ScanAlone
  BY <1>2, ScanStepInv, LookStepInv, ReadyStepInv DEF ScanAlone
<1>3. CASE LookNext /\ LookAlone
  BY <1>3, ScanStepInv, LookStepInv, ReadyStepInv DEF LookAlone
<1>4. CASE ReadyNext /\ ReadyAlone
  BY <1>4, ScanStepInv, LookStepInv, ReadyStepInv DEF ReadyAlone
<1> QED
  BY <1>1, <1>2, <1>3, <1>4 DEF Next

LEMMA IInvHolds == Spec => []IInv
<1>1. Init => IInv
  BY ScanInitInv, LookInitInv, ReadyInitInv DEF Init, IInv
<1> QED
  BY <1>1, PartsKeep, PTL DEF Spec

\* However the engines end, fail or are cancelled, a scan says clean only on
\* every engine's word, and malware when one engine reported it
\* (MultiScanner.Scan).
THEOREM ScansFailClosed == Spec => []FailClosed
<1>1. IInv => FailClosed
  BY DEF IInv, ScanInv
<1>2. QED BY <1>1, IInvHolds, PTL

\* No engine is asked for more scans at once than max_concurrent_scans, and no
\* engine reads a file whose scan has returned (LimitedScanner).
THEOREM EnginesStayBounded == Spec => []EnginesBounded
<1>1. IInv => EnginesBounded
  BY BoundFollows DEF IInv
<1>2. QED BY <1>1, IInvHolds, PTL

\* No caller is told what osv.dev knew longer ago than the cache's lifetime and
\* one query's timeout (OSVScanner.Scan, its cache).
THEOREM AnswersStayFresh == Spec => []AnswersFresh
<1>1. IInv => AnswersFresh
  BY DEF IInv, LookInv
<1>2. QED BY <1>1, IInvHolds, PTL

\* After an interval, a pass of probes and the life of an answer, /ready does
\* not say that all is well while an engine is away (Monitor.probeAll, its
\* ticker, readinessCacheTTL).
THEOREM OutagesNoticed == Spec => []OutageNoticed
<1>1. IInv => OutageNoticed
  BY NoticedFollows DEF IInv
<1>2. QED BY <1>1, IInvHolds, PTL
=============================================================================
