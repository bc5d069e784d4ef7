-------------------------- MODULE DockerGateProofs --------------------------
(***************************************************************************)
(* The manifest gate, proved for any number of manifests, blobs and        *)
(* requests and for manifests with any number of layers.                   *)
(*                                                                         *)
(* The inductive invariant has four parts.  Crew says who leads a flight   *)
(* and who waits for it, StoreInv what a stored verdict is worth,          *)
(* AnswerInv what an expired verdict kept for outages and an answer are    *)
(* worth, and Gated where the bytes of a blob that may be served come from.*)
(***************************************************************************)
EXTENDS DockerGate, WellFoundedInduction, TLAPS

-----------------------------------------------------------------------------
(* Flights *)

\* The places where a request has a manifest.
Named == {"fast", "check", "pass", "join", "wait"} \cup Evaluating

CrewType ==
  /\ flight \in [Manifests -> Requests \cup {None}]
  /\ mpc \in [Requests -> PCs]
  /\ byTag \in [Requests -> BOOLEAN]
  /\ man \in [Requests -> Manifests \cup {None}]
  /\ next \in [Requests -> Nat]
  /\ gone \in [Requests -> BOOLEAN]

HasManifest ==
  \A q \in Requests : mpc[q] \in Named \/ (mpc[q] = "fetch" /\ ~byTag[q]) => man[q] \in Manifests

Led ==
  /\ \A q \in Requests : mpc[q] = "wait" => flight[man[q]] # None
  /\ \A q \in Requests : mpc[q] \in Evaluating => flight[man[q]] = q
  /\ \A m \in Manifests : flight[m] # None => mpc[flight[m]] \in Evaluating /\ man[flight[m]] = m

\* A leader's next blob is one of its manifest's.
InLayers ==
  \A q \in Requests :
    /\ mpc[q] = "layer" => next[q] > 0
    /\ mpc[q] \in {"scan", "put_blob"} => next[q] \in 1 .. Len(Layers[man[q]])

Crew == CrewType /\ HasManifest /\ Led /\ InLayers

LEMMA CrewSame ==
  ASSUME Crew, UNCHANGED <<flight, mpc, byTag, man, next>>, gone' \in [Requests -> BOOLEAN]
  PROVE  Crew'
BY DEF Crew, CrewType, HasManifest, Led, InLayers

\* A request that leads nothing and waits for nothing goes on by itself.
LEMMA CrewGoto ==
  ASSUME Crew, NEW q \in Requests, mpc[q] \notin Evaluating \cup {"wait"},
         NEW l \in {"fast", "fetch", "check", "pass", "join", "reply"}, Goto(q, l),
         NEW m \in Manifests \cup {None}, man' = [man EXCEPT ![q] = m],
         NEW t \in BOOLEAN, byTag' = [byTag EXCEPT ![q] = t],
         l \in Named \/ (l = "fetch" /\ ~t) => m \in Manifests,
         UNCHANGED <<flight, next, gone>>
  PROVE  Crew'
<1> USE DEF Crew, Goto
<1>1. CrewType'
  BY DEF CrewType, PCs
<1>2. HasManifest'
  BY DEF CrewType, HasManifest, Named, Evaluating
<1>3. \A w \in Requests : w # q => mpc'[w] = mpc[w] /\ man'[w] = man[w] /\ next'[w] = next[w]
  BY DEF CrewType
<1>4. mpc'[q] = l /\ l \notin Evaluating \cup {"wait"}
  BY DEF CrewType, Evaluating
<1>5. \A n \in Manifests : flight[n] # None => flight[n] # q /\ flight[n] \in Requests
  BY DEF CrewType, Led
<1>6. Led'
  BY <1>3, <1>4, <1>5 DEF Led
<1>7. InLayers'
  BY <1>3, <1>4 DEF InLayers, Evaluating
<1>8. QED BY <1>1, <1>2, <1>6, <1>7

LEMMA CrewJoin == ASSUME Crew, NEW q \in Requests, Join(q) PROVE Crew'
<1> USE DEF Crew, Goto, Join
<1>0. man[q] \in Manifests /\ mpc[q] = "join"
  BY DEF HasManifest, Named
<1>1. CrewType'
  BY <1>0 DEF CrewType, PCs
<1>2. HasManifest'
  BY <1>0 DEF CrewType, HasManifest
<1>3. InLayers'
  BY DEF CrewType, InLayers
<1>4. ASSUME flight[man[q]] = None, flight' = [flight EXCEPT ![man[q]] = q], Goto(q, "checks")
      PROVE  Led'
  <2>1. \A w \in Requests : w # q => mpc'[w] = mpc[w]
    BY <1>4 DEF CrewType
  <2>2. mpc'[q] = "checks" /\ flight'[man[q]] = q /\ q # None
    BY <1>0, <1>4, DockerAssumption DEF CrewType
  <2>3. \A m \in Manifests : m # man[q] => flight'[m] = flight[m]
    BY <1>4 DEF CrewType
  <2>4. \A m \in Manifests : flight[m] # None => flight[m] \in Requests /\ flight[m] # q
    BY <1>0 DEF CrewType, Led, Evaluating
  <2>5. man' = man /\ \A w \in Requests : mpc[w] \in Evaluating \cup {"wait"} => man[w] \in Manifests
    BY DEF HasManifest, Named
  <2>6. \A w \in Requests : mpc'[w] = "wait" => flight'[man'[w]] # None
    BY <1>0, <2>1, <2>2, <2>3, <2>5 DEF Led
  <2>7. \A w \in Requests : mpc'[w] \in Evaluating => flight'[man'[w]] = w
    BY <1>0, <1>4, <2>1, <2>2, <2>3, <2>5, DockerAssumption DEF Led
  <2>8. \A m \in Manifests : flight'[m] # None => mpc'[flight'[m]] \in Evaluating /\ man'[flight'[m]] = m
    BY <1>0, <2>1, <2>2, <2>3, <2>4, <2>5 DEF Led, Evaluating
  <2>9. QED BY <2>6, <2>7, <2>8 DEF Led
<1>5. ASSUME flight[man[q]] # None, UNCHANGED flight, Goto(q, "wait")
      PROVE  Led'
  <2>1. \A w \in Requests : w # q => mpc'[w] = mpc[w]
    BY <1>5 DEF CrewType
  <2>2. mpc'[q] = "wait" /\ flight' = flight /\ man' = man
    BY <1>5 DEF CrewType
  <2>3. \A m \in Manifests : flight[m] # None => flight[m] \in Requests /\ flight[m] # q
    BY <1>0 DEF CrewType, Led, Evaluating
  <2>4. QED BY <1>0, <1>5, <2>1, <2>2, <2>3 DEF Led, Evaluating
<1>6. QED BY <1>1, <1>2, <1>3, <1>4, <1>5

LEMMA CrewProceed ==
  ASSUME Crew, NEW q \in Requests, mpc[q] \in Evaluating, NEW l \in Evaluating, NEW k \in Nat,
         Proceed(q, l, k), l = "layer" => k > 0,
         l \in {"scan", "put_blob"} => k \in 1 .. Len(Layers[man[q]])
  PROVE  Crew'
<1> USE DEF Crew, Goto, Proceed
<1>1. CrewType'
  BY DEF CrewType, PCs, Evaluating
<1>2. HasManifest'
  BY DEF CrewType, HasManifest, Named
<1>3. Led'
  BY DEF CrewType, Led, Evaluating
<1>4. InLayers'
  BY DEF CrewType, InLayers
<1>5. QED BY <1>1, <1>2, <1>3, <1>4

LEMMA CrewLand ==
  ASSUME Crew, NEW q \in Requests, mpc[q] \in Evaluating, NEW a, Land(q, a)
  PROVE  Crew'
<1> USE DEF Crew
<1>0. man[q] \in Manifests /\ flight[man[q]] = q
  BY DEF HasManifest, Named, Led
<1>1. PICK crew \in SUBSET Requests : crew = {q} \cup Waiters(man[q])
  BY DEF Waiters
<1>2. /\ flight' = [flight EXCEPT ![man[q]] = None]
      /\ mpc' = [w \in Requests |-> IF w \in crew THEN "reply" ELSE mpc[w]]
      /\ next' = [next EXCEPT ![q] = 0]
      /\ UNCHANGED <<byTag, man, gone>>
  BY <1>1 DEF Land, Return
<1>3. CrewType'
  BY <1>0, <1>2 DEF CrewType, PCs
<1>4. HasManifest'
  BY <1>2 DEF HasManifest, Named, Evaluating
<1>5. \A w \in Requests : mpc'[w] = "wait" => flight'[man'[w]] # None
  BY <1>0, <1>1, <1>2 DEF Led, Waiters, CrewType, HasManifest, Named
<1>6. \A w \in Requests : mpc'[w] \in Evaluating => flight'[man'[w]] = w
  BY <1>0, <1>1, <1>2 DEF Led, CrewType, HasManifest, Named, Evaluating
<1>7. \A m \in Manifests : flight'[m] # None => mpc'[flight'[m]] \in Evaluating /\ man'[flight'[m]] = m
  BY <1>0, <1>1, <1>2 DEF Led, CrewType, Waiters, Evaluating
<1>8. InLayers'
  BY <1>1, <1>2 DEF InLayers, CrewType
<1>9. QED BY <1>3, <1>4, <1>5, <1>6, <1>7, <1>8 DEF Led

LEMMA CrewReset ==
  ASSUME Crew, NEW q \in Requests, mpc[q] = "reply", Reset({q}), UNCHANGED flight
  PROVE  Crew'
<1> USE DEF Crew, Reset
<1>1. CrewType'
  BY DEF CrewType, PCs
<1>2. HasManifest' /\ InLayers'
  BY DEF CrewType, HasManifest, InLayers, Named, Evaluating
<1>3. Led'
  BY DEF CrewType, Led, Evaluating
<1>4. QED BY <1>1, <1>2, <1>3

LEMMA CrewRestart == ASSUME Crew, Restart PROVE Crew'
<1> USE DEF Crew, Reset, Restart
<1>1. CrewType'
  BY DEF CrewType, PCs
<1>2. HasManifest' /\ InLayers' /\ Led'
  BY DEF HasManifest, InLayers, Led, Named, Evaluating
<1>3. QED BY <1>1, <1>2
-----------------------------------------------------------------------------
(* Verdicts and answers *)

\* A clean verdict is that of a manifest whose last verdict is no block, and a
\* request is barred only from what is still blocked.
StoreInv ==
  /\ verdict \in [Manifests -> Verdict \cup {None}]
  /\ blocked \in SUBSET Manifests
  /\ barred \in [Requests -> SUBSET Manifests]
  /\ \A m \in Manifests : verdict[m] # None /\ verdict[m].ok => m \notin blocked
  /\ \A q \in Requests : barred[q] \subseteq blocked

AnswerType ==
  /\ old \in [Requests -> Answer \cup {None}]
  /\ res \in [Requests -> Answer \cup {None}]
  /\ excused \in [Requests -> BOOLEAN]

OldSound ==
  \A q \in Requests :
    /\ mpc[q] = "idle" => old[q] = None
    /\ old[q] # None /\ old[q].ok => man[q] \in Manifests \ barred[q]

ResSound ==
  \A q \in Requests : mpc[q] = "reply" =>
    /\ res[q] \in Answer
    /\ res[q].ok => man[q] \in Manifests \ barred[q]
    /\ res[q].stale => excused[q]

AnswerInv == AnswerType /\ OldSound /\ ResSound

LEMMA StoreSame ==
  ASSUME StoreInv, UNCHANGED <<verdict, blocked, barred>>
  PROVE  StoreInv' /\ \A w \in Requests : barred'[w] \subseteq barred[w]
BY DEF StoreInv

\* A verdict is stored, or could not be.
LEMMA StoreVerdict ==
  ASSUME StoreInv, NEW m \in Manifests, NEW ok \in BOOLEAN, NEW why \in Reasons, NEW worked \in BOOLEAN,
         CacheVerdict(m, ok, why, worked)
  PROVE  /\ StoreInv'
         /\ \A w \in Requests : barred'[w] \subseteq barred[w]
         /\ ok /\ worked => \A w \in Requests : m \notin barred'[w]
         /\ since \in [Manifests -> SUBSET Blobs] => since' \in [Manifests -> SUBSET Blobs]
<1>1. CASE ~worked
  BY <1>1, StoreSame DEF CacheVerdict
<1>2. CASE worked
  <2>1. PICK v \in Verdict : v = [ok |-> ok, why |-> why, fresh |-> TRUE]
    BY DEF Verdict
  <2>2. verdict' = [verdict EXCEPT ![m] = v] /\ Judged(m, ok)
    BY <1>2, <2>1 DEF CacheVerdict
  <2>3. verdict' \in [Manifests -> Verdict \cup {None}]
    BY <2>2 DEF StoreInv
  <2>4. v.ok = ok
    BY <2>1
  <2>5. CASE ok
    <3>1. blocked' = blocked \ {m} /\ barred' = [q \in Requests |-> barred[q] \ {m}]
      BY <2>2, <2>5 DEF Judged
    <3>2. \A n \in Manifests : verdict'[n] # None /\ verdict'[n].ok => n \notin blocked'
      BY <2>2, <3>1 DEF StoreInv
    <3>3. QED BY <2>2, <2>3, <3>1, <3>2 DEF StoreInv, Judged
  <2>6. CASE ~ok
    <3>1. blocked' = blocked \cup {m} /\ barred' = barred
      BY <2>2, <2>6 DEF Judged
    <3>2. \A n \in Manifests : verdict'[n] # None /\ verdict'[n].ok => n \notin blocked'
      BY <2>2, <2>4, <2>6, <3>1 DEF StoreInv
    <3>3. QED BY <2>2, <2>3, <2>6, <3>1, <3>2 DEF StoreInv, Judged
  <2>7. QED BY <2>5, <2>6
<1>3. QED BY <1>1, <1>2

LEMMA StoreVanish == ASSUME StoreInv, Vanish PROVE StoreInv'
BY DEF StoreInv, Vanish, judgeVars

LEMMA StoreExpire == ASSUME StoreInv, NEW m \in Manifests, Expire(m) PROVE StoreInv'
<1>1. verdict[m] \in Verdict
  BY DEF StoreInv, Expire
<1>0. [verdict[m] EXCEPT !.fresh = FALSE] \in Verdict /\ [verdict[m] EXCEPT !.fresh = FALSE].ok = verdict[m].ok
  BY <1>1 DEF Verdict
<1>2. PICK v \in Verdict : v = [verdict[m] EXCEPT !.fresh = FALSE] /\ v.ok = verdict[m].ok
  BY <1>0
<1>3. verdict' = [verdict EXCEPT ![m] = v]
  BY <1>2 DEF Expire
<1>4. QED BY <1>2, <1>3 DEF StoreInv, Expire, judgeVars

\* Answers are answers.
LEMMA ErrorAnswer == \A why \in Errors : Error(why) \in Answer /\ ~Error(why).ok /\ ~Error(why).stale
BY DEF Error, Answer, Errors

LEMMA VerdictAnswer ==
  \A ok \in BOOLEAN, why \in Reasons, body \in BOOLEAN :
    /\ Verdicted(ok, why, body) \in Answer /\ Verdicted(ok, why, body).ok = ok
    /\ ~Verdicted(ok, why, body).stale
BY DEF Verdicted, Answer

LEMMA CachedAnswer ==
  \A v \in Verdict, body \in BOOLEAN :
    /\ Cached(v, body) \in Answer /\ Cached(v, body).ok = v.ok
    /\ v.fresh => ~Cached(v, body).stale
BY DEF Cached, Answer, Verdict

LEMMA AnswerSame ==
  ASSUME AnswerInv, UNCHANGED <<old, res, excused, mpc, man, barred>>
  PROVE  AnswerInv'
BY DEF AnswerInv, AnswerType, OldSound, ResSound

\* The gate decides on q's answer.
LEMMA AnswerDecide ==
  ASSUME AnswerInv, Crew, NEW q \in Requests, NEW a \in Answer, Decide(q, a), UNCHANGED man,
         \A w \in Requests : barred'[w] \subseteq barred[w],
         excused' \in [Requests -> BOOLEAN], \A w \in Requests : excused[w] => excused'[w],
         a.ok => man[q] \in Manifests \ barred'[q], a.stale => excused'[q]
  PROVE  AnswerInv'
<1> USE DEF AnswerInv, Decide, Goto
<1>1. AnswerType'
  BY DEF AnswerType
<1>2. mpc'[q] = "reply" /\ res'[q] = a /\ old'[q] = None
  BY DEF AnswerType, Crew, CrewType
<1>3. \A w \in Requests : w # q => mpc'[w] = mpc[w] /\ res'[w] = res[w] /\ old'[w] = old[w]
  BY DEF AnswerType, Crew, CrewType
<1>4. OldSound'
  BY <1>2, <1>3 DEF OldSound
<1>5. ResSound'
  BY <1>2, <1>3 DEF ResSound
<1>6. QED BY <1>1, <1>4, <1>5

\* q goes on, with an expired verdict or without one.
LEMMA AnswerGoto ==
  ASSUME AnswerInv, Crew, NEW q \in Requests, NEW l, l \notin {"idle", "reply"}, Goto(q, l),
         NEW m, man' = [man EXCEPT ![q] = m], NEW o \in Answer \cup {None}, old' = [old EXCEPT ![q] = o],
         o # None /\ o.ok => m \in Manifests \ barred'[q],
         \A w \in Requests : barred'[w] \subseteq barred[w],
         UNCHANGED <<res, excused>>
  PROVE  AnswerInv'
<1> USE DEF AnswerInv, Goto
<1>1. AnswerType'
  BY DEF AnswerType
<1>2. mpc'[q] = l /\ man'[q] = m /\ old'[q] = o
  BY DEF AnswerType, Crew, CrewType
<1>3. \A w \in Requests : w # q => mpc'[w] = mpc[w] /\ man'[w] = man[w] /\ old'[w] = old[w]
  BY DEF AnswerType, Crew, CrewType
<1>4. OldSound'
  BY <1>2, <1>3 DEF OldSound
<1>5. ResSound'
  BY <1>2, <1>3 DEF ResSound
<1>6. QED BY <1>1, <1>4, <1>5

LEMMA AnswerProceed ==
  ASSUME AnswerInv, Crew, NEW q \in Requests, NEW l \in Evaluating, NEW k, Proceed(q, l, k),
         \A w \in Requests : barred'[w] \subseteq barred[w]
  PROVE  AnswerInv'
<1> USE DEF AnswerInv, Proceed, Goto
<1>1. l \notin {"idle", "reply"}
  BY DEF Evaluating
<1>2. \A w \in Requests : mpc'[w] = mpc[w] \/ mpc'[w] \notin {"idle", "reply"}
  BY <1>1 DEF Crew, CrewType
<1>3. AnswerType'
  BY DEF AnswerType
<1>4. OldSound' /\ ResSound'
  BY <1>2 DEF OldSound, ResSound
<1>5. QED BY <1>3, <1>4

\* Everybody on the flight has its answer, or an expired verdict of its own.
LEMMA AnswerLand ==
  ASSUME AnswerInv, Crew, NEW q \in Requests, mpc[q] \in Evaluating, NEW a \in Answer, Land(q, a),
         \A w \in Requests : barred'[w] \subseteq barred[w],
         ~a.stale, a.ok => \A w \in Requests : man[q] \notin barred'[w]
  PROVE  AnswerInv'
<1> USE DEF AnswerInv
<1>0. man[q] \in Manifests
  BY DEF Crew, HasManifest, Named
<1>1. PICK crew \in SUBSET Requests : crew = {q} \cup Waiters(man[q])
  BY DEF Waiters
<1>2. \A w \in crew : man[w] = man[q]
  BY <1>1 DEF Waiters
<1>3. /\ mpc' = [w \in Requests |-> IF w \in crew THEN "reply" ELSE mpc[w]]
      /\ res' = [w \in Requests |-> IF w \in crew
                                    THEN IF a.why = "error" /\ old[w] # None THEN old[w] ELSE a
                                    ELSE res[w]]
      /\ old' = [w \in Requests |-> IF w \in crew THEN None ELSE old[w]]
      /\ excused' = [w \in Requests |-> excused[w] \/ (w \in crew /\ a.why = "error")]
      /\ man' = man
  BY <1>1 DEF Land, Return
<1>4. AnswerType'
  BY <1>3 DEF AnswerType
<1>5. OldSound'
  BY <1>3 DEF OldSound
<1>6. ASSUME NEW w \in crew PROVE res'[w] \in Answer /\ (res'[w].ok => man'[w] \in Manifests \ barred'[w])
                                  /\ (res'[w].stale => excused'[w])
  BY <1>0, <1>2, <1>3, <1>6 DEF AnswerType, OldSound
<1>7. ASSUME NEW w \in Requests \ crew, mpc'[w] = "reply"
      PROVE  /\ res'[w] \in Answer
             /\ res'[w].ok => man'[w] \in Manifests \ barred'[w]
             /\ res'[w].stale => excused'[w]
  BY <1>3, <1>7 DEF ResSound
<1>8. ResSound'
  BY <1>6, <1>7 DEF ResSound
<1>9. QED BY <1>4, <1>5, <1>8

LEMMA AnswerReset ==
  ASSUME AnswerInv, NEW S \in SUBSET Requests, Reset(S)
  PROVE  AnswerInv'
BY DEF AnswerInv, Reset, AnswerType, OldSound, ResSound

LEMMA StoreReset ==
  ASSUME StoreInv, NEW S \in SUBSET Requests, Reset(S), UNCHANGED <<verdict, blocked>>
  PROVE  StoreInv'
BY DEF StoreInv, Reset
-----------------------------------------------------------------------------
(* Blobs *)

\* The library's induction rules are out of the provers' reach; that a set of
\* numbers has a least element is not.
LEMMA LeastNumber ==
  ASSUME NEW T \in SUBSET Nat, T # {}
  PROVE  \E n \in T : \A k \in T : n <= k
<1>1. PICK R : R = OpToRel(<, Nat)
  OBVIOUS
<1>2. IsWellFoundedOn(R, Nat)
  BY <1>1, NatLessThanWellFounded
<1>3. PICK n \in T : \A k \in T : <<k, n>> \notin R
  BY <1>2, WFMin
<1>4. \A k \in T : k < n => <<k, n>> \in R
  BY <1>1 DEF OpToRel
<1>5. ASSUME NEW k \in T PROVE n <= k
  <2>1. k \in Nat /\ n \in Nat
    OBVIOUS
  <2>2. ~(k < n)
    BY <1>3, <1>4
  <2>3. QED BY <2>1, <2>2
<1>6. QED BY <1>5

\* What may be remembered when only blobs of B may.
Memory(B) == {a \in Seq(Blobs) : Len(a) <= AttestMax /\ Entries(a) \subseteq B}

LEMMA AddKeeps ==
  ASSUME NEW B \in SUBSET Blobs, NEW a \in Memory(B), NEW b \in B
  PROVE  add(a, b) \in Memory(B)
<1> USE DockerAssumption
<1>1. a \in Seq(Blobs) /\ Len(a) \in Nat /\ Len(a) <= AttestMax /\ \A i \in 1 .. Len(a) : a[i] \in B
  BY DEF Memory, Entries
<1>2. ASSUME NEW c \in Seq(Blobs), Len(c) < AttestMax, \A i \in 1 .. Len(c) : c[i] \in B
      PROVE  Append(c, b) \in Memory(B)
  <2>1. Append(c, b) \in Seq(Blobs) /\ Len(Append(c, b)) = Len(c) + 1
    OBVIOUS
  <2>2. \A i \in 1 .. Len(c) + 1 : Append(c, b)[i] \in B
    BY <1>2
  <2>3. PICK d \in Seq(Blobs) : d = Append(c, b)
    BY <2>1
  <2>4. DOMAIN d = 1 .. Len(c) + 1 /\ Len(d) <= AttestMax
    BY <1>2, <2>1, <2>3
  <2>5. Entries(d) \subseteq B
    BY <2>2, <2>3, <2>4 DEF Entries
  <2>6. QED BY <2>3, <2>4, <2>5 DEF Memory
<1>3. CASE b \in Entries(a)
  BY <1>3 DEF add
<1>4. CASE b \notin Entries(a) /\ Len(a) >= AttestMax
  <2>1. a # << >> /\ Len(a) = AttestMax
    BY <1>1, <1>4
  <2>2. Tail(a) \in Seq(Blobs) /\ Len(Tail(a)) = Len(a) - 1 /\ \A i \in 1 .. Len(a) - 1 : Tail(a)[i] = a[i + 1]
    BY <1>1, <2>1
  <2>3. Len(Tail(a)) < AttestMax /\ \A i \in 1 .. Len(Tail(a)) : Tail(a)[i] \in B
    BY <1>1, <2>1, <2>2
  <2>4. QED BY <1>2, <1>4, <2>2, <2>3 DEF add
<1>5. CASE b \notin Entries(a) /\ ~(Len(a) >= AttestMax)
  BY <1>1, <1>2, <1>5 DEF add
<1>6. QED BY <1>3, <1>4, <1>5

\* The blobs of a manifest are remembered one by one, and each time there is
\* room for what is.
LEMMA RememberKeeps ==
  ASSUME NEW B \in SUBSET Blobs, attest \in Memory(B), NEW m \in Manifests, Entries(Layers[m]) \subseteq B,
         remember(m)
  PROVE  attest' \in Memory(B)
<1> DEFINE ls == Layers[m]
           N == Len(ls)
           Upto(n, f) == f = [k \in 0 .. n |-> IF k = 0 THEN attest ELSE add(f[k - 1], ls[k])]
<1>1. N \in Nat /\ \A k \in 1 .. N : ls[k] \in B
  BY DockerAssumption DEF Entries
<1>2. \A n \in 0 .. N : \E f : Upto(n, f)
  <2> DEFINE T == {n \in 0 .. N : ~\E f : Upto(n, f)}
  <2>1. SUFFICES ASSUME T # {} PROVE FALSE
    OBVIOUS
  <2>2. PICK n \in T : \A k \in T : n <= k
    <3>1. T \in SUBSET Nat
      OBVIOUS
    <3>2. QED BY <2>1, <3>1, LeastNumber
  <2>3. n # 0
    <3>1. Upto(0, [k \in 0 .. 0 |-> attest])
      OBVIOUS
    <3>2. QED BY <2>2, <3>1
  <2>4. n - 1 \in 0 .. N /\ n - 1 \notin T
    <3>1. n \in 0 .. N
      OBVIOUS
    <3> HIDE DEF T
    <3>2. n - 1 \in 0 .. N
      BY <1>1, <2>3, <3>1
    <3>3. n - 1 \in T => n <= n - 1
      BY <2>2
    <3>4. QED BY <3>1, <3>2, <3>3
  <2>5. PICK f : Upto(n - 1, f)
    BY <2>4
  <2>6. PICK g : g = [k \in 0 .. n |-> IF k = n THEN add(f[n - 1], ls[n]) ELSE f[k]]
    OBVIOUS
  <2>7. \A k \in 0 .. n : g[k] = IF k = 0 THEN attest ELSE add(g[k - 1], ls[k])
    BY <2>2, <2>3, <2>5, <2>6
  <2>8. Upto(n, g)
    BY <2>6, <2>7
  <2>9. QED BY <2>2, <2>8
<1>3. PICK F : F = CHOOSE f : Upto(N, f)
  OBVIOUS
<1>4. Upto(N, F)
  <2>1. \E f : Upto(N, f)
    BY <1>1, <1>2
  <2> HIDE DEF Upto
  <2>2. QED BY <1>3, <2>1
<1>5. attest' = F[N]
  BY <1>3 DEF remember
<1>6. \A n \in 0 .. N : F[n] \in Memory(B)
  <2> DEFINE T == {n \in 0 .. N : F[n] \notin Memory(B)}
  <2>1. SUFFICES ASSUME T # {} PROVE FALSE
    OBVIOUS
  <2>2. PICK n \in T : \A k \in T : n <= k
    <3>1. T \in SUBSET Nat
      OBVIOUS
    <3>2. QED BY <2>1, <3>1, LeastNumber
  <2>3. n # 0
    BY <1>4, <2>2
  <2>4. n - 1 \in 0 .. N /\ F[n - 1] \in Memory(B) /\ ls[n] \in B
    BY <1>1, <2>2, <2>3
  <2>5. F[n] = add(F[n - 1], ls[n])
    BY <1>4, <2>2, <2>3
  <2>6. QED BY <2>2, <2>4, <2>5, AddKeeps
<1>7. QED BY <1>1, <1>5, <1>6

Attestable == {b \in Blobs : \E m \in Manifests : Kind[m] = "attest" /\ b \in Entries(Layers[m])}

\* A clean blob was scanned, and so was the one a leader is about to store.
Gated ==
  /\ blob \in [Blobs -> {"none", "clean", "bad"}]
  /\ scanned \in SUBSET Blobs
  /\ since \in [Manifests -> SUBSET Blobs]
  /\ attest \in Memory(Attestable)
  /\ \A b \in Blobs : blob[b] = "clean" => b \in scanned
  /\ \A q \in Requests : mpc[q] = "put_blob" => Layers[man[q]][next[q]] \in scanned

NoNewBytes ==
  \A w \in Requests : mpc'[w] = "put_blob" => mpc[w] = "put_blob" /\ man'[w] = man[w] /\ next'[w] = next[w]

LEMMA GatedSame ==
  ASSUME Gated, NoNewBytes, UNCHANGED <<blob, attest, scanned>>, since' \in [Manifests -> SUBSET Blobs]
  PROVE  Gated'
BY DEF Gated, NoNewBytes

LEMMA GotoBytes ==
  ASSUME Crew, NEW q \in Requests, NEW l, l # "put_blob", Goto(q, l), NEW m, man' = [man EXCEPT ![q] = m],
         UNCHANGED next
  PROVE  NoNewBytes
BY DEF Crew, CrewType, Goto, NoNewBytes

LEMMA ProceedBytes ==
  ASSUME Crew, NEW q \in Requests, NEW l, l # "put_blob", NEW k, Proceed(q, l, k)
  PROVE  NoNewBytes
BY DEF Crew, CrewType, Proceed, Goto, NoNewBytes

LEMMA LandBytes ==
  ASSUME Crew, NEW q \in Requests, NEW a, Land(q, a)
  PROVE  NoNewBytes
BY DEF Crew, CrewType, Land, Return, NoNewBytes

LEMMA ResetBytes ==
  ASSUME NEW S \in SUBSET Requests, Reset(S)
  PROVE  NoNewBytes
BY DEF Reset, NoNewBytes
-----------------------------------------------------------------------------
(* The steps *)

IInv == Crew /\ StoreInv /\ AnswerInv /\ Gated

LEMMA InitInv == Init => IInv
<1> SUFFICES ASSUME Init PROVE IInv
  OBVIOUS
<1>1. Crew
  BY DEF Init, Crew, CrewType, HasManifest, Led, InLayers, PCs, Named, Evaluating
<1>2. StoreInv /\ AnswerInv
  BY DEF Init, StoreInv, AnswerInv, AnswerType, OldSound, ResSound
<1>3. << >> \in Memory(Attestable)
  BY DockerAssumption DEF Memory, Entries
<1>4. Gated
  BY <1>3 DEF Init, Gated
<1>5. QED BY <1>1, <1>2, <1>4 DEF IInv

LEMMA ArriveInv ==
  ASSUME IInv, NEW q \in Requests, NEW m \in Manifests, NEW tagged \in BOOLEAN, Arrive(q, m, tagged)
  PROVE  IInv'
<1> USE DEF IInv
<1> DEFINE l == IF tagged THEN "fetch" ELSE "fast"
<1>0. mpc[q] = "idle" /\ Goto(q, l) /\ old[q] = None
  BY DEF Arrive, AnswerInv, OldSound
<1>1. Crew'
  <2>1. mpc[q] \notin Evaluating \cup {"wait"} /\ l \in {"fast", "fetch", "check", "pass", "join", "reply"}
    BY <1>0 DEF Evaluating
  <2>2. PICK n \in Manifests \cup {None} : n = IF tagged THEN None ELSE m
    OBVIOUS
  <2>3. l \in Named \/ (l = "fetch" /\ ~tagged) => n \in Manifests
    BY <2>2 DEF Named, Evaluating
  <2>4. man' = [man EXCEPT ![q] = n] /\ byTag' = [byTag EXCEPT ![q] = tagged] /\ UNCHANGED <<flight, next, gone>>
    BY <2>2 DEF Arrive
  <2> HIDE DEF l
  <2>5. QED BY <1>0, <2>1, <2>3, <2>4, CrewGoto
<1>2. StoreInv'
  BY DEF Arrive, StoreInv, storeVars
<1>3. AnswerInv'
  <2>1. mpc'[q] \notin {"idle", "reply"} /\ old' = old /\ res' = res /\ excused' = excused
    BY <1>0 DEF Arrive, Goto, Crew, CrewType
  <2>2. \A w \in Requests : w # q => mpc'[w] = mpc[w] /\ man'[w] = man[w] /\ barred'[w] = barred[w]
    BY DEF Arrive, Goto, Crew, CrewType, StoreInv
  <2>3. QED BY <1>0, <2>1, <2>2 DEF AnswerInv, AnswerType, OldSound, ResSound
<1>4. Gated'
  <2>1. NoNewBytes
    BY <1>0 DEF Arrive, Goto, Crew, CrewType, NoNewBytes
  <2>2. QED BY <2>1, GatedSame DEF Arrive, storeVars, scanVars, Gated
<1>5. QED BY <1>1, <1>2, <1>3, <1>4

\* What a usable verdict is worth to q.
LEMMA CachedGood ==
  ASSUME IInv, NEW q \in Requests, man[q] \in Manifests, Usable(verdict[man[q]]), NEW body \in BOOLEAN
  PROVE  /\ Cached(verdict[man[q]], body) \in Answer
         /\ Cached(verdict[man[q]], body).ok => man[q] \in Manifests \ barred[q]
         /\ verdict[man[q]].fresh => ~Cached(verdict[man[q]], body).stale
<1>1. verdict[man[q]] \in Verdict
  BY DEF IInv, StoreInv, Usable
<1>2. verdict[man[q]].ok => man[q] \notin barred[q]
  BY DEF IInv, StoreInv, Usable
<1>3. QED BY <1>1, <1>2, CachedAnswer

\* A step outside a flight that keeps the manifest and the store.
LEMMA AloneInv ==
  ASSUME IInv, NEW q \in Requests, mpc[q] \notin Evaluating \cup {"wait"}, AnswerInv',
         NEW l \in {"fetch", "check", "pass", "join", "reply"}, Goto(q, l),
         l \in Named \/ (l = "fetch" /\ ~byTag[q]) => man[q] \in Manifests,
         UNCHANGED <<storeVars, attest, flight, byTag, man, next, gone, scanVars, blocked, barred>>
  PROVE  IInv'
<1> USE DEF IInv
<1>1. man' = [man EXCEPT ![q] = man[q]] /\ byTag' = [byTag EXCEPT ![q] = byTag[q]]
  BY DEF Crew, CrewType
<1>2. man[q] \in Manifests \cup {None} /\ byTag[q] \in BOOLEAN
  BY DEF Crew, CrewType
<1>3. Crew'
  BY <1>1, <1>2, CrewGoto
<1>4. NoNewBytes
  BY <1>1, GotoBytes
<1>5. Gated'
  BY <1>4, GatedSame DEF Gated, storeVars, scanVars
<1>6. QED BY <1>3, <1>5, StoreSame DEF storeVars

LEMMA FastPathInv == ASSUME IInv, NEW q \in Requests, FastPath(q) PROVE IInv'
<1> USE DEF IInv
<1>0. mpc[q] = "fast" /\ mpc[q] \notin Evaluating \cup {"wait"} /\ man[q] \in Manifests
  BY DEF FastPath, Crew, HasManifest, Named, Evaluating
<1>1. UNCHANGED <<storeVars, attest, flight, byTag, man, next, gone, scanVars, blocked, barred, excused>>
  BY DEF FastPath, judgeVars
<1>2. man' = [man EXCEPT ![q] = man[q]] /\ old = [old EXCEPT ![q] = old[q]] /\ old[q] \in Answer \cup {None}
  BY <1>1 DEF Crew, CrewType, AnswerInv, AnswerType
<1>3. \A w \in Requests : barred'[w] \subseteq barred[w] /\ (excused[w] => excused'[w])
  BY <1>1
<1>4. excused' \in [Requests -> BOOLEAN] /\ barred'[q] = barred[q]
  BY <1>1 DEF AnswerInv, AnswerType
<1>5. ASSUME NEW body \in BOOLEAN, Usable(verdict[man[q]]), verdict[man[q]].fresh,
             Decide(q, Cached(verdict[man[q]], body))
      PROVE  IInv'
  <2>1. AnswerInv'
    BY <1>0, <1>1, <1>3, <1>4, <1>5, CachedGood, AnswerDecide
  <2>2. QED BY <1>0, <1>1, <1>5, <2>1, AloneInv DEF Decide, Named
<1>6. ASSUME NEW body \in BOOLEAN, Usable(verdict[man[q]]), Goto(q, "fetch"),
             old' = [old EXCEPT ![q] = Cached(verdict[man[q]], body)], UNCHANGED res
      PROVE  IInv'
  <2>1. AnswerInv'
    BY <1>0, <1>1, <1>2, <1>3, <1>4, <1>6, CachedGood, AnswerGoto
  <2>2. QED BY <1>0, <1>1, <1>6, <2>1, AloneInv
<1>7. ASSUME Goto(q, "fetch"), UNCHANGED <<old, res>> PROVE IInv'
  <2>1. old[q] # None /\ old[q].ok => man[q] \in Manifests \ barred'[q]
    BY <1>4 DEF AnswerInv, OldSound
  <2>2. AnswerInv'
    BY <1>0, <1>1, <1>2, <1>3, <1>7, <2>1, AnswerGoto
  <2>3. QED BY <1>0, <1>1, <1>7, <2>2, AloneInv
<1>8. QED BY <1>5, <1>6, <1>7 DEF FastPath

LEMMA FetchManifestInv ==
  ASSUME IInv, NEW q \in Requests, NEW m \in Manifests, FetchManifest(q, m)
  PROVE  IInv'
<1> USE DEF IInv
<1>0. mpc[q] = "fetch" /\ mpc[q] \notin Evaluating \cup {"wait"}
  BY DEF FetchManifest, Evaluating
<1>1. /\ Goto(q, "check") /\ man' = [man EXCEPT ![q] = m] /\ byTag' = [byTag EXCEPT ![q] = FALSE]
      /\ old' = [old EXCEPT ![q] = None]
      /\ UNCHANGED <<verdict, blob, attest, flight, next, res, gone, scanned, since, blocked, barred, excused>>
  BY DEF FetchManifest, storeVars, scanVars, judgeVars
<1>2. Crew'
  BY <1>0, <1>1, CrewGoto
<1>3. StoreInv' /\ \A w \in Requests : barred'[w] \subseteq barred[w]
  BY <1>1, StoreSame
<1>4. AnswerInv'
  BY <1>0, <1>1, <1>3, AnswerGoto
<1>5. NoNewBytes
  BY <1>1, GotoBytes
<1>6. Gated'
  BY <1>1, <1>5, GatedSame DEF Gated
<1>7. QED BY <1>2, <1>3, <1>4, <1>6

LEMMA FetchFailsInv == ASSUME IInv, NEW q \in Requests, FetchFails(q) PROVE IInv'
<1> USE DEF IInv
<1>0. mpc[q] = "fetch" /\ mpc[q] \notin Evaluating \cup {"wait"}
  BY DEF FetchFails, Evaluating
<1>1. UNCHANGED <<storeVars, attest, flight, byTag, man, next, gone, scanVars, blocked, barred>>
  BY DEF FetchFails
<1>2. PICK a \in Answer : Decide(q, a) /\ (a.ok => a = old[q] /\ old[q] # None)
  BY ErrorAnswer DEF FetchFails, AnswerInv, AnswerType
<1>3. /\ excused' \in [Requests -> BOOLEAN] /\ excused'[q]
      /\ \A w \in Requests : barred'[w] \subseteq barred[w] /\ (excused[w] => excused'[w])
  BY <1>1 DEF FetchFails, AnswerInv, AnswerType
<1>4. a.ok => man[q] \in Manifests \ barred'[q]
  BY <1>1, <1>2 DEF AnswerInv, OldSound
<1>5. AnswerInv'
  BY <1>1, <1>2, <1>3, <1>4, AnswerDecide
<1>6. QED BY <1>0, <1>1, <1>2, <1>5, AloneInv DEF Decide, Named, Evaluating

LEMMA CachedVerdictInv == ASSUME IInv, NEW q \in Requests, CachedVerdict(q) PROVE IInv'
<1> USE DEF IInv
<1>0. mpc[q] = "check" /\ mpc[q] \notin Evaluating \cup {"wait"} /\ man[q] \in Manifests
  BY DEF CachedVerdict, Crew, HasManifest, Named, Evaluating
<1>1. UNCHANGED <<storeVars, attest, flight, byTag, man, next, gone, scanVars, blocked, barred, excused>>
  BY DEF CachedVerdict, judgeVars
<1>2. man' = [man EXCEPT ![q] = man[q]] /\ old = [old EXCEPT ![q] = old[q]] /\ old[q] \in Answer \cup {None}
  BY <1>1 DEF Crew, CrewType, AnswerInv, AnswerType
<1>3. \A w \in Requests : barred'[w] \subseteq barred[w] /\ (excused[w] => excused'[w])
  BY <1>1
<1>4. excused' \in [Requests -> BOOLEAN] /\ barred'[q] = barred[q]
  BY <1>1 DEF AnswerInv, AnswerType
<1>5. ASSUME NEW body \in BOOLEAN, Usable(verdict[man[q]]), verdict[man[q]].fresh,
             Decide(q, Cached(verdict[man[q]], body))
      PROVE  IInv'
  <2>1. AnswerInv'
    BY <1>0, <1>1, <1>3, <1>4, <1>5, CachedGood, AnswerDecide
  <2>2. QED BY <1>0, <1>1, <1>5, <2>1, AloneInv DEF Decide, Named
<1>6. ASSUME Onward(q),
             \/ UNCHANGED old
             \/ \E body \in BOOLEAN : Usable(verdict[man[q]]) /\ old' = [old EXCEPT ![q] = Cached(verdict[man[q]], body)]
      PROVE  IInv'
  <2>1. PICK l \in {"join", "pass"} : Goto(q, l) /\ res' = res
    BY <1>6 DEF Onward
  <2>2. PICK o \in Answer \cup {None} : old' = [old EXCEPT ![q] = o] /\ (o # None /\ o.ok => man[q] \in Manifests \ barred'[q])
    BY <1>0, <1>2, <1>4, <1>6, CachedGood DEF AnswerInv, OldSound
  <2>3. AnswerInv'
    BY <1>1, <1>2, <1>3, <2>1, <2>2, AnswerGoto
  <2>4. QED BY <1>0, <1>1, <2>1, <2>3, AloneInv
<1>7. QED BY <1>5, <1>6 DEF CachedVerdict

LEMMA PassthroughInv == ASSUME IInv, NEW q \in Requests, passthrough(q) PROVE IInv'
<1> USE DEF IInv
<1>0. mpc[q] = "pass" /\ mpc[q] \notin Evaluating \cup {"wait"} /\ man[q] \in Manifests
  BY DEF passthrough, Crew, HasManifest, Named, Evaluating
<1>1. PICK worked \in BOOLEAN, body \in BOOLEAN :
        /\ CacheVerdict(man[q], TRUE, "passthrough", worked)
        /\ Decide(q, IF worked THEN Verdicted(TRUE, "passthrough", body) ELSE Error("error"))
  BY DEF passthrough
<1>2. UNCHANGED <<blob, attest, flight, byTag, man, next, gone, scanned, excused>>
  BY DEF passthrough
<1>3. /\ StoreInv' /\ since' \in [Manifests -> SUBSET Blobs]
      /\ \A w \in Requests : barred'[w] \subseteq barred[w]
      /\ worked => man[q] \notin barred'[q]
  BY <1>0, <1>1, StoreVerdict DEF Reasons, Gated
<1>4. PICK a \in Answer : Decide(q, a) /\ (a.ok => worked) /\ ~a.stale
  BY <1>1, ErrorAnswer, VerdictAnswer DEF Reasons, Errors
<1>5. AnswerInv'
  BY <1>0, <1>2, <1>3, <1>4, AnswerDecide DEF AnswerInv, AnswerType
<1>6. man' = [man EXCEPT ![q] = man[q]] /\ byTag' = [byTag EXCEPT ![q] = byTag[q]] /\ byTag[q] \in BOOLEAN
  BY <1>2 DEF Crew, CrewType
<1>7. Goto(q, "reply")
  BY <1>4 DEF Decide
<1>8. Crew'
  BY <1>0, <1>2, <1>6, <1>7, CrewGoto
<1>9. Gated'
  BY <1>2, <1>3, <1>6, <1>7, GotoBytes, GatedSame
<1>10. QED BY <1>3, <1>5, <1>8, <1>9

LEMMA JoinInv == ASSUME IInv, NEW q \in Requests, Join(q) PROVE IInv'
<1> USE DEF IInv
<1>1. UNCHANGED <<verdict, blob, attest, byTag, man, old, next, res, gone, scanned, since, blocked, barred, excused>>
  BY DEF Join, storeVars, scanVars, judgeVars
<1>2. \A w \in Requests : mpc'[w] = mpc[w] \/ mpc'[w] \in {"checks", "wait"}
  BY DEF Join, Goto, Crew, CrewType
<1>3. AnswerInv'
  BY <1>1, <1>2 DEF AnswerInv, AnswerType, OldSound, ResSound
<1>4. Gated'
  BY <1>1, <1>2 DEF Gated
<1>5. QED BY <1>1, <1>3, <1>4, CrewJoin, StoreSame

LEMMA GatedStep ==
  ASSUME Gated, NoNewBytes, blob' \in [Blobs -> {"none", "clean", "bad"}],
         \A b \in Blobs : blob'[b] = "clean" => b \in scanned,
         UNCHANGED <<attest, scanned>>, since' \in [Manifests -> SUBSET Blobs]
  PROVE  Gated'
BY DEF Gated, NoNewBytes

\* A flight ends with a, or goes on at l; what the store and the blobs are
\* after the step is known.
LEMMA LandInv ==
  ASSUME IInv, NEW q \in Requests, mpc[q] \in Evaluating, NEW a \in Answer, Land(q, a), ~a.stale,
         StoreInv', \A w \in Requests : barred'[w] \subseteq barred[w],
         a.ok => \A w \in Requests : man[q] \notin barred'[w],
         blob' \in [Blobs -> {"none", "clean", "bad"}], \A b \in Blobs : blob'[b] = "clean" => b \in scanned,
         UNCHANGED <<attest, scanned>>, since' \in [Manifests -> SUBSET Blobs]
  PROVE  IInv'
<1> USE DEF IInv
<1>1. Crew'
  BY CrewLand
<1>2. AnswerInv'
  BY AnswerLand
<1>3. NoNewBytes
  BY LandBytes
<1>4. Gated'
  BY <1>3, GatedStep
<1>5. QED BY <1>1, <1>2, <1>4

LEMMA ProceedInv ==
  ASSUME IInv, NEW q \in Requests, mpc[q] \in Evaluating,
         NEW l \in Evaluating \ {"put_blob"}, NEW k \in Nat, Proceed(q, l, k),
         l = "layer" => k > 0, l = "scan" => k \in 1 .. Len(Layers[man[q]]),
         StoreInv', \A w \in Requests : barred'[w] \subseteq barred[w],
         blob' \in [Blobs -> {"none", "clean", "bad"}], \A b \in Blobs : blob'[b] = "clean" => b \in scanned,
         UNCHANGED <<attest, scanned>>, since' \in [Manifests -> SUBSET Blobs]
  PROVE  IInv'
<1> USE DEF IInv
<1>1. Crew'
  BY CrewProceed
<1>2. AnswerInv'
  BY AnswerProceed
<1>3. NoNewBytes
  BY ProceedBytes
<1>4. Gated'
  BY <1>3, GatedStep
<1>5. QED BY <1>1, <1>2, <1>4

\* The store after a step of the pipeline that leaves it alone.
LEMMA QuietStore ==
  ASSUME IInv, UNCHANGED <<verdict, since, blocked, barred>>
  PROVE  /\ StoreInv' /\ since' \in [Manifests -> SUBSET Blobs]
         /\ \A w \in Requests : barred'[w] \subseteq barred[w]
BY StoreSame DEF IInv, Gated

LEMMA QuietBlobs ==
  ASSUME IInv, UNCHANGED blob
  PROVE  blob' \in [Blobs -> {"none", "clean", "bad"}] /\ \A b \in Blobs : blob'[b] = "clean" => b \in scanned
BY DEF IInv, Gated

LEMMA ImageChecksInv == ASSUME IInv, NEW q \in Requests, ImageChecks(q) PROVE IInv'
<1>0. mpc[q] \in Evaluating /\ UNCHANGED <<verdict, blob, attest, scanned, since, blocked, barred>>
  BY DEF ImageChecks, storeVars, scanVars, Evaluating
<1> USE QuietStore, QuietBlobs
<1>1. CASE Land(q, Error("error"))
  BY <1>0, <1>1, LandInv, ErrorAnswer DEF Errors
<1>2. CASE Land(q, Verdicted(FALSE, "supply", FALSE))
  BY <1>0, <1>2, LandInv, VerdictAnswer DEF Reasons
<1>3. CASE Proceed(q, "put_block", 0)
  BY <1>0, <1>3, ProceedInv DEF Evaluating
<1>4. CASE Proceed(q, IF HasAV THEN "layer" ELSE "put_clean", 1)
  <2>1. PICK l \in {"layer", "put_clean"} : Proceed(q, l, 1)
    BY <1>4
  <2>2. QED BY <1>0, <2>1, ProceedInv DEF Evaluating
<1>5. QED BY <1>1, <1>2, <1>3, <1>4 DEF ImageChecks

LEMMA LayerCachedInv == ASSUME IInv, NEW q \in Requests, LayerCached(q) PROVE IInv'
<1>0. /\ mpc[q] \in Evaluating /\ UNCHANGED <<verdict, blob, attest, scanned, since, blocked, barred>>
      /\ next[q] \in Nat /\ next[q] > 0 /\ man[q] \in Manifests
  BY DEF LayerCached, storeVars, scanVars, Evaluating, IInv, Crew, CrewType, InLayers, HasManifest, Named
<1>1. Len(Layers[man[q]]) \in Nat
  BY <1>0, DockerAssumption
<1> USE QuietStore, QuietBlobs
<1>2. CASE Proceed(q, "put_clean", 0)
  BY <1>0, <1>2, ProceedInv DEF Evaluating
<1>3. CASE Proceed(q, "layer", next[q] + 1)
  BY <1>0, <1>3, ProceedInv DEF Evaluating
<1>4. CASE Proceed(q, "put_block", next[q])
  BY <1>0, <1>4, ProceedInv DEF Evaluating
<1>5. CASE next[q] <= Len(Layers[man[q]]) /\ Proceed(q, "scan", next[q])
  <2>1. next[q] \in 1 .. Len(Layers[man[q]])
    BY <1>0, <1>1, <1>5
  <2>2. QED BY <1>0, <1>5, <2>1, ProceedInv DEF Evaluating
<1>6. QED BY <1>2, <1>3, <1>4, <1>5 DEF LayerCached

\* The blob a leader scans or stores.
LEMMA CurrentBlob ==
  ASSUME IInv, NEW q \in Requests, mpc[q] \in {"scan", "put_blob"}
  PROVE  /\ mpc[q] \in Evaluating /\ man[q] \in Manifests
         /\ next[q] \in 1 .. Len(Layers[man[q]]) /\ next[q] \in Nat
         /\ Layers[man[q]][next[q]] \in Blobs
<1>1. mpc[q] \in Evaluating /\ man[q] \in Manifests
  BY DEF IInv, Crew, HasManifest, Named, Evaluating
<1>2. next[q] \in 1 .. Len(Layers[man[q]]) /\ next[q] \in Nat
  BY DEF IInv, Crew, CrewType, InLayers
<1>3. Layers[man[q]] \in Seq(Blobs)
  BY <1>1, DockerAssumption
<1>4. QED BY <1>1, <1>2, <1>3

LEMMA ScanLayerInv == ASSUME IInv, NEW q \in Requests, ScanLayer(q) PROVE IInv'
<1> DEFINE b == Layers[man[q]][next[q]]
<1>0. mpc[q] = "scan" /\ UNCHANGED <<verdict, attest, blocked, barred>>
  BY DEF ScanLayer
<1>1. /\ mpc[q] \in Evaluating /\ man[q] \in Manifests
      /\ next[q] \in 1 .. Len(Layers[man[q]]) /\ next[q] \in Nat /\ b \in Blobs
  BY <1>0, CurrentBlob
<1> HIDE DEF b
<1>2. CASE Land(q, Error("error")) /\ UNCHANGED <<blob, scanVars>>
  BY <1>0, <1>1, <1>2, LandInv, ErrorAnswer, QuietStore, QuietBlobs DEF Errors, scanVars
<1>3. CASE Land(q, Verdicted(FALSE, "incomplete", FALSE)) /\ UNCHANGED <<blob, scanVars>>
  BY <1>0, <1>1, <1>3, LandInv, VerdictAnswer, QuietStore, QuietBlobs DEF Reasons, scanVars
<1>4. CASE (PutBlob(b, "bad") \/ UNCHANGED blob) /\ Proceed(q, "put_block", next[q]) /\ UNCHANGED scanVars
  <2>1. blob' \in [Blobs -> {"none", "clean", "bad"}] /\ \A c \in Blobs : blob'[c] = "clean" => c \in scanned
    BY <1>1, <1>4 DEF PutBlob, IInv, Gated
  <2>2. QED BY <1>0, <1>1, <1>4, <2>1, ProceedInv, QuietStore DEF Evaluating, scanVars
<1>5. CASE FoundClean(q, b) /\ UNCHANGED blob
  <2>1. Proceed(q, "put_blob", next[q]) /\ scanned' = scanned \cup {b}
    BY <1>5 DEF FoundClean
  <2>2. since' \in [Manifests -> SUBSET Blobs]
    BY <1>1, <1>5 DEF FoundClean, IInv, Gated
  <2>3. Crew'
    BY <1>1, <2>1, CrewProceed DEF IInv, Evaluating
  <2>4. StoreInv' /\ \A w \in Requests : barred'[w] \subseteq barred[w]
    BY <1>0, StoreSame DEF IInv
  <2>5. AnswerInv'
    BY <2>1, <2>4, AnswerProceed DEF IInv, Evaluating
  <2>6. \A w \in Requests : w # q => mpc'[w] = mpc[w]
    BY <2>1 DEF Proceed, Goto, IInv, Crew, CrewType
  <2>7. next' = next /\ man' = man
    BY <2>1 DEF Proceed, IInv, Crew, CrewType
  <2>8. \A w \in Requests : mpc'[w] = "put_blob" => Layers[man'[w]][next'[w]] \in scanned'
    BY <2>1, <2>6, <2>7 DEF IInv, Gated, b
  <2>9. Gated'
    BY <1>0, <1>1, <1>5, <2>1, <2>2, <2>8 DEF IInv, Gated
  <2>10. QED BY <2>3, <2>4, <2>5, <2>9 DEF IInv
<1>6. QED BY <1>2, <1>3, <1>4, <1>5 DEF ScanLayer, b

LEMMA PutLayerInv == ASSUME IInv, NEW q \in Requests, PutLayer(q) PROVE IInv'
<1> DEFINE b == Layers[man[q]][next[q]]
<1>0. mpc[q] = "put_blob" /\ UNCHANGED <<verdict, attest, scanned, since, blocked, barred>>
  BY DEF PutLayer, scanVars
<1>1. /\ mpc[q] \in Evaluating /\ man[q] \in Manifests /\ next[q] \in Nat /\ b \in Blobs
  BY <1>0, CurrentBlob
<1>2. b \in scanned
  BY <1>0 DEF IInv, Gated
<1> HIDE DEF b
<1>3. CASE PutBlob(b, "clean") /\ Proceed(q, "layer", next[q] + 1)
  <2>1. blob' \in [Blobs -> {"none", "clean", "bad"}] /\ \A c \in Blobs : blob'[c] = "clean" => c \in scanned
    BY <1>1, <1>2, <1>3 DEF PutBlob, IInv, Gated
  <2>2. next[q] + 1 \in Nat /\ next[q] + 1 > 0
    BY <1>1
  <2>3. QED BY <1>0, <1>1, <1>3, <2>1, <2>2, ProceedInv, QuietStore DEF Evaluating
<1>4. CASE Land(q, Error("error")) /\ UNCHANGED blob
  BY <1>0, <1>1, <1>4, LandInv, ErrorAnswer, QuietStore, QuietBlobs DEF Errors
<1>5. QED BY <1>3, <1>4 DEF PutLayer, b

LEMMA PutCleanInv == ASSUME IInv, NEW q \in Requests, PutClean(q) PROVE IInv'
<1>0. mpc[q] \in Evaluating /\ man[q] \in Manifests /\ UNCHANGED <<blob, attest, scanned>>
  BY DEF PutClean, IInv, Crew, HasManifest, Named, Evaluating
<1>1. PICK worked \in BOOLEAN, body \in BOOLEAN :
        /\ CacheVerdict(man[q], TRUE, "ok", worked)
        /\ Land(q, IF worked THEN Verdicted(TRUE, "ok", body) ELSE Error("error"))
  BY DEF PutClean
<1>2. /\ StoreInv' /\ since' \in [Manifests -> SUBSET Blobs]
      /\ \A w \in Requests : barred'[w] \subseteq barred[w]
      /\ worked => \A w \in Requests : man[q] \notin barred'[w]
  BY <1>0, <1>1, StoreVerdict DEF Reasons, Gated, IInv
<1>3. PICK a \in Answer : Land(q, a) /\ (a.ok => worked) /\ ~a.stale
  BY <1>1, ErrorAnswer, VerdictAnswer DEF Reasons, Errors
<1>4. QED BY <1>0, <1>2, <1>3, LandInv, QuietBlobs

LEMMA BlockedAnswer ==
  ASSUME NEW q \in Requests
  PROVE  Blocked(q) \in Answer /\ ~Blocked(q).ok /\ ~Blocked(q).stale /\ Blocked(q).why \in Reasons
BY DEF Blocked, Verdicted, Answer, Reasons

LEMMA PutBlockInv == ASSUME IInv, NEW q \in Requests, PutBlock(q) PROVE IInv'
<1>0. /\ mpc[q] \in Evaluating /\ man[q] \in Manifests /\ next[q] \in Nat
      /\ UNCHANGED <<blob, attest, scanned>> /\ AfterBlock(q)
  BY DEF PutBlock, IInv, Crew, CrewType, HasManifest, Named, Evaluating
<1>1. PICK worked \in BOOLEAN : CacheVerdict(man[q], FALSE, Blocked(q).why, worked)
  BY DEF PutBlock
<1>2. /\ StoreInv' /\ since' \in [Manifests -> SUBSET Blobs]
      /\ \A w \in Requests : barred'[w] \subseteq barred[w]
  BY <1>0, <1>1, StoreVerdict, BlockedAnswer DEF Gated, IInv
<1>3. CASE Proceed(q, "evict", next[q])
  BY <1>0, <1>2, <1>3, ProceedInv, QuietBlobs DEF Evaluating
<1>4. CASE Land(q, Blocked(q))
  BY <1>0, <1>2, <1>4, LandInv, QuietBlobs, BlockedAnswer
<1>5. QED BY <1>0, <1>3, <1>4 DEF AfterBlock

LEMMA EvictInv == ASSUME IInv, NEW q \in Requests, evictBlobs(q) PROVE IInv'
<1>0. mpc[q] \in Evaluating /\ UNCHANGED <<verdict, attest, scanned, since, blocked, barred>> /\ Land(q, Blocked(q))
  BY DEF evictBlobs, scanVars, Evaluating
<1>1. blob' \in [Blobs -> {"none", "clean", "bad"}] /\ \A b \in Blobs : blob'[b] = "clean" => b \in scanned
  BY DEF evictBlobs, IInv, Gated
<1>2. QED BY <1>0, <1>1, LandInv, QuietStore, BlockedAnswer

LEMMA ResetInv ==
  ASSUME IInv, NEW q \in Requests, mpc[q] = "reply", Reset({q}),
         UNCHANGED <<storeVars, flight, scanVars, blocked>>, attest' \in Memory(Attestable)
  PROVE  IInv'
<1> USE DEF IInv
<1>1. Crew' /\ StoreInv' /\ AnswerInv'
  BY CrewReset, StoreReset, AnswerReset DEF storeVars
<1>2. NoNewBytes
  BY ResetBytes
<1>3. Gated'
  BY <1>2 DEF Gated, NoNewBytes, storeVars, scanVars
<1>4. QED BY <1>1, <1>3

LEMMA ReplyInv == ASSUME IInv, NEW q \in Requests, Reply(q) PROVE IInv'
<1>1. attest' \in Memory(Attestable)
  <2>1. CASE UNCHANGED attest
    BY <2>1 DEF IInv, Gated
  <2>2. CASE res[q].ok /\ Kind[man[q]] = "attest" /\ remember(man[q])
    <3>1. man[q] \in Manifests
      BY <2>2 DEF Reply, IInv, AnswerInv, ResSound
    <3>2. Layers[man[q]] \in Seq(Blobs)
      BY <3>1, DockerAssumption
    <3>3. Entries(Layers[man[q]]) \subseteq Attestable
      BY <2>2, <3>1, <3>2 DEF Attestable, Entries
    <3>4. QED BY <2>2, <3>1, <3>3, RememberKeeps DEF IInv, Gated, Attestable
  <2>3. QED BY <2>1, <2>2 DEF Reply
<1>2. QED BY <1>1, ResetInv DEF Reply

LEMMA RecordInv == ASSUME IInv, NEW q \in Requests, recordWhenDone(q) PROVE IInv'
<1>1. attest' \in Memory(Attestable)
  BY DEF recordWhenDone, IInv, Gated
<1>2. QED BY <1>1, ResetInv DEF recordWhenDone

LEMMA RestartInv == ASSUME IInv, Restart PROVE IInv'
<1> USE DEF IInv
<1>1. Crew'
  BY CrewRestart
<1>2. StoreInv' /\ AnswerInv'
  BY StoreReset, AnswerReset DEF Restart, storeVars
<1>3. << >> \in Memory(Attestable)
  BY DockerAssumption DEF Memory, Entries
<1>4. NoNewBytes
  BY ResetBytes DEF Restart
<1>5. Gated'
  BY <1>3, <1>4 DEF Gated, NoNewBytes, Restart, storeVars, scanVars
<1>6. QED BY <1>1, <1>2, <1>5

LEMMA OtherInv ==
  ASSUME IInv, \/ Vanish \/ (\E m \in Manifests : Expire(m))
               \/ (\E q \in Requests : GiveUpWaiting(q)) \/ UNCHANGED vars
  PROVE  IInv'
<1> USE DEF IInv
<1>1. CASE Vanish
  <2>1. UNCHANGED <<attest, flight, mpc, byTag, man, old, next, res, gone, scanned, blocked, barred, excused>>
    BY <1>1 DEF Vanish, requestVars, judgeVars
  <2>2. Crew'
    BY <2>1, CrewSame DEF Crew, CrewType
  <2>3. AnswerInv'
    BY <2>1, AnswerSame
  <2>4. Gated'
    BY <1>1, <2>1 DEF Vanish, Gated
  <2>5. QED BY <1>1, <2>2, <2>3, <2>4, StoreVanish
<1>2. ASSUME NEW m \in Manifests, Expire(m) PROVE IInv'
  <2>1. UNCHANGED <<blob, attest, flight, mpc, byTag, man, old, next, res, gone, scanned, since, blocked, barred, excused>>
    BY <1>2 DEF Expire, requestVars, scanVars, judgeVars
  <2>2. Crew'
    BY <2>1, CrewSame DEF Crew, CrewType
  <2>3. AnswerInv'
    BY <2>1, AnswerSame
  <2>4. Gated'
    BY <2>1 DEF Gated
  <2>5. QED BY <1>2, <2>2, <2>3, <2>4, StoreExpire
<1>3. ASSUME NEW q \in Requests, GiveUpWaiting(q) PROVE IInv'
  <2>1. UNCHANGED <<verdict, blob, attest, flight, mpc, byTag, man, old, next, res, scanned, since, blocked, barred, excused>>
    BY <1>3 DEF GiveUpWaiting, storeVars, scanVars, judgeVars
  <2>2. gone' \in [Requests -> BOOLEAN]
    BY <1>3 DEF GiveUpWaiting, Crew, CrewType
  <2>3. Crew'
    BY <2>1, <2>2, CrewSame
  <2>4. Gated'
    BY <2>1 DEF Gated
  <2>5. QED BY <2>1, <2>3, <2>4, AnswerSame, StoreSame
<1>4. CASE UNCHANGED vars
  <2>1. UNCHANGED <<verdict, blob, attest, flight, mpc, byTag, man, old, next, res, gone, scanned, since, blocked, barred, excused>>
    BY <1>4 DEF vars, storeVars, requestVars, scanVars, judgeVars
  <2>2. Crew'
    BY <2>1, CrewSame DEF Crew, CrewType
  <2>3. Gated'
    BY <2>1 DEF Gated
  <2>4. QED BY <2>1, <2>2, <2>3, AnswerSame, StoreSame
<1>5. QED BY <1>1, <1>2, <1>3, <1>4

LEMMA IInvHolds == Spec => []IInv
<1>1. IInv /\ [Next]_vars => IInv'
  <2> SUFFICES ASSUME IInv, [Next]_vars PROVE IInv'
    OBVIOUS
  <2>1. ASSUME NEW q \in Requests, Work(q) PROVE IInv'
    BY <2>1, FastPathInv, FetchManifestInv, FetchFailsInv, CachedVerdictInv, PassthroughInv, JoinInv,
       ImageChecksInv, LayerCachedInv, ScanLayerInv, PutLayerInv, PutCleanInv, PutBlockInv, EvictInv,
       ReplyInv, RecordInv DEF Work
  <2>2. QED BY <2>1, ArriveInv, RestartInv, OtherInv DEF Next
<1>2. QED BY <1>1, InitInv, PTL DEF Spec
-----------------------------------------------------------------------------
(* Theorems *)

\* The gate's variables keep their types: the attestation blobs remembered
\* stay within AttestMax, for one (attestationBlobs.add).
THEOREM TypesHold == Spec => []TypeOK
<1>1. IInv => TypeOK
  BY DEF IInv, Crew, CrewType, StoreInv, AnswerInv, AnswerType, Gated, Memory, TypeOK
<1>2. QED BY <1>1, IInvHolds, PTL

\* A request that joined an evaluation waits for one that runs, and every
\* image has one leader (flights.Do).
THEOREM FlightsAttended == Spec => []Attended
<1>1. IInv => Attended
  BY DockerAssumption DEF IInv, Crew, CrewType, HasManifest, Named, Led, Attended
<1>2. QED BY <1>1, IInvHolds, PTL

\* A block that was stored lasts until an evaluation approves the manifest
\* (Evaluate, staleOr).
THEOREM BlocksHold == Spec => []BlockHolds
<1>1. IInv => BlockHolds
  <2> SUFFICES ASSUME IInv, NEW q \in Requests, Serves(q) PROVE man[q] \notin barred[q]
    BY DEF BlockHolds
  <2>1. mpc[q] = "reply" /\ res[q] \in Answer /\ Status(res[q], res[q].body) = 200
    BY DEF Serves, IInv, AnswerInv, ResSound
  <2>2. res[q].ok
    BY <2>1 DEF Status, Answer, Errors
  <2>3. QED BY <2>1, <2>2 DEF IInv, AnswerInv, ResSound
<1>2. QED BY <1>1, IInvHolds, PTL

\* An expired verdict serves only a request whose own evaluation met a failure
\* (staleOr, the by-digest fallback).
THEOREM StaleOnFailureOnly == Spec => []StaleOnlyOnFailure
<1>1. IInv => StaleOnlyOnFailure
  BY DEF IInv, AnswerInv, ResSound, StaleOnlyOnFailure, Serves
<1>2. QED BY <1>1, IInvHolds, PTL

\* Direct blob requests get only bytes that were scanned and found clean or
\* that belong to an attestation, and the memory of those is bounded
\* (serveBlob, attestationBlobs).
THEOREM BlobsGated == Spec => []BlobGated
<1>1. IInv => BlobGated
  BY DEF IInv, Gated, Memory, Attestable, BlobGated, serveBlob
<1>2. QED BY <1>1, IInvHolds, PTL
=============================================================================
