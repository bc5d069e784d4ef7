----------------------------- MODULE DockerGate -----------------------------
(***************************************************************************)
(* The Docker pull-through proxy: the manifest gate                        *)
(* (internal/proxy/dockerproxy/gate.go), its verdict store over the shared *)
(* cache (blobcache.go), the remembered attestation blobs                  *)
(* (attestation.go) and the handler around them (handler.go).              *)
(*                                                                         *)
(* A manifest stands for repo@digest, the key of verdicts and flights, and *)
(* a digest for its bytes.  A call of the store is one step, and an entry  *)
(* may vanish at any time: ArtifactCache has the steps of a call, of the   *)
(* eviction worker and of the console's clean-up.  What upstreams, Trivy,  *)
(* the malware engines and the policy answer is chosen when they are       *)
(* asked.  Time is the moment at which a verdict expires.                  *)
(*                                                                         *)
(* Left out: the tag index and the recorded events; HEAD, which differs    *)
(* from GET by not opening the file; the mirrors of a fetch                *)
(* (UpstreamFetch).                                                        *)
(***************************************************************************)
EXTENDS Integers, Sequences

CONSTANTS
  Manifests, Blobs,
  Kind,       \* of a manifest: "image", "index" or "attest"
  Layers,     \* of a manifest: its config and layers, in the order scanned
  Requests,   \* goroutines of manifest requests
  Wants,      \* what each may ask for: <<manifest, whether by tag>>
  HasAV,      \* whether malware engines are configured
  Rechecks,   \* whether verdicts expire: recheckTTL > 0
  AttestMax,  \* attestation blobs remembered
  ClientWait, \* whether a client is told to retry when a scan takes long
  None

ASSUME DockerAssumption ==
  /\ Kind \in [Manifests -> {"image", "index", "attest"}]
  /\ Layers \in [Manifests -> Seq(Blobs)]
  /\ Wants \in [Requests -> SUBSET (Manifests \X BOOLEAN)]
  /\ AttestMax \in Nat \ {0}
  /\ {HasAV, Rechecks, ClientWait} \subseteq BOOLEAN
  /\ None \notin Manifests \cup Requests

VARIABLES
  verdict,  \* the store: the verdict of a manifest, and whether it is fresh
  blob,     \* the store: "clean", "bad" or "none"
  attest,   \* attestation blobs remembered, oldest first
  flight,   \* the leader of a manifest's evaluation
  mpc,      \* where each request is
  byTag,    \* whether it names a tag
  man,      \* the manifest it is about
  old,      \* the expired verdict it may fall back to
  next,     \* the leader's next blob
  res,      \* what the gate answers
  gone,     \* whether the client was told to retry and has left
  blocked,  \* history: manifests whose last stored verdict is a block
  barred,   \* history: those when the request arrived, less the ones approved since
  excused,  \* history: whether the request's evaluation met a failure
  scanned,  \* history: the blobs ever found clean
  since     \* history: those of a manifest found clean since its verdict was stored

storeVars   == <<verdict, blob>>
requestVars == <<mpc, byTag, man, old, next, res, gone>>
scanVars    == <<scanned, since>>
judgeVars   == <<blocked, barred, excused>>
vars == <<storeVars, attest, flight, requestVars, scanVars, judgeVars>>

Reasons == {"ok", "passthrough", "cve", "malware", "supply", "incomplete"}
Errors == {"error", "notfound"}
Verdict == [ok : BOOLEAN, why : Reasons, fresh : BOOLEAN]
Answer == [ok : BOOLEAN, why : Reasons \cup Errors, body : BOOLEAN, stale : BOOLEAN]
PCs == {"idle", "fast", "fetch", "check", "pass", "join", "wait", "checks", "layer",
        "scan", "put_blob", "put_clean", "put_block", "evict", "reply"}

TypeOK ==
  /\ verdict \in [Manifests -> Verdict \cup {None}]
  /\ blob \in [Blobs -> {"none", "clean", "bad"}]
  /\ attest \in Seq(Blobs) /\ Len(attest) <= AttestMax
  /\ flight \in [Manifests -> Requests \cup {None}]
  /\ mpc \in [Requests -> PCs]
  /\ byTag \in [Requests -> BOOLEAN]
  /\ man \in [Requests -> Manifests \cup {None}]
  /\ old \in [Requests -> Answer \cup {None}]
  /\ next \in [Requests -> Nat]
  /\ res \in [Requests -> Answer \cup {None}]
  /\ gone \in [Requests -> BOOLEAN]
  /\ blocked \in SUBSET Manifests
  /\ barred \in [Requests -> SUBSET Manifests]
  /\ excused \in [Requests -> BOOLEAN]
  /\ scanned \in SUBSET Blobs
  /\ since \in [Manifests -> SUBSET Blobs]

Entries(seq) == {seq[i] : i \in DOMAIN seq}

Goto(q, l) == mpc' = [mpc EXCEPT ![q] = l]

\* The gate's answer for q; the handler is next.
Decide(q, a) ==
  /\ Goto(q, "reply")
  /\ res' = [res EXCEPT ![q] = a]
  /\ old' = [old EXCEPT ![q] = None]

Error(why) == [ok |-> FALSE, why |-> why, body |-> FALSE, stale |-> FALSE]

\* A verdict of the store, with its manifest's body if that can be read too.
Cached(v, body) == [ok |-> v.ok, why |-> v.why, body |-> v.ok /\ body, stale |-> ~v.fresh]

\* What the current evaluation decides.
Verdicted(ok, why, body) == [ok |-> ok, why |-> why, body |-> body, stale |-> FALSE]
-----------------------------------------------------------------------------
(* The verdict store *)

\* What is known once a verdict on m is stored.
Judged(m, ok) ==
  /\ since' = [since EXCEPT ![m] = {}]
  /\ blocked' = IF ok THEN blocked \ {m} ELSE blocked \cup {m}
  /\ barred' = IF ok THEN [q \in Requests |-> barred[q] \ {m}] ELSE barred

\* Mutant of CacheVerdict: an entry there is is only marked as checked.
CacheVerdictTouch(m, ok, why, worked) ==
  \/ /\ worked
     /\ verdict' = [verdict EXCEPT ![m] = IF @ = None THEN [ok |-> ok, why |-> why, fresh |-> TRUE]
                                          ELSE [@ EXCEPT !.fresh = TRUE]]
     /\ Judged(m, ok)
  \/ ~worked /\ UNCHANGED <<verdict, since, blocked, barred>>

\* cacheVerdict, and whether it worked; a failed Put leaves what there was.
CacheVerdict(m, ok, why, worked) ==
  \/ /\ worked
     /\ verdict' = [verdict EXCEPT ![m] = [ok |-> ok, why |-> why, fresh |-> TRUE]]
     /\ Judged(m, ok)
  \/ ~worked /\ UNCHANGED <<verdict, since, blocked, barred>>

PutBlob(b, is) == blob' = [blob EXCEPT ![b] = is]

\* A verdict that may be used.  A supply-chain hold was stored by an older
\* build and is evaluated again.
Usable(v) == v # None /\ (v.ok \/ v.why \in {"cve", "malware"})

\* The cache drops an entry.
Vanish ==
  /\ \/ \E m \in Manifests :
          /\ verdict[m] # None
          /\ verdict' = [verdict EXCEPT ![m] = None]
          /\ since' = [since EXCEPT ![m] = {}]
          /\ UNCHANGED blob
     \/ \E b \in Blobs :
          /\ blob[b] # "none"
          /\ blob' = [blob EXCEPT ![b] = "none"]
          /\ UNCHANGED <<verdict, since>>
  /\ UNCHANGED <<attest, flight, requestVars, scanned, judgeVars>>

\* The re-check interval of a verdict ends.
Expire(m) ==
  /\ Rechecks
  /\ verdict[m] # None /\ verdict[m].fresh
  /\ verdict' = [verdict EXCEPT ![m].fresh = FALSE]
  /\ UNCHANGED <<blob, attest, flight, requestVars, scanVars, judgeVars>>
-----------------------------------------------------------------------------
(* Evaluate *)

\* serveManifest starts an evaluation.
Arrive(q, m, tagged) ==
  /\ mpc[q] = "idle"
  /\ <<m, tagged>> \in Wants[q]
  /\ Goto(q, IF tagged THEN "fetch" ELSE "fast")
  /\ byTag' = [byTag EXCEPT ![q] = tagged]
  /\ man' = [man EXCEPT ![q] = IF tagged THEN None ELSE m]
  /\ barred' = [barred EXCEPT ![q] = blocked]
  /\ UNCHANGED <<storeVars, attest, flight, old, next, res, gone, scanVars, blocked, excused>>

\* A digest is looked up before the upstream is asked.  A clean verdict serves
\* only with its body, which may be gone or without a media type.
FastPath(q) ==
  LET v == verdict[man[q]] IN
  /\ mpc[q] = "fast"
  /\ \/ /\ Usable(v)
        /\ \E body \in BOOLEAN :
             LET servable == ~v.ok \/ body IN
             \/ servable /\ v.fresh /\ Decide(q, Cached(v, body))
             \/ servable /\ ~v.fresh /\ Goto(q, "fetch") /\ old' = [old EXCEPT ![q] = Cached(v, body)] /\ UNCHANGED res
             \/ ~servable /\ Goto(q, "fetch") /\ UNCHANGED <<old, res>>
     \/ ~Usable(v) /\ Goto(q, "fetch") /\ UNCHANGED <<old, res>>
  /\ UNCHANGED <<storeVars, attest, flight, byTag, man, next, gone, scanVars, judgeVars>>

\* FetchManifest; a tag names whatever manifest the upstream says.
FetchManifest(q, m) ==
  /\ mpc[q] = "fetch"
  /\ ~byTag[q] => m = man[q]
  /\ Goto(q, "check")
  /\ man' = [man EXCEPT ![q] = m]
  /\ byTag' = [byTag EXCEPT ![q] = FALSE]
  /\ old' = [old EXCEPT ![q] = None]
  /\ UNCHANGED <<storeVars, attest, flight, next, res, gone, scanVars, judgeVars>>

\* No upstream delivers: an expired verdict of a digest still serves.
FetchFails(q) ==
  /\ mpc[q] = "fetch"
  /\ \/ old[q] # None /\ Decide(q, old[q])
     \/ old[q] = None /\ \E why \in Errors : Decide(q, Error(why))
  /\ excused' = [excused EXCEPT ![q] = TRUE]
  /\ UNCHANGED <<storeVars, attest, flight, byTag, man, next, gone, scanVars, blocked, barred>>

\* Where a manifest without a usable verdict goes.
Onward(q) == Goto(q, IF Kind[man[q]] = "image" THEN "join" ELSE "pass") /\ UNCHANGED res

\* Mutant of CachedVerdict: a verdict does not expire.
CachedVerdictForever(q) ==
  LET v == verdict[man[q]] IN
  /\ mpc[q] = "check"
  /\ \/ Usable(v) /\ (\E body \in BOOLEAN : Decide(q, Cached(v, body)))
     \/ ~Usable(v) /\ Onward(q) /\ UNCHANGED old
  /\ UNCHANGED <<storeVars, attest, flight, byTag, man, next, gone, scanVars, judgeVars>>

\* The verdict of the manifest that was fetched.
CachedVerdict(q) ==
  LET v == verdict[man[q]] IN
  /\ mpc[q] = "check"
  /\ \/ /\ Usable(v)
        /\ \E body \in BOOLEAN :
             \/ v.fresh /\ Decide(q, Cached(v, body))
             \/ ~v.fresh /\ Onward(q) /\ old' = [old EXCEPT ![q] = Cached(v, body)]
     \/ ~Usable(v) /\ Onward(q) /\ UNCHANGED old
  /\ UNCHANGED <<storeVars, attest, flight, byTag, man, next, gone, scanVars, judgeVars>>

\* An index or attestation is stored and served without a gate; a store that
\* fails is an error even when there is an expired verdict.
passthrough(q) ==
  /\ mpc[q] = "pass"
  /\ \E worked, body \in BOOLEAN :
       /\ CacheVerdict(man[q], TRUE, "passthrough", worked)
       /\ Decide(q, IF worked THEN Verdicted(TRUE, "passthrough", body) ELSE Error("error"))
  /\ UNCHANGED <<blob, attest, flight, byTag, man, next, gone, scanned, excused>>

\* flights.Do: the first runs the pipeline, the others wait for it.
Join(q) ==
  /\ mpc[q] = "join"
  /\ \/ flight[man[q]] = None /\ flight' = [flight EXCEPT ![man[q]] = q] /\ Goto(q, "checks")
     \/ flight[man[q]] # None /\ UNCHANGED flight /\ Goto(q, "wait")
  /\ UNCHANGED <<storeVars, attest, byTag, man, old, next, res, gone, scanVars, judgeVars>>
-----------------------------------------------------------------------------
(* runPipeline, by the leader of a flight *)

Waiters(m) == {w \in Requests : mpc[w] = "wait" /\ man[w] = m}

\* Every request of the crew returns with a; staleOr gives each its own expired
\* verdict where the pipeline failed.
Return(q, crew, a) ==
  LET m == man[q]
      Gets(w) == IF a.why = "error" /\ old[w] # None THEN old[w] ELSE a
  IN /\ flight' = [flight EXCEPT ![m] = None]
     /\ mpc' = [w \in Requests |-> IF w \in crew THEN "reply" ELSE mpc[w]]
     /\ res' = [w \in Requests |-> IF w \in crew THEN Gets(w) ELSE res[w]]
     /\ old' = [w \in Requests |-> IF w \in crew THEN None ELSE old[w]]
     /\ next' = [next EXCEPT ![q] = 0]
     /\ excused' = [w \in Requests |-> excused[w] \/ (w \in crew /\ a.why = "error")]
     /\ UNCHANGED <<byTag, man, gone>>

\* Mutant of Land: those who wait are not told.
LandAlone(q, a) == Return(q, {q}, a)

\* The flight ends with a: the leader and those who wait return together.
Land(q, a) == Return(q, {q} \cup Waiters(man[q]), a)

\* The pipeline goes on.
Proceed(q, l, k) ==
  /\ Goto(q, l)
  /\ next' = [next EXCEPT ![q] = k]
  /\ UNCHANGED <<flight, byTag, man, old, res, gone, excused>>

\* The config's date against the age rule, then Trivy and the policy.
ImageChecks(q) ==
  /\ mpc[q] = "checks"
  /\ \/ Land(q, Error("error"))
     \/ Land(q, Verdicted(FALSE, "supply", FALSE))
     \/ Proceed(q, "put_block", 0)
     \/ Proceed(q, IF HasAV THEN "layer" ELSE "put_clean", 1)
  /\ UNCHANGED <<storeVars, attest, scanVars, blocked, barred>>

\* scanLayer takes a stored verdict on the blob as it is.
LayerCached(q) ==
  LET ls == Layers[man[q]]
      k == next[q]
  IN
  /\ mpc[q] = "layer"
  /\ \/ k > Len(ls) /\ Proceed(q, "put_clean", 0)
     \/ k <= Len(ls) /\ blob[ls[k]] = "clean" /\ Proceed(q, "layer", k + 1)
     \/ k <= Len(ls) /\ blob[ls[k]] = "bad" /\ Proceed(q, "put_block", k)
     \/ k <= Len(ls) /\ blob[ls[k]] = "none" /\ Proceed(q, "scan", k)
  /\ UNCHANGED <<storeVars, attest, scanVars, blocked, barred>>

\* The scan finds the blob clean; the leader keeps the bytes for put_blob.
FoundClean(q, b) ==
  /\ Proceed(q, "put_blob", next[q])
  /\ scanned' = scanned \cup {b}
  /\ since' = [m \in Manifests |->
                 IF verdict[m] # None /\ b \in Entries(Layers[m]) THEN since[m] \cup {b} ELSE since[m]]

\* Mutant of ScanLayer: a layer the engine could not scan in full passes.
ScanLayerLenient(q) ==
  LET b == Layers[man[q]][next[q]] IN
  /\ mpc[q] = "scan"
  /\ \/ Land(q, Error("error")) /\ UNCHANGED <<blob, scanVars>>
     \/ PutBlob(b, "bad") /\ Proceed(q, "put_block", next[q]) /\ UNCHANGED scanVars
     \/ Proceed(q, "put_blob", next[q]) /\ UNCHANGED <<blob, scanVars>>
     \/ FoundClean(q, b) /\ UNCHANGED blob
  /\ UNCHANGED <<verdict, attest, blocked, barred>>

\* It downloads and scans one that is not stored.  The download, the engine or
\* the store of an infected one fails; or the engine cannot scan it in full; or
\* it is infected, or larger than the limit, which blocks whether or not that
\* can be stored; or it is clean.
ScanLayer(q) ==
  LET b == Layers[man[q]][next[q]] IN
  /\ mpc[q] = "scan"
  /\ \/ Land(q, Error("error")) /\ UNCHANGED <<blob, scanVars>>
     \/ Land(q, Verdicted(FALSE, "incomplete", FALSE)) /\ UNCHANGED <<blob, scanVars>>
     \/ (PutBlob(b, "bad") \/ UNCHANGED blob) /\ Proceed(q, "put_block", next[q]) /\ UNCHANGED scanVars
     \/ FoundClean(q, b) /\ UNCHANGED blob
  /\ UNCHANGED <<verdict, attest, blocked, barred>>

PutLayer(q) ==
  LET b == Layers[man[q]][next[q]] IN
  /\ mpc[q] = "put_blob"
  /\ \/ PutBlob(b, "clean") /\ Proceed(q, "layer", next[q] + 1)
     \/ Land(q, Error("error")) /\ UNCHANGED blob
  /\ UNCHANGED <<verdict, attest, scanVars, blocked, barred>>

\* A clean image is served only when its verdict could be stored.
PutClean(q) ==
  /\ mpc[q] = "put_clean"
  /\ \E worked, body \in BOOLEAN :
       /\ CacheVerdict(man[q], TRUE, "ok", worked)
       /\ Land(q, IF worked THEN Verdicted(TRUE, "ok", body) ELSE Error("error"))
  /\ UNCHANGED <<blob, attest, scanned>>

Blocked(q) == Verdicted(FALSE, IF next[q] = 0 THEN "cve" ELSE "malware", FALSE)

\* The blobs go when the leader's own verdict had expired.
AfterBlock(q) == IF old[q] # None THEN Proceed(q, "evict", next[q]) ELSE Land(q, Blocked(q))

\* A block whose verdict cannot be stored is answered all the same.
PutBlock(q) ==
  /\ mpc[q] = "put_block"
  /\ \E worked \in BOOLEAN : CacheVerdict(man[q], FALSE, Blocked(q).why, worked)
  /\ AfterBlock(q)
  /\ UNCHANGED <<blob, attest, scanned>>

\* evictBlobs; an entry that cannot be removed stays.
evictBlobs(q) ==
  /\ mpc[q] = "evict"
  /\ \E lost \in SUBSET Entries(Layers[man[q]]) :
       blob' = [b \in Blobs |-> IF b \in lost THEN "none" ELSE blob[b]]
  /\ Land(q, Blocked(q))
  /\ UNCHANGED <<verdict, attest, scanVars, blocked, barred>>
-----------------------------------------------------------------------------
(* The handler *)

\* The goroutines of S are gone with what they kept.
Reset(S) ==
  /\ mpc' = [q \in Requests |-> IF q \in S THEN "idle" ELSE mpc[q]]
  /\ byTag' = [q \in Requests |-> q \notin S /\ byTag[q]]
  /\ man' = [q \in Requests |-> IF q \in S THEN None ELSE man[q]]
  /\ old' = [q \in Requests |-> IF q \in S THEN None ELSE old[q]]
  /\ next' = [q \in Requests |-> IF q \in S THEN 0 ELSE next[q]]
  /\ res' = [q \in Requests |-> IF q \in S THEN None ELSE res[q]]
  /\ gone' = [q \in Requests |-> q \notin S /\ gone[q]]
  /\ barred' = [q \in Requests |-> IF q \in S THEN {} ELSE barred[q]]
  /\ excused' = [q \in Requests |-> q \notin S /\ excused[q]]

\* attestationBlobs.add: the oldest goes when there is no room.
add(a, b) ==
  IF b \in Entries(a) THEN a
  ELSE Append(IF Len(a) >= AttestMax THEN Tail(a) ELSE a, b)

\* remember: every blob of the manifest, in one step.
remember(m) ==
  LET After[k \in 0 .. Len(Layers[m])] == IF k = 0 THEN attest ELSE add(After[k - 1], Layers[m][k])
  IN attest' = After[Len(Layers[m])]

\* The client's status.  502 stands for 429 and 503 of a throttling upstream
\* too; opened: the manifest's file could be opened.
Status(a, opened) ==
  CASE a.why = "notfound" -> 404
    [] a.why = "error" -> 502
    [] a.why \in Reasons /\ ~a.ok -> 403
    [] a.why \in Reasons /\ a.ok /\ opened -> 200
    [] OTHER -> 500

\* Whether the client of q may be given the manifest.
Serves(q) == mpc[q] = "reply" /\ ~gone[q] /\ Status(res[q], res[q].body) = 200

\* serveManifest with the gate's answer.  An attestation's file is read to
\* remember its blobs and then opened again to be served; it may be gone either
\* time.
Reply(q) ==
  LET a == res[q] IN
  /\ mpc[q] = "reply" /\ ~gone[q]
  /\ \/ a.ok /\ a.body /\ Kind[man[q]] = "attest" /\ remember(man[q])
     \/ UNCHANGED attest
  /\ Reset({q})
  /\ UNCHANGED <<storeVars, flight, scanVars, blocked>>

\* The scan outlasts the client's patience: it is told to retry, and the
\* evaluation goes on without it.
GiveUpWaiting(q) ==
  /\ ClientWait
  /\ mpc[q] # "idle" /\ ~gone[q]
  /\ gone' = [gone EXCEPT ![q] = TRUE]
  /\ UNCHANGED <<storeVars, attest, flight, mpc, byTag, man, old, next, res, scanVars, judgeVars>>

\* recordWhenDone: the client is gone and the answer is only recorded.
recordWhenDone(q) ==
  /\ mpc[q] = "reply" /\ gone[q]
  /\ Reset({q})
  /\ UNCHANGED <<storeVars, attest, flight, scanVars, blocked>>

\* What serveBlob would serve: a clean blob of the store, or one remembered
\* from an attestation when the store has none.
serveBlob(b) == blob[b] = "clean" \/ (blob[b] = "none" /\ b \in Entries(attest))

\* The process ends and starts again: its memory is lost, the store is not.
Restart ==
  /\ Reset(Requests)
  /\ attest' = << >>
  /\ flight' = [m \in Manifests |-> None]
  /\ UNCHANGED <<storeVars, scanVars, blocked>>
-----------------------------------------------------------------------------
Init ==
  /\ verdict = [m \in Manifests |-> None]
  /\ blob = [b \in Blobs |-> "none"]
  /\ attest = << >>
  /\ flight = [m \in Manifests |-> None]
  /\ mpc = [q \in Requests |-> "idle"]
  /\ byTag = [q \in Requests |-> FALSE]
  /\ man = [q \in Requests |-> None]
  /\ old = [q \in Requests |-> None]
  /\ next = [q \in Requests |-> 0]
  /\ res = [q \in Requests |-> None]
  /\ gone = [q \in Requests |-> FALSE]
  /\ blocked = {}
  /\ barred = [q \in Requests |-> {}]
  /\ excused = [q \in Requests |-> FALSE]
  /\ scanned = {}
  /\ since = [m \in Manifests |-> {}]

\* A step of the evaluation q runs, or of its handler.
Work(q) ==
  \/ FastPath(q) \/ (\E m \in Manifests : FetchManifest(q, m)) \/ FetchFails(q)
  \/ CachedVerdict(q) \/ passthrough(q) \/ Join(q)
  \/ ImageChecks(q) \/ LayerCached(q) \/ ScanLayer(q) \/ PutLayer(q)
  \/ PutClean(q) \/ PutBlock(q) \/ evictBlobs(q)
  \/ Reply(q) \/ recordWhenDone(q)

Next ==
  \/ Restart \/ Vanish
  \/ \E m \in Manifests : Expire(m)
  \/ \E q \in Requests :
       \/ \E m \in Manifests, tagged \in BOOLEAN : Arrive(q, m, tagged)
       \/ Work(q) \/ GiveUpWaiting(q)

Spec == Init /\ [][Next]_vars
-----------------------------------------------------------------------------
(* Properties *)

\* A block that was stored lasts: no request that arrived later is given the
\* manifest, from a cached verdict, a coalesced evaluation or an expired verdict
\* kept for outages, unless an evaluation approved it since.
BlockHolds == \A q \in Requests : Serves(q) => man[q] \notin barred[q]

\* An expired verdict serves only a request whose own evaluation met a failure
\* (staleOr, the by-digest fallback), never one that merely read it.
StaleOnlyOnFailure == \A q \in Requests : Serves(q) /\ res[q].stale => excused[q]

\* Direct blob requests get only bytes that were scanned in full and found
\* clean, or that belong to an attestation: whatever becomes of the images that
\* list them, of evictions and of failed writes.  The attestation blobs that
\* are remembered stay within their bound, however many a manifest lists.
BlobGated ==
  /\ \A b \in Blobs :
       serveBlob(b) =>
         b \in scanned \/ \E m \in Manifests : Kind[m] = "attest" /\ b \in Entries(Layers[m])
  /\ Len(attest) <= AttestMax

Evaluating == {"checks", "layer", "scan", "put_blob", "put_clean", "put_block", "evict"}

\* Nobody waits for nothing: a request that joined another's evaluation waits
\* for one that is running, an image has one leader, and only it evaluates.
Attended ==
  \A q \in Requests :
    /\ mpc[q] = "wait" => flight[man[q]] # None
    /\ mpc[q] \in Evaluating <=> \E m \in Manifests : flight[m] = q /\ man[q] = m

\* The re-run of the gate, "what lets a newly-blocking CVE or malware signature
\* evict a previously-clean image" (gate.go:106), scans that image: it takes no
\* blob as clean whose last scan is older than the verdict that expired.
RescanKept ==
  [][\A q \in Requests :
       mpc[q] = "layer" /\ mpc'[q] = "layer" /\ next'[q] > next[q] /\ old[q] # None /\ old[q].ok =>
         Layers[man[q]][next[q]] \in since[man[q]]]_vars
=============================================================================
