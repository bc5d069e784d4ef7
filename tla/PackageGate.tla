---------------------------- MODULE PackageGate ----------------------------
(***************************************************************************)
(* The package download pipeline, proxy.Handler.ServeHTTP in               *)
(* internal/proxy/handler.go: cache lookup with lazy re-checks, then       *)
(* supply-chain, CVE and malware gates, then Put, Get and serve.           *)
(*                                                                         *)
(* Every request is a goroutine of its own and calls the cache as one of   *)
(* ArtifactCache's callers; the console's purge is another caller.  What   *)
(* scanners, policy and upstreams answer is the environment: cveBad and    *)
(* avBad hold what a scan would block at this moment and change at any     *)
(* time, and every scan or fetch may also fail.                            *)
(*                                                                         *)
(* Responses keep verdict, gate and HTTP status; bodies, headers, logging  *)
(* and request identifiers are left out.                                   *)
(***************************************************************************)
EXTENDS Integers, Sequences, FiniteSets

CONSTANTS
  Refs, Contents, Size(_), Evictor, MaxBytes, EvictBatch, PurgeBatch,
  StaleAfter, MaxTime, Faults, NoRow, NoFile,
  Requests,    \* goroutines serving downloads
  Consoles,    \* goroutines running the console's cleanup
  HasCVE,      \* a CVE scanner is configured
  HasPolicy,   \* a policy evaluates its findings
  HasAV,       \* a malware scanner is configured
  Deferred,    \* the adapter takes the publish date from the download (Maven)
  CVETTL,      \* CVERecheckTTL, 0 disables
  MalTTL,      \* MalwareRecheckTTL, 0 disables
  Nobody       \* no request: absence of a flight, of an outcome, of a body

ASSUME GateAssumption ==
  /\ Refs # {} /\ Contents # {} /\ \A c \in Contents : Size(c) \in Nat
  /\ Requests \cap Consoles = {}
  /\ Evictor \notin Requests \cup Consoles
  /\ MaxBytes \in Nat /\ EvictBatch \in Nat \ {0} /\ PurgeBatch \in Nat \ {0}
  /\ StaleAfter \in Nat \ {0} /\ MaxTime \in Nat
  /\ Faults \subseteq {"read", "write", "fs", "unlink", "cancel", "crash", "power", "close"}
  /\ NoRow \notin [src : Contents, clean : BOOLEAN, hit : Int, cve : Int, mal : Int]
  /\ NoFile \notin [src : Contents, bytes : {"partial", "written", "synced"}]
  /\ {HasCVE, HasPolicy, HasAV, Deferred} \subseteq BOOLEAN
  /\ CVETTL \in Nat /\ MalTTL \in Nat
  /\ Nobody \notin Requests \cup Contents

VARIABLES
  now, row, file, tmp, pc, ref, arg, ent, stamp, job, todo, prog, cutoff, signal,
  phase, durable, disk,
  hpc,      \* where each request is in ServeHTTP
  hreq,     \* the reference it asks for
  hent,     \* the cache entry it holds
  hit,      \* it was answered by the first lookup
  body,     \* the content it downloaded
  cleared,  \* the gates this request has cleared
  rnow,     \* runRechecks' own reading of the clock
  flight,   \* recheckGroup: the leader re-checking each reference
  out,      \* the outcome recorded for the request
  served,   \* the content it answered with
  cveBad,   \* references whose CVE scan the policy blocks now
  avBad,    \* contents the malware engines detect now
  good,     \* history: <<reference, content>> one request cleared every gate for
  cveOKAt,  \* history: when the request's own CVE scan passed
  malOKAt   \* history: when the request's own malware scan passed

Callers == Requests \cup Consoles

Cache == INSTANCE ArtifactCache

callVars    == <<tmp, pc, ref, arg, ent, stamp>>
sweepVars   == <<job, todo, prog, cutoff, signal>>
cacheVars   == <<now, row, file, callVars, sweepVars, phase, durable, disk>>
requestVars == <<hpc, hreq, hent, hit, body, cleared, rnow, flight, out, served>>
worldVars   == <<cveBad, avBad>>
historyVars == <<good, cveOKAt, malOKAt>>
gateVars    == <<requestVars, worldVars, historyVars>>
vars        == <<cacheVars, gateVars>>

Verdicts == {"PASS", "CACHE", "BLOCK", "ERROR"}
Gates    == {"cache", "supply", "cve", "malware"}
Statuses == {200, 403, 404, 423, 429, 500, 502, 503}
Outcome  == [verdict : Verdicts, gate : Gates, status : Statuses]

HandlerPCs ==
  {"idle", "lookup", "due", "lead", "mark_cve", "lead_mal", "mark_mal",
   "evict_cve", "evict_mal", "wait", "block_cve", "block_mal", "open",
   "supply", "cve", "download", "supply_late", "malware", "put", "reget",
   "reload", "done"}

NoRef == CHOOSE r \in Refs : TRUE

TypeOK ==
  /\ Cache!TypeOK
  /\ hpc \in [Requests -> HandlerPCs]
  /\ hreq \in [Requests -> Refs]
  /\ hent \in [Requests -> Cache!Row \cup {NoRow}]
  /\ hit \in [Requests -> BOOLEAN]
  /\ body \in [Requests -> Contents \cup {Nobody}]
  /\ cleared \in [Requests -> SUBSET Gates]
  /\ rnow \in [Requests -> Cache!Time]
  /\ flight \in [Refs -> Requests \cup {Nobody}]
  /\ out \in [Requests -> Outcome \cup {Nobody}]
  /\ served \in [Requests -> Contents \cup {Nobody}]
  /\ cveBad \subseteq Refs
  /\ avBad \subseteq Contents
  /\ good \subseteq Refs \X Contents
  /\ cveOKAt \in [Requests -> Cache!Time \cup {-1}]
  /\ malOKAt \in [Requests -> Cache!Time \cup {-1}]

\* The gates a served artifact must have cleared under this configuration.
Required == {"supply"} \cup (IF HasCVE /\ HasPolicy THEN {"cve"} ELSE {})
                       \cup (IF HasAV THEN {"malware"} ELSE {})

HGoto(q, l) == hpc' = [hpc EXCEPT ![q] = l]

\* record and the response that goes with it; the request is finished.
Finish(q, verdict, gate, status) ==
  /\ out' = [out EXCEPT ![q] = [verdict |-> verdict, gate |-> gate, status |-> status]]
  /\ HGoto(q, "done")
-----------------------------------------------------------------------------
(* Cache lookup *)

Arrive(q, r) ==
  /\ hpc[q] = "idle"
  /\ HGoto(q, "lookup")
  /\ hreq' = [hreq EXCEPT ![q] = r]
  /\ Cache!BeginGet(q, r)
  /\ UNCHANGED <<hent, hit, body, cleared, rnow, flight, out, served, worldVars, historyVars>>

LookupMiss(q) ==
  /\ hpc[q] = "lookup"
  /\ pc[q] = "miss"
  /\ Cache!Return(q)
  /\ HGoto(q, IF Deferred THEN "cve" ELSE "supply")
  /\ UNCHANGED <<hreq, hent, hit, body, cleared, rnow, flight, out, served, worldVars, historyVars>>

LookupHit(q) ==
  /\ hpc[q] = "lookup"
  /\ pc[q] = "hit"
  /\ Cache!Return(q)
  /\ \/ /\ ~ent[q].clean
        /\ Finish(q, "BLOCK", "cache", 403)
        /\ UNCHANGED <<hent, hit>>
     \/ /\ ent[q].clean
        /\ hent' = [hent EXCEPT ![q] = ent[q]]
        /\ hit' = [hit EXCEPT ![q] = TRUE]
        /\ HGoto(q, "due")
        /\ UNCHANGED out
  /\ UNCHANGED <<hreq, body, cleared, rnow, flight, served, worldVars, historyVars>>
-----------------------------------------------------------------------------
(* Lazy re-check, coalesced per reference *)

CVEExpired(e, t) == CVETTL > 0 /\ HasCVE /\ HasPolicy /\ t - e.cve > CVETTL
MalExpired(e, t) == MalTTL > 0 /\ HasAV /\ t - e.mal > MalTTL

\* Mutant of CheckDue: every overdue request scans for itself.
CheckDueNoCoalescing(q) ==
  /\ hpc[q] = "due"
  /\ CVEExpired(hent[q], now) \/ MalExpired(hent[q], now)
  /\ flight' = [flight EXCEPT ![hreq[q]] = q]
  /\ rnow' = [rnow EXCEPT ![q] = now]
  /\ HGoto(q, "lead")
  /\ UNCHANGED <<hreq, hent, hit, body, cleared, out, served, worldVars, historyVars>>
  /\ UNCHANGED cacheVars

\* recheckDue, then recheckGroup.Do: lead a flight, or wait for the one there.
CheckDue(q) ==
  /\ hpc[q] = "due"
  /\ LET due == CVEExpired(hent[q], now) \/ MalExpired(hent[q], now)
         r   == hreq[q]
     IN \/ /\ ~due
           /\ HGoto(q, "open")
           /\ UNCHANGED <<flight, rnow>>
        \/ /\ due /\ flight[r] = Nobody
           /\ flight' = [flight EXCEPT ![r] = q]
           /\ rnow' = [rnow EXCEPT ![q] = now]
           /\ HGoto(q, "lead")
        \/ /\ due /\ flight[r] # Nobody
           /\ HGoto(q, "wait")
           /\ UNCHANGED <<flight, rnow>>
  /\ UNCHANGED <<hreq, hent, hit, body, cleared, out, served, worldVars, historyVars>>
  /\ UNCHANGED cacheVars

\* Mutant of Land: the waiters are not woken.
LandAlone(q, l) ==
  /\ flight' = [flight EXCEPT ![hreq[q]] = Nobody]
  /\ HGoto(q, l)

\* The flight ends and its leader and every waiter leave for l.
Land(q, l) ==
  /\ flight' = [flight EXCEPT ![hreq[q]] = Nobody]
  /\ hpc' = [p \in Requests |->
               IF p = q \/ (hpc[p] = "wait" /\ hreq[p] = hreq[q]) THEN l ELSE hpc[p]]

\* runRechecks, the CVE part: a scan error serves stale, a block evicts.
RecheckCVE(q) ==
  /\ hpc[q] = "lead"
  /\ \/ /\ HGoto(q, "lead_mal")      \* not expired, or the scan failed
        /\ UNCHANGED <<cveOKAt, cacheVars>>
     \/ /\ CVEExpired(hent[q], rnow[q])
        /\ hreq[q] \in cveBad
        /\ HGoto(q, "evict_cve")
        /\ Cache!BeginInvalidate(q, hreq[q])
        /\ UNCHANGED cveOKAt
     \/ /\ CVEExpired(hent[q], rnow[q])
        /\ hreq[q] \notin cveBad
        /\ HGoto(q, "mark_cve")
        /\ cveOKAt' = [cveOKAt EXCEPT ![q] = now]
        /\ UNCHANGED cacheVars
  /\ UNCHANGED <<hreq, hent, hit, body, cleared, rnow, flight, out, served, worldVars, good, malOKAt>>

\* Mutant of MarkCVE: the stamp is the clock after the scan.
MarkCVELate(q) ==
  /\ hpc[q] = "mark_cve"
  /\ Cache!MarkCVEChecked(hreq[q], now)
  /\ HGoto(q, "lead_mal")
  /\ UNCHANGED <<now, file, callVars, sweepVars, phase, durable, disk>>
  /\ UNCHANGED <<hreq, hent, hit, body, cleared, rnow, flight, out, served, worldVars, historyVars>>

MarkCVE(q) ==
  /\ hpc[q] = "mark_cve"
  /\ Cache!MarkCVEChecked(hreq[q], rnow[q])
  /\ HGoto(q, "lead_mal")
  /\ UNCHANGED <<now, file, callVars, sweepVars, phase, durable, disk>>
  /\ UNCHANGED <<hreq, hent, hit, body, cleared, rnow, flight, out, served, worldVars, historyVars>>

\* The malware part scans whatever the path holds by now; an error (a missing
\* file is one) or an incomplete scan serves stale.
RecheckMal(q) ==
  /\ hpc[q] = "lead_mal"
  /\ LET f == file[hreq[q]] IN
     \/ /\ Land(q, "open")             \* not expired, or the scan failed
        /\ UNCHANGED <<malOKAt, cacheVars>>
     \/ /\ MalExpired(hent[q], rnow[q])
        /\ f # NoFile /\ f.src \in avBad
        /\ HGoto(q, "evict_mal")
        /\ Cache!BeginInvalidate(q, hreq[q])
        /\ UNCHANGED <<flight, malOKAt>>
     \/ /\ MalExpired(hent[q], rnow[q])
        /\ f # NoFile /\ f.src \notin avBad
        /\ HGoto(q, "mark_mal")
        /\ malOKAt' = [malOKAt EXCEPT ![q] = now]
        /\ UNCHANGED <<flight, cacheVars>>
  /\ UNCHANGED <<hreq, hent, hit, body, cleared, rnow, out, served, worldVars, good, cveOKAt>>

MarkMal(q) ==
  /\ hpc[q] = "mark_mal"
  /\ Cache!MarkMalwareChecked(hreq[q], rnow[q])
  /\ Land(q, "open")
  /\ UNCHANGED <<now, file, callVars, sweepVars, phase, durable, disk>>
  /\ UNCHANGED <<hreq, hent, hit, body, cleared, rnow, out, served, worldVars, historyVars>>

\* evictRechecked returned, its error only logged: the block stands.
Evicted(q) ==
  /\ hpc[q] \in {"evict_cve", "evict_mal"}
  /\ pc[q] \in {"ok", "err"}
  /\ Cache!Return(q)
  /\ Land(q, IF hpc[q] = "evict_cve" THEN "block_cve" ELSE "block_mal")
  /\ UNCHANGED <<hreq, hent, hit, body, cleared, rnow, out, served, worldVars, historyVars>>

\* Every waiter maps the shared outcome to its own response and event.
RecheckBlocked(q) ==
  /\ \/ hpc[q] = "block_cve" /\ Finish(q, "BLOCK", "cve", 403)
     \/ hpc[q] = "block_mal" /\ Finish(q, "BLOCK", "malware", 403)
  /\ UNCHANGED <<hreq, hent, hit, body, cleared, rnow, flight, served, worldVars, historyVars>>
  /\ UNCHANGED cacheVars
-----------------------------------------------------------------------------
(* The gates of a miss *)

\* Filter.Check on fetched metadata; a dry run counts as allowed.
Supply(q) ==
  /\ hpc[q] = "supply"
  /\ \/ /\ \E status \in {429, 502, 503} : Finish(q, "ERROR", "supply", status)
        /\ UNCHANGED cleared
     \/ Finish(q, "BLOCK", "supply", 423) /\ UNCHANGED cleared
     \/ /\ cleared' = [cleared EXCEPT ![q] = @ \cup {"supply"}]
        /\ HGoto(q, "cve")
        /\ UNCHANGED out
  /\ UNCHANGED <<hreq, hent, hit, body, rnow, flight, served, worldVars, historyVars>>
  /\ UNCHANGED cacheVars

ScanCVE(q) ==
  /\ hpc[q] = "cve"
  /\ \/ /\ ~HasCVE
        /\ HGoto(q, "download")
        /\ UNCHANGED <<cleared, out, cveOKAt>>
     \/ /\ HasCVE
        /\ Finish(q, "ERROR", "cve", 503)
        /\ UNCHANGED <<cleared, cveOKAt>>
     \/ /\ HasCVE /\ HasPolicy /\ hreq[q] \in cveBad
        /\ Finish(q, "BLOCK", "cve", 403)
        /\ UNCHANGED <<cleared, cveOKAt>>
     \/ /\ HasCVE /\ (HasPolicy => hreq[q] \notin cveBad)
        /\ HGoto(q, "download")
        /\ cleared' = [cleared EXCEPT ![q] = IF HasPolicy THEN @ \cup {"cve"} ELSE @]
        /\ cveOKAt' = [cveOKAt EXCEPT ![q] = now]
        /\ UNCHANGED out
  /\ UNCHANGED <<hreq, hent, hit, body, rnow, flight, served, worldVars, good, malOKAt>>
  /\ UNCHANGED cacheVars

\* downloadFromUpstreams: too large, absent everywhere, throttled, no upstream
\* configured, or unavailable.
Download(q) ==
  /\ hpc[q] = "download"
  /\ \/ /\ \E c \in Contents : body' = [body EXCEPT ![q] = c]
        /\ HGoto(q, IF Deferred THEN "supply_late" ELSE "malware")
        /\ UNCHANGED out
     \/ /\ \/ Finish(q, "ERROR", "cache", 403)
           \/ \E status \in {404, 429, 500, 502, 503} : Finish(q, "ERROR", "supply", status)
        /\ UNCHANGED body
  /\ UNCHANGED <<hreq, hent, hit, cleared, rnow, flight, served, worldVars, historyVars>>
  /\ UNCHANGED cacheVars

SupplyLate(q) ==
  /\ hpc[q] = "supply_late"
  /\ \/ Finish(q, "BLOCK", "supply", 423) /\ UNCHANGED cleared
     \/ /\ cleared' = [cleared EXCEPT ![q] = @ \cup {"supply"}]
        /\ HGoto(q, "malware")
        /\ UNCHANGED out
  /\ UNCHANGED <<hreq, hent, hit, body, rnow, flight, served, worldVars, historyVars>>
  /\ UNCHANGED cacheVars

\* The scan passed, or there is none: Put starts.
Store(q) ==
  /\ Cache!BeginPut(q, hreq[q], [src |-> body[q], clean |-> TRUE])
  /\ HGoto(q, "put")
  /\ good' = IF Required \subseteq cleared'[q] THEN good \cup {<<hreq[q], body[q]>>} ELSE good
  /\ UNCHANGED out

\* Mutant of ScanMalware: a failed scan lets the artifact through.
ScanMalwareFailOpen(q) ==
  /\ hpc[q] = "malware"
  /\ UNCHANGED <<cleared, malOKAt>>
  /\ Store(q)
  /\ UNCHANGED <<hreq, hent, hit, body, rnow, flight, served, worldVars, cveOKAt>>

\* An error is 503, an incomplete scan and a detection are blocks.
ScanMalware(q) ==
  /\ hpc[q] = "malware"
  /\ \/ /\ ~HasAV
        /\ UNCHANGED <<cleared, malOKAt>>
        /\ Store(q)
     \/ /\ HasAV
        /\ Finish(q, "ERROR", "malware", 503)
        /\ UNCHANGED <<cleared, malOKAt, good, cacheVars>>
     \/ /\ HasAV                           \* incomplete, or detected
        /\ Finish(q, "BLOCK", "malware", 403)
        /\ UNCHANGED <<cleared, malOKAt, good, cacheVars>>
     \/ /\ HasAV /\ body[q] \notin avBad
        /\ cleared' = [cleared EXCEPT ![q] = @ \cup {"malware"}]
        /\ malOKAt' = [malOKAt EXCEPT ![q] = now]
        /\ Store(q)
  /\ UNCHANGED <<hreq, hent, hit, body, rnow, flight, served, worldVars, cveOKAt>>
-----------------------------------------------------------------------------
(* Put, Get, serve *)

Stored(q) ==
  /\ hpc[q] = "put"
  /\ Cache!Return(q)
  /\ \/ pc[q] = "ok" /\ HGoto(q, "reget") /\ UNCHANGED out
     \/ pc[q] = "err" /\ Finish(q, "ERROR", "cache", 500)
     \/ pc[q] = "panic" /\ HGoto(q, "done") /\ UNCHANGED out
  /\ UNCHANGED <<hreq, hent, hit, body, cleared, rnow, flight, served, worldVars, historyVars>>

Reget(q) ==
  /\ hpc[q] = "reget"
  /\ Cache!BeginGet(q, hreq[q])
  /\ HGoto(q, "reload")
  /\ UNCHANGED <<hreq, hent, hit, body, cleared, rnow, flight, out, served, worldVars, historyVars>>

\* "Should not happen - we just Put it" is the miss.
Reload(q) ==
  /\ hpc[q] = "reload"
  /\ Cache!Return(q)
  /\ \/ /\ pc[q] = "hit"
        /\ hent' = [hent EXCEPT ![q] = ent[q]]
        /\ HGoto(q, "open")
        /\ UNCHANGED out
     \/ /\ pc[q] = "miss"
        /\ Finish(q, "ERROR", "cache", 500)
        /\ UNCHANGED hent
  /\ UNCHANGED <<hreq, hit, body, cleared, rnow, flight, served, worldVars, historyVars>>

\* The deepest gate a passed miss cleared.
LastGate == IF HasAV THEN "malware" ELSE IF HasCVE /\ HasPolicy THEN "cve" ELSE "supply"

\* serveFromCache opens the path; the open file keeps its bytes from then on.
Serve(q) ==
  /\ hpc[q] = "open"
  /\ \/ /\ file[hreq[q]] # NoFile
        /\ served' = [served EXCEPT ![q] = file[hreq[q]].src]
        /\ IF hit[q] THEN Finish(q, "CACHE", "cache", 200) ELSE Finish(q, "PASS", LastGate, 200)
     \/ /\ file[hreq[q]] = NoFile \/ "fs" \in Faults
        /\ Finish(q, "ERROR", "cache", 500)
        /\ UNCHANGED served
  /\ UNCHANGED <<hreq, hent, hit, body, cleared, rnow, flight, worldVars, historyVars>>
  /\ UNCHANGED cacheVars

\* The goroutine ends.
Leave(q) ==
  /\ hpc[q] = "done"
  /\ HGoto(q, "idle")
  /\ hreq' = [hreq EXCEPT ![q] = NoRef]
  /\ hent' = [hent EXCEPT ![q] = NoRow]
  /\ hit' = [hit EXCEPT ![q] = FALSE]
  /\ body' = [body EXCEPT ![q] = Nobody]
  /\ cleared' = [cleared EXCEPT ![q] = {}]
  /\ rnow' = [rnow EXCEPT ![q] = 0]
  /\ out' = [out EXCEPT ![q] = Nobody]
  /\ served' = [served EXCEPT ![q] = Nobody]
  /\ cveOKAt' = [cveOKAt EXCEPT ![q] = -1]
  /\ malOKAt' = [malOKAt EXCEPT ![q] = -1]
  /\ UNCHANGED <<flight, worldVars, good>>
  /\ UNCHANGED cacheVars
-----------------------------------------------------------------------------
(* The rest of the system *)

\* An advisory, a denylist edit, a signature update, or their withdrawal, as
\* far as a configured scanner sees it.
WorldChange ==
  /\ \/ HasCVE /\ (\E r \in Refs : cveBad' \in {cveBad \cup {r}, cveBad \ {r}}) /\ UNCHANGED avBad
     \/ HasAV /\ (\E c \in Contents : avBad' \in {avBad \cup {c}, avBad \ {c}}) /\ UNCHANGED cveBad
  /\ UNCHANGED <<requestVars, historyVars>>
  /\ UNCHANGED cacheVars

\* The console's Clean up button.
Cleanup(t) ==
  /\ Cache!BeginPurge(t) \/ Cache!Return(t)
  /\ UNCHANGED gateVars

CacheStep(t) == Cache!CallStep(t) /\ UNCHANGED gateVars
WorkerStep   == Cache!WorkerStep /\ UNCHANGED gateVars

\* Time, shutdown and the disk; requests die with the process.
Environment ==
  /\ \/ Cache!Tick \/ Cache!Close \/ Cache!CloseIndex
     \/ Cache!Checkpoint \/ (\E r \in Refs : Cache!SyncDir(r))
  /\ UNCHANGED gateVars

Restart ==
  /\ Cache!Crash \/ Cache!Exit \/ Cache!PowerLoss
  /\ hpc' = [q \in Requests |-> "idle"]
  /\ hreq' = [q \in Requests |-> NoRef]
  /\ hent' = [q \in Requests |-> NoRow]
  /\ hit' = [q \in Requests |-> FALSE]
  /\ body' = [q \in Requests |-> Nobody]
  /\ cleared' = [q \in Requests |-> {}]
  /\ rnow' = [q \in Requests |-> 0]
  /\ out' = [q \in Requests |-> Nobody]
  /\ served' = [q \in Requests |-> Nobody]
  /\ flight' = [r \in Refs |-> Nobody]
  /\ cveOKAt' = [q \in Requests |-> -1]
  /\ malOKAt' = [q \in Requests |-> -1]
  /\ UNCHANGED <<worldVars, good>>

\* A process that starts, with what earlier ones approved.
Idle(approved) ==
  /\ hpc = [q \in Requests |-> "idle"]
  /\ hreq = [q \in Requests |-> NoRef]
  /\ hent = [q \in Requests |-> NoRow]
  /\ hit = [q \in Requests |-> FALSE]
  /\ body = [q \in Requests |-> Nobody]
  /\ cleared = [q \in Requests |-> {}]
  /\ rnow = [q \in Requests |-> 0]
  /\ out = [q \in Requests |-> Nobody]
  /\ served = [q \in Requests |-> Nobody]
  /\ flight = [r \in Refs |-> Nobody]
  /\ cveBad = {}
  /\ avBad = {}
  /\ good = approved
  /\ cveOKAt = [q \in Requests |-> -1]
  /\ malOKAt = [q \in Requests |-> -1]

Init == Cache!Init /\ Idle({})

Recheck(q) ==
  \/ CheckDue(q) \/ RecheckCVE(q) \/ MarkCVE(q) \/ RecheckMal(q) \/ MarkMal(q)
  \/ Evicted(q) \/ RecheckBlocked(q)

Pipeline(q) ==
  \/ Supply(q) \/ ScanCVE(q) \/ Download(q) \/ SupplyLate(q) \/ ScanMalware(q)
  \/ Stored(q) \/ Reget(q) \/ Reload(q) \/ Serve(q)

HandlerStep(q) == LookupMiss(q) \/ LookupHit(q) \/ Recheck(q) \/ Pipeline(q)

Next ==
  \/ \E q \in Requests : (\E r \in Refs : Arrive(q, r)) \/ HandlerStep(q) \/ Leave(q)
  \/ \E t \in Callers : CacheStep(t)
  \/ \E t \in Consoles : Cleanup(t)
  \/ WorkerStep \/ WorldChange \/ Environment \/ Restart

Spec == Init /\ [][Next]_vars

\* Goroutines run; scanners and upstreams answer or time out.
Fairness == \A q \in Requests : WF_vars(HandlerStep(q) \/ CacheStep(q))
FairSpec == Spec /\ Fairness
-----------------------------------------------------------------------------
(* Properties *)

\* README: "The proxy never serves an artifact that has not been approved."
\* Whatever a request answers with, one request put those bytes through every
\* configured gate for that reference, across concurrent misses, evictions,
\* failures, crashes and restarts.
ServedApproved == \A q \in Requests : served[q] # Nobody => <<hreq[q], served[q]>> \in good

\* A re-check stamps a gate with a time not later than the scan it vouches
\* for, so a verdict that goes stale while it is being written is not taken
\* for a newer one (runRechecks reads the clock before scanning).
RecheckStampHonest ==
  [][\A q \in Requests :
       /\ MarkCVE(q) /\ row' # row => row'[hreq[q]].cve <= cveOKAt[q]
       /\ MarkMal(q) /\ row' # row => row'[hreq[q]].mal <= malOKAt[q]]_vars

\* Concurrent re-checks of one reference collapse into one scan, and a waiter
\* always has a leader to wait for.
OneFlightPerRef ==
  \A q \in Requests :
    /\ hpc[q] \in {"lead", "mark_cve", "lead_mal", "mark_mal", "evict_cve", "evict_mal"}
         <=> \E r \in Refs : flight[r] = q
    /\ hpc[q] = "wait" => flight[hreq[q]] # Nobody

\* Every request is answered, waiters of a flight included.
Answered == \A q \in Requests : hpc[q] # "idle" ~> hpc[q] \in {"done", "idle"}
=============================================================================
