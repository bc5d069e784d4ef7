# Jo-ei in TLA+

Jo-ei is a gating proxy for package registries (npm, PyPI, Maven, RubyGems, Go,
Docker). A client's download is answered from a local cache, or fetched from an
upstream mirror, checked (publish date, known vulnerabilities, malware) and only
then stored and served. This directory models the parts of it where
interleavings, failures and restarts decide whether that promise holds.

## 1. Inventory

| part | state | operations | interacts with |
|---|---|---|---|
| artifact cache (`internal/cache`) | SQLite table `artifacts`, files, a one-slot eviction channel, a worker | `Put`, `Get`, `Invalidate`, `MarkCVEChecked`, `MarkMalwareChecked`, `PurgeStale`, the worker, `Close` | called by every gate and by the console |
| package gate (`internal/proxy/handler.go`, `internal/gate`) | one goroutine per request, a singleflight group of re-checks | `ServeHTTP` (hit, re-check, miss pipeline) | cache, scanners, policy, upstream fetch |
| upstream fetch (`internal/upstream`, `handler.go`, adapters) | the attempts of one fetch | `downloadFromUpstreams`, `forwardUpstream`, `FetchMetadata`, `Throttled`, `AllNotFound` | transport; asks the breaker again when summing up |
| upstream transport (`internal/httpx`, `cmd/jo-ei/upstream.go`) | per host: circuit, token bucket, semaphore | one `RoundTrip` per layer | shared by all fetches |
| docker gate (`internal/proxy/dockerproxy`) | verdict and blob entries of the cache, tag index, singleflight | `Evaluate`, `runPipeline`, `scanLayer`, `evictBlobs` | cache, Trivy, malware scanners |
| accounts and sessions (`internal/users`, `internal/auth`) | table `users`, signed tokens, open event streams | login, refresh, logout, change password, user administration, `EnsureInitialAdmin`, `ResetAdmin` | console |
| login limiter (`internal/auth/ratelimit.go`) | windows per pair and per address | `Allow`, `Success` | login, change of password |
| policy runtime (`internal/policy`, `internal/settings`) | the policy in force and its stored copy | `Update`, `EditList`, load at start | gates read it, console edits it |
| metadata filter (`proxy/metadata.go`, `proxy/index.go`, npm and PyPI adapters) | a singleflight group of fetches | `proxyMetadata`, `proxyIndex`, `FilterVersions`, `RewriteIndex` | policy, upstream fetch; clients revalidate what they got |
| vulnerability scanner (`internal/scanner/osv.go`) | response cache with a janitor, the sample of the last query | `Scan` | package gate; `/ready` shows the sample |
| malware scanners (`internal/scanner`) | a semaphore | scan through ClamAV, ICAP, several at once | both gates |
| health monitor (`internal/health`, `cmd/jo-ei/ready.go`) | a sample per engine, a cached answer | the probe loop, `Snapshot`, `/ready` | engines, database, load balancers |
| telemetry (`internal/telemetry`) | tables `events`, counters, `daily_metrics`; subscribers with a bounded buffer | `Record`, `Page`, `Prune`, `Subscribe`, `Publish`, `Close` | gates write, console reads |
| lifecycle (`serve.go`, `app.go`, `main.go`) | the servers, a stack of closers | the signal, the drain, its deadline, the closers | ends the event streams, the prune loop, the cache, the database |
| storage, console API, metrics, configuration, routing | see PROJECT.json | | |

What is hard to test here: calls of the cache interleave between statements and
system calls, with a crash or a power loss in between; requests share a re-check
and its outcome; two misses store different bytes under one name; answers of an
upstream arrive after the circuit they should have influenced has changed; a
fetch's attempts are judged against circuit state read later; signals are
coalesced, cancelled calls must give back what they hold, and a purge must end
although every deletion fails; the policy changes between the verdicts on one
document; rows of a log come and go between two pages of it; and a shutdown
waits for streams that have no end of their own. PROJECT.json lists these under "hazards", each at
its line, with the properties that would catch it.

What makes each part correct, in a sentence: the cache never shows a torn file
and returns under its limit; the gate serves only approved bytes and answers
every request; a client's error status follows from what the mirrors said; a
host that throttles is left alone for a bounded time and its slots are never
leaked; the docker gate serves
blobs only once they were scanned and keeps to a block; a token dies
with the rights it was issued for, and an administrator always remains; the
limiter bounds guesses; an edit of the policy is never lost, and one that failed
is not in force; an index document leads no download around the gates; a clean
scan has the word of every engine; the console's numbers agree with what was
recorded; an outage of an engine shows in `/ready` within a bounded time, and so
does its end; a shutdown ends, and its closers run when no handler is left.

## 2. Modules

| module | models | composes |
|---|---|---|
| `ArtifactCache` | `local.go` over `index.go`: one action per statement or system call of a call | |
| `LossyStore` | abstract: a store that may lose an entry but holds only what was offered under that key | |
| `CacheStore` | the refinement mappings from the cache to two such stores: the index and the directory | extends `ArtifactCache`, implements `LossyStore` (`Index`, `Directory`) |
| `PackageGate` | the artifact path of `Handler.ServeHTTP`, with its re-checks | `ArtifactCache` (`Cache ==  INSTANCE`): a request is one of the cache's callers |
| `UpstreamTransport` | breaker over rate limiter over concurrency limiter over idle timeout | |
| `UpstreamFetch` | the loop over mirrors and the client's status | extends `UpstreamTransport`: a fetch is one of its calls |
| `Accounts` | the user table, tokens, the login limiter and every handler that reads or writes them | |
| `DockerGate` | `gate.go`, `blobcache.go`, `attestation.go` and `handler.go` of the docker proxy | |
| `PolicyRegister` | abstract: one policy that edits change one at a time | |
| `PolicyRuntime` | `internal/policy` over the settings row: edits, validation, persistence, start and crash, and both gates' verdicts | implements `PolicyRegister` (`Register == INSTANCE ... WITH`) |
| `MetadataFilter` | `metadata.go` and `index.go` over the npm and PyPI rewriting | extends `PolicyRuntime`: the policy may change between two verdicts |
| `EventLog` | the telemetry tables: `RecordEvent` statement by statement, `Prune`, `Page` | |
| `EventFeed` | the broadcaster, the event stream's handler and the shutdown | extends `EventLog`: a recorder publishes after it stored |
| `MalwareScan` | `LimitedScanner` around `MultiScanner` around the clients of clamd and ICAP | |
| `VulnLookup` | `OSVScanner`: its cache, concurrent queries, the health sample | |
| `Readiness` | the health monitor and `/ready` | extends `VulnLookup` (whose sample it shows) and `MalwareScan` |
| `MC...` | instances for TLC: sizes, mirror lists, symmetry, a warm start, the parts that move together | the module of that name |
| `...Proofs` | theorems and their proofs | the module of that name; `PackageGateProofs` also `ArtifactCacheProofs` |

How state and actions correspond to the code:

* **ArtifactCache.** `row` is the table, `file` what each final path holds, `tmp`
  the temp file of a goroutine's latest Put, `pc` the place of each goroutine.
  SQLite runs on one connection, so a statement is atomic; everything between two
  statements or system calls is interleaved, the reading of the clock included
  (`ReadClock`, `stamp`): a Put or a hit reads it and then waits for the
  connection. A temp file stays when its removal fails (`PutAbort`) and when the
  process ends (`Reboot`); nothing reads it again. `durable` and `disk` are what would survive a
  power loss: with `synchronous=NORMAL` a commit becomes durable at a later
  checkpoint, a rename when the file system writes the directory, and bytes
  only through `fsync`. The constant `Faults` says which failures an instance
  allows. A result stays in `pc` until the caller takes it (`Return`). The total
  size counts the bytes the rows stand for, one by one (`StoredBytes`). Left out:
  hit counters and statistics.
* **CacheStore.** Nothing ties a row to the file beside it, so the cache is two
  `LossyStore`s. A Put offers its artifact from the call on; the index places it
  with the INSERT, the directory with the rename, and any error before that
  withdraws it. `GetRow` is a look, `Return` forgets what was seen; healing,
  invalidation, eviction and the undo of a Put lose an entry, a checkpoint or a
  written directory makes entries safe, and a crash, exit or power loss is a
  restart, after which the store is what it was or what was safe. Everything else
  (timestamps, temp files, the signal) maps to no step. The stores' entries are the
  artifact and verdict of a row without its timestamps, and the artifact of a file
  with whether all its bytes are there.
* **PackageGate.** `hpc` is the place of a request in `ServeHTTP`, `flight` the
  singleflight group. What scanners and policy answer is data that changes over
  time (`cveBad`, `avBad`, `WorldChange`). `good`, `cveOKAt` and `malOKAt` are
  history: which bytes passed every configured gate, and when a scan was clean.
  A `Put` after `Close` panics in the code and ends the request here as it does
  there.
* **UpstreamTransport.** Times are what is left of them, so no clock is needed.
  Durations wrap around at `Word` values as int64 nanoseconds do.
* **UpstreamFetch.** `atts` is `upstream.Attempts`, `said` (history) what each
  mirror really did. `Throttled` says what the code's loop over the attempts comes
  to: nothing if one of them is neither absent nor throttled, else 429 if one is,
  with the shortest cooldown; it asks the breaker at the moment of the call, as the
  code does. `Jobs` says what each fetch may be
  asked for. A fetch that waits for a token or a slot waits in the transport.
* **Accounts.** `user` is the table, `tokens` every session ever signed, `pair` and
  `addr` the limiter's counts, `rpc` the place of each handler and `rrow` the row
  it has read. A method of the store is one statement or transaction and one
  step; handlers interleave between them, where the code hashes passwords. `clk`
  counts writes: a new row takes its version from the clock, a change adds one,
  so versions never run ahead of the clock (`store.go:118` relies on the same).
  The clock is assumed not to run backwards, and its reading for a new row is part of
  the INSERT's step (`store.go:124`). `changed`, `rat` and `wrong` are
  history: when an account's rights last changed, when the row a request holds
  did, and how many checks of an address failed.
* **DockerGate.** A manifest stands for repo@digest. `verdict` and `blob` are the
  entries of the shared cache, with one step per call of it: `ArtifactCache` shows
  the steps inside, here an entry may vanish and a Put may fail. `flight` is the
  singleflight group, `mpc` the place of a request in `Evaluate` and, for a leader,
  in `runPipeline`. `old` is `staleVerdict` or `offlineStale`, `gone` a client that
  was told to retry while its evaluation goes on. Time is only the step `Expire`:
  a verdict's age matters to nothing else. A manifest fetched is the one asked for
  and has a fixed kind: the code takes the digest from a header or the reference
  and the kind from the Content-Type (`adapter.go:195-206`, `gate.go:204`). `blocked`, `barred`, `excused`,
  `scanned` and `since` are history: which manifests were last blocked, when a
  request arrived under a block, whether its evaluation failed, and which blobs
  were scanned, ever and since a verdict was stored.
* **PolicyRuntime.** A policy is the record `RuntimeParams`, a list the set of its
  entries. `cur` is the snapshot behind the atomic pointer, `stored` the settings
  row, `lock` `Runtime.mu`; an edit is `Enter` (lock, read, validate), `Save` or
  `SaveFails`, `Install`, `Reply`, with a crash between any two. The refinement
  maps the register's value to the policy in force, or to what the next start
  would bring when the process is down: an edit is applied where the row is
  written if a crash follows, and where the snapshot is swapped otherwise. The
  supply-chain filter's minimum age is a number of hours that does not overflow
  a duration (`filter.go:82`).
* **MetadataFilter.** A document is the set of versions it lists and of those whose
  link leads around the proxy; parsing and printing are abstracted to which
  versions survive (`RewriteIndex`, `RewriteTarballs`, `Servable`, `Filtered`). A
  version whose name or link cannot form a path of the proxy is `Unmappable`. The
  tag of a body is the body: hashes do not collide. `flight` is `metadataGroup`.
  An index answer without a document (a redirect, 204, a 304 nobody asked for) is
  relayed (`IndexRelayed`): the client stays with its copy or goes to upstream's.
  `banned` and `refused` are history: what a rule refused all the time, and what
  the gate refused at some time, while a document was being filtered.
* **EventLog.** The database has one connection, so a transaction is a working copy
  (`work`) that its holder (`conn`) builds up statement by statement and that
  `Commit` publishes. Events carry the time of the outcome, so rows may arrive out
  of order. A request is at work (`Busy`) from `Accept` to its `Outcome`, or ends
  without an event (`Unrecorded`). `walk` is a console user who pages through the log; rows
  whose detail does not decode (`sqlite.go:346-352`), which a page skips, are not
  modelled. `owed` and
  `booked` are history: rows that were there all along, and every committed event.
* **EventFeed.** `chan` and `subs` are the broadcaster's, `phase` the process: serving,
  draining (`http.Server.Shutdown`), closing (the closers of `app.close`), closed.
  `cut` says why the closers did not wait for handlers: the drain deadline passed, or
  the main server failed (`ServeFails`: `serveWith` returns without a shutdown, and
  open connections go on, `Taking`). A metrics server that fails cancels the
  context of the other one, which is a `Stop`. Closing the database leaves a
  transaction its connection; every later statement fails.
  `hook` is the goroutine `RegisterOnShutdown` starts. `Detached` recorders are
  those that outlive their request (`recordWhenDone` of the docker proxy): the
  drain does not wait for them. `due` and `lossy` are history.
* **MalwareScan.** One state per scan and engine: dialling, streaming, or its outcome.
  `reply` (history) is what the engine said. A client watches its context only
  while it dials, as the code does.
* **VulnLookup.** Time is counted in ages: an entry holds the age of what osv.dev said
  and the time left to it. osv.dev's own step (`Answer`) is external.
* **Readiness.** `loop` and `ticker` are the probe loop with Go's one pending tick,
  `eval` and `ready` the evaluation that runs and the cached answer. `up`, `db` and
  `gone` are the environment: what can be reached, and for how long not.

## 3. Runs

| run | shows | bounds |
|---|---|---|
| `cache_faults` | `DirectoryIsStore`, `PurgeShrinks`, `PurgeTerminates`: one call with every fault, crash, power loss and shutdown at every step; Puts and hits beside a purge, a purge beside the worker | one reference, two callers and the worker; an artifact of size 2 over a limit of 1, so every Put sets off an eviction; clock 0..2 with rows stale at age 1 and more, so a row that was fresh becomes stale, also behind a call that has read the clock already |
| `cache_evict` | `NoLostEviction`, `EvictionConverges`: the coalescing one-slot signal loses no eviction; `IndexIsStore` | two references of size 1 under a limit of 1, so every second Put must evict; two contents, so an entry read may differ from the one in the table; file operations fail, purges are cancelled |
| `gate_recheck` | `OneFlightPerRef`, `RecheckStampHonest`, `Answered` | two requests over one overdue entry (`WarmInit`, a state a restart reaches), the vulnerability gate alone, verdicts change freely, clock 2..3, which moves while a re-check runs |
| `gate_approved` | `ServedApproved` for concurrent hits and misses that get different bytes in Maven's deferred order, with the malware re-check, the console's purge, failing statements and crashes | two requests, two contents, one console, a warm start with an entry overdue for its malware check; other faults and orders are left to the theorem `GateApproves` |
| `transport_limits` | `SlotsExact`, `CircuitCloses` | three calls to one host, one slot, one token; a Retry-After above the cap and one that overflows |
| `fetch_reply` | `ReplyJustified`, `FetchEnds` | a download over two mirrors, a proxied request to the second of them or a lookup without a mirror, while another fetch keeps asking the second mirror, takes its token and its slot (one each) and opens and closes its circuit |
| `accounts` | `AdminRemains`, `NoRevivedToken`, `StreamRevoked`, `LockoutEarned` | two users, two passwords, two handlers, one address that may fail twice and a pair that may fail once; an empty table, or one where both users are administrators with a session, and two writes after it |
| `docker_gate` | `BlockHolds`, `StaleOnlyOnFailure`, `BlobGated`, `Attended` | an image of one blob pulled by digest and by a tag that may also name an attestation with one blob more than is remembered; stores fail, entries vanish, verdicts expire, clients give up, the process restarts at any step |
| `policy_index` | `OnePolicy`, `InForceIsStored`, `SafeDocument`, `HiddenForCause`, `OwnDocument` | two editors with every kind of edit over three YAML files (one with a misspelt mode), an old row, failing writes and a crash; a client beside an editor, or two clients with different credentials; a package with an old version, a new one and one that cannot be linked; index answers with and without a document |
| `telemetry` | `TalliesAgree`, `WalkComplete`, `FeedComplete`, `OrderlyClose`, `ShutdownEnds` | two recorders (one detached), three events (at most one of them a block), two days, pages of one row; two streams with a buffer of one; statements fail, the drain may run out, the main server may fail with requests at work |
| `scan_stack` | `FailClosed`, `EnginesBounded`, `ScanEnds`, `AnswersFresh`, `OutageNoticed`, `ReadyRecovers` | two scans, a clamd and an ICAP engine, one slot; two lookups of one package, lifetime 2 and timeout 1; every other duration 1 |
| `docker_rescan` | violated: the re-run of the gate over an expired verdict takes every layer as clean from the cache | one client, an image of two blobs |

`TypeOK` of the cache, the accounts and telemetry is proved (`CacheTyped`,
`AccountsTyped`, `FeedTyped`); in the other modules it documents the state.
`NoTornFile` is proved too (`CacheNeverTorn`) and has no place of its own in a run:
`DirectoryIsStore` holds only if every file is whole. A crash or restart needs no second
process: everything a process keeps in memory is reset by `Reboot`. Bounds are
small because the races involve two goroutines and one reference; the theorems
below lift all safety results to any number of them. `MaxDebt` bounds the tokens
a bucket owes; `MaxTime` and `MaxNow` bound clocks, `MaxEvents` the events
recorded, `MaxCrashes` the crashes.

Seven instances have parts that share little state; their product would be large
and show nothing more. An action constraint lets the parts that meet move together
and rests the others:

* `cache_faults` (`FocusStep`): faults that end the process or reach the disk, and
  temp files left behind, concern one call at a time; a call and a purge, or a purge and
  the worker, meet in the index, which such faults only empty. Nothing but time
  happens at clock 1, so a row is fresh or stale and never in between.
* `gate_recheck` (`TimedStep`): the clock matters to what a re-check scans and
  stamps, so it moves while one runs.
* `gate_approved`: the console's purge, and a temp file a crash left, meet one
  request at a time.
* `fetch_reply`: the second fetch sets out while the first is on its way to its
  mirrors, and the first while the second rests and no circuit is open.
* `policy_index`: requests and edits meet in the policy in force alone, so a client
  moves beside one editor and two clients move beside none.
* `telemetry`: the log and the feed meet in the order of a recorder's steps. Either
  the log is written, pruned and paged through, or events of one kind are streamed
  and the process ends; a request's work has a duration in the second half only.
* `scan_stack`: the three parts share the clock and osv.dev's sample, so lookups that
  fail move beside `/ready`.

What a constraint cuts off, the theorems cover for the safety properties. Liveness
is checked against the module's own fairness: the constraint of `fetch_reply`
restrains the beginning of a fetch only, that of `gate_recheck` the clock, and that of
`telemetry` nothing fair once the process drains. In `cache_faults` it may put off
the worker or a call until the other has returned or the clock has moved on; a
behaviour that puts one off for ever is left out. In `scan_stack` fairness is stated
of the steps the constraint allows. `OutageNoticed` is
tight: with a bound smaller by one, TLC finds an outage that is not noticed yet.

**Fairness.** `FairSpec` assumes what the Go scheduler and the timeouts give: a
goroutine that can take a step eventually does, the worker included, and time
passes. It assumes nothing of clients (no call has to begin), of upstreams
(headers arrive or the idle timeout ends the call, with any outcome), or of
statements (one that may fail may fail each time). The body of a metadata document
ends by the 30 seconds of the adapters' client (`cmd/jo-ei/upstream.go:100`); that of
a download or a proxied request has the idle timeout alone, on purpose
(`upstream.go:97-99`: "a slow but steady transfer is never cut off"), so nothing says
that it ends, and `FetchEnds` exempts a fetch that reads one for ever
(`Unbounded`), while the fetches beside it must end. It needs strong fairness for a slot,
because the senders that wait on a Go channel are served first in, first out, and
for a token, because `reserve` always succeeds and only the bound `MaxDebt` of the model
ever keeps it waiting. `EvictionConverges` is checked
without failing statements: a worker whose queries or DELETEs fail gives up until
the next Put (`Disturbed`).
`ShutdownEnds` counts on recorders and streams that run and on the write deadline
of a stream, not on clients leaving, on requests whose work ends (one that goes on for
ever holds the drain, `HeldUp`) nor on the drain deadline; it needs strong fairness for
the end of the prune loop, whose `select` may pick a tick instead of the closed
channel now and then. `ScanEnds` needs it for a slot: waiters of a Go channel are
served first in, first out. `ReadyRecovers` assumes that `/ready` is polled and
that not every poll is given up before the database answers.

`accounts` starts at clock 4 because its warm table takes that many writes. Two
more are enough for the races it is about: two changes of one row behind a
handler's back, two handlers that demote each other, a deletion and a new user
of the same name. Requests and passwords are interchangeable there (`Symmetry`);
symmetry is used only in runs without liveness properties.

## 4. Proofs

* `CacheTyped` and `CacheNeverTorn` (ArtifactCacheProofs) hold for
  any sets of references, contents and callers, any size function, any bounds
  and any set of faults. `NoTornFile` is not inductive: a rename would break it
  if the temp file were not synced. The inductive invariant is `IInv == TypeOK
  /\ TempInv /\ SyncedInv`: which bytes a temp file has at each place of a Put
  (`TempInv`), and that whatever is under a final name, in memory or on disk, was
  synced before it was named (`SyncedInv`). Each group of actions has a lemma that
  keeps `IInv`; steps outside Put share `OutsideKeeps`.
* `IndexRefines` and `DirectoryRefines` (ArtifactCacheProofs): the initial states map
  to initial states of `LossyStore`, and every step to one of its steps or to none.
  Beside `IInv` the mapping needs `StoreInv`: a goroutine holds a row only while Get
  runs or answers, or a new reference would change what it was shown; and a
  Put's temp file is a copy of its own artifact, or the rename would place
  something else than what is on offer. That a power loss finds the directory
  whole is `SyncedInv`. A goroutine's step leaves the others' locals alone (`Apart`), so
  each action is shown on the goroutine that takes it (`Framed`), in the lemmas
  `IndexGet`, `IndexPut`, `IndexRest`, `IndexWorker` and their counterparts.
* `EvictionsKept` (ArtifactCacheProofs): `NoLostEviction` is the safety half of
  `EvictionConverges`. It holds although signals are dropped, because the worker
  rests only after it measured a total within the limit, and the total grows by an
  INSERT alone, which a signal follows. `WorkerInv` adds what that needs: without
  failing statements a batch that was worked off made progress, so the worker
  measures again. The stored bytes stay a finite set, so their number is monotone in
  the rows. `PurgesShrink` is the safety half of `PurgeTerminates`: by `CutoffInv` a
  purge's cutoff is never ahead of the clock, and every row that is new or was hit
  carries the clock as its call read it (`CallerRows`). A call that reads the clock
  during the purge is at the cutoff or after it (`CallerClock`), so only one that read
  it earlier and still waits for the connection (`Late`) can add a candidate.
* `GateApproves` and `GateStoresApproved` (PackageGateProofs): for any number of
  requests and contents and any configuration of gates, what is served has been
  approved. `ServedApproved` says nothing of the cache, so the inductive
  invariant `CacheInv /\ RequestInv` adds it: every file, temp file, `disk`
  image and Put argument holds approved bytes (`CacheInv`), and a request past a
  gate has that gate in `cleared` (`RequestInv`).

* `GateCoalesces`, `GateUsesCache`, `GateNeverTorn` and `StampsHonest`
  (PackageGateProofs). `FlightInv` says who leads the re-check of a reference
  and that nobody waits without a leader; `StampInv` that a leader's reading of the
  clock is not ahead of the clock, nor of the scan it made. With them every step of
  the gate is shown to be a step of the cache or none (`StepUsesCache`), so the gate
  implements the cache's specification and inherits what is proved of it
  (`GateKeepsStore`: behind the proxy too the cache is both stores and loses no
  eviction); the action property `RecheckStampHonest` follows from both.
* `SlotsNeverLeak` (UpstreamFetchProofs): any hosts, calls,
  limits, Retry-After and width of a duration. `SlotsExact` is inductive once calls
  are known to name a host and the calls on the network to be finitely many.
  `FetchUsesTransport` shows that the loops over the mirrors implement the
  transport's specification (`NetSpec`). For `RepliesJustified`: `ReplyJustified` speaks
  of replies; `Fetched` adds that until then a fetch's attempts are what its
  mirrors said and that it never runs out of mirrors without an attempt, which
  is what separates 404 from 502.
* `AccountsTyped`, `AdminAlwaysRemains`, `TokensDie`, `StreamsEnd` and
  `LockoutsEarned` (AccountsProofs) hold for any users, requests, limits and number
  of writes. A
  token's check compares versions only, so the invariant `IInv` says what a
  version is worth: `Sound` (no claim is ahead of its row or, for a name without
  a row, ahead of the clock, and a claim of the row's own version was made over
  the row's last change) for every token and every row a request holds
  (`TokensSound`, `RowsHeld`), and no row is ahead of the clock (`Versions`).
  `AdminRemains` needs in turn that a handler behind the middleware runs only when there
  are users (`RowsHeld`), or the console could make an operator the first
  user. The proof shows that every action is a `StepOK` (a `Legal` write or none,
  and a row kept, dropped or just read) and that `StepOK` keeps `IInv`.
  `LockoutEarned` counts: `EarnedInv` adds that the checks under way are finitely
  many, and every step enters a check, leaves one, or does neither.
* `PolicyIsRegister`, `StoredInForce`, `DocumentsSafe`, `NothingHiddenIdly` and
  `DocumentsOwn` (MetadataFilterProofs). The refinement `OnePolicy` rests on
  `PolicyInv`: the lock names the one writer (`LockHeld`), what it holds was worked
  out from the policy still in force (`EditSound`), and the row is that policy or
  the one about to be installed (`RowSound`). A crash between the write and the swap
  maps to a restart that applied the edit. The documents' properties speak of
  answered requests; `DocInv` says of a request at work what each version has
  behind it. `SafeDocument` excepts an index answer that was relayed, and `DocInv`
  shows that nothing but an index ever is.
* `ScansFailClosed`, `EnginesStayBounded`, `AnswersStayFresh` and `OutagesNoticed`
  (ReadinessProofs). The three parts meet in the clock alone and each has its own
  invariant. A scan: what a client made of a reply (`Faithful`), and that engines
  work only for a scan that holds a slot (`InStep`). A lookup: an entry's age and
  what is left of its life never exceed the bound together (`Aging`); that is why
  an answer that was overtaken does no harm. `/ready`: `DueIn` is the time within
  which the probe of an engine ends next, through this pass, a pending tick or the
  next one, and the time an engine has been away plus `DueIn` never exceeds an
  interval and a pass (`Noticing`).
* `TypesHold`, `FlightsAttended`, `BlocksHold`, `StaleOnFailureOnly` and `BlobsGated`
  (DockerGateProofs), for manifests with any number of layers. `Crew` (who leads,
  who waits, which layer is next), `StoreInv` (a manifest that is blocked has no
  clean verdict in the store), `AnswerInv` (what an expired verdict kept aside and
  an answer on its way are worth) and `Gated` (a clean blob was scanned) are
  inductive together. That the remembered attestation blobs stay within their
  bound is an induction over the blobs a manifest lists; the library's induction
  rules being out of the provers' reach, it goes by the least number of blobs for
  which it would fail (`LeastNumber`).
* `FeedTyped`, `TalliesExact`, `WalksComplete`, `FeedsComplete` and `ClosesOrderly`
  (EventFeedProofs). `Recording` says who holds the connection and `Viewing` that a
  transaction's copy is the tables with its statements so far, so a commit keeps
  `Tables` (log, counters and days are what was booked). `Paging` says that a
  reader's cursor is the last row it saw and that all it is owed is seen or still
  ahead of the cursor; that a page takes the first of the rows ahead rests on every
  finite set of rows having a newest, again by the least number. `Feeding` is about
  the streams. `Ending` is about the shutdown: once the closers run, no handler is left
  and none begins, unless `cut` says why.

They rest on the named assumptions of the modules (`CacheAssumption`,
`GateAssumption`, `TransportAssumption`, `FetchAssumption`, `AccountsAssumption`,
`DockerAssumption`, `PolicyAssumption`, `MetadataAssumption`, `LogAssumption`,
`FeedAssumption`, `ScanAssumption`, `LookupAssumption`, `ReadyAssumption`), which the
runs evaluate: types of the constants, and that what stands for absence is not a
value. The policy's says that the edits of the console decode to the types of
`RuntimeParams` and nothing about their values; that of readiness that there is an
engine to probe and that timeouts are not zero. None bounds a number of actors.

Every invariant and action property of the passing runs is proved. What stays with
TLC is liveness under fairness (`PurgeTerminates`, `EvictionConverges`, `Answered`,
`CircuitCloses`, `FetchEnds`, `ShutdownEnds`, `ScanEnds`, `ReadyRecovers`), which the
prover has no rules for, and the violation that `docker_rescan` shows.

## 5. Observed divergences

One has a run of its own (`docker_rescan`). The others, met while modelling; of the
first five TLC shows a behaviour on the modules as they are:

* `invalidate` removes the file and then the row without a lock. A Put of the same
  reference that renames its file between the two and inserts its row before the
  DELETE loses the row and keeps the file (`local.go:158`; the comment at 146 says
  an entry is removed "from both the index and disk"). Nothing counts or evicts
  that file until the reference is cached again. `IndexIsStore` and
  `DirectoryIsStore` hold all the same: each half of the entry is a store, the pair is not.
* The temp file of a Put stays for ever when its removal fails, whose error is
  ignored (`local.go:116`, `120`), or when the process ends within the Put: nothing
  looks for `.put-*` files at start, and the size limit does not count them.
* A hit may set `last_hit` back: the clock is read before the statement waits for the
  connection (`index.go:287`), and a Put's times likewise (`local.go:128`). A row can so
  become stale for a purge that is already running.
* A change of password compares the old one with the row it read and writes after
  two slow hashes (`internal/auth/handlers.go:274`). A reset by an administrator in
  between is overwritten: its temporary password never works, and
  `must_change_password` is cleared by someone who has not shown it
  (docs/configuration.md:517: "the user must change it at next sign-in").
* A success that answers a request sent before a throttle closes the circuit during
  its cooldown (`circuitbreaker.go:78`, comment at 22-27).
* The eviction worker can take an entry between a request's Put and its Get, which
  then answers 500 (`handler.go:350`, comment at 352: "Should not happen").
* An index or attestation whose verdict has expired is answered with an error when
  the verdict store fails (`dockerproxy/gate.go:341`), while the comment at 107-109
  says the expired verdict is served.
* A docker block whose verdict cannot be stored (`gate.go:285`) leaves an older
  clean verdict in place, which the next outage may serve.
* Layers found clean before an infected one of the same image stay in the cache and
  are served on direct requests (`handler.go:288`), while docs/architecture.md:107
  says an image is "never partially served".
* The eviction of blobs follows the leader's reading of the verdict (`gate.go:226`);
  a waiter may have read another state, contrary to the comment at 221-224.
* A blob the cache has evicted is a 404 for as long as its image's verdict is fresh,
  without end when verdicts never expire (`handler.go:293`).
* `evictToSize` works off a whole batch although the total may be under the limit
  by then (`local.go:256`, comment at 243: "until total size is at or below
  maxBytes").
* With `synchronous=NORMAL` a power loss takes back inserted and deleted rows, not
  "only the last hit counts" (`index.go:56-58`).
* A fresh row's check times are the time of the insert, later than the scans they
  stand for (`index.go:244`, `cache.go:21-22`).
* A request that waits in a limiter while the circuit opens is still sent
  (`circuitbreaker.go:67`, comment at 23-24).
* A Retry-After above about 9.2e9 seconds overflows `time.Duration` and leaves the
  circuit closed (`circuitbreaker.go:186`).
* A Retry-After longer than the maximal cooldown (20 seconds) is cut to it
  (`circuitbreaker.go:141-143`, which the breaker's tests rely on), while the comments
  at `cmd/jo-ei/upstream.go:15-17` ("honors Retry-After when sent; these bound the
  fallback exponential cooldown when it is absent") and `circuitbreaker.go:47-48`, and
  docs/configuration.md:74, say that it is honoured. No property is stated of it.
* The concurrency slot is free once headers arrive; transfers of bodies are not
  counted (`limiter.go:62`, comment at 9-10).
* A throttle answer lacks its Retry-After, or says 429 for a mirror that was
  skipped for a 503, when the circuit has closed by the time the attempts are
  summed up (`attempts.go:123-126`, README.md:436).
* A proxied request can be answered 429 or 503, which `handler.go:603` leaves out.
* Signing out clears the browser's cookies only (`handlers.go:175-183` of
  `internal/auth`); docs/configuration.md:565 says it "revokes the session",
  README.md:349 that tokens stay valid.
* A login that succeeds after its limiter window has ended takes one failure off the
  next window's count (`ratelimit.go:105`, comment at 96-98).
* A change of password signs its new session for the row it reads back
  (`internal/auth/handlers.go:285`), which may be one an administrator has reset
  or created anew since.
* A download whose publish-date lookup finds nothing on any mirror is answered 502
  (`handler.go:231`), while README.md:434 says 404.
* `/ready` is evaluated with the context of the poll that finds no young answer
  (`ready.go:61`): a client that disconnects during the check leaves a 503 naming
  the database for everybody, for two seconds.
* A lookup that its own caller cancelled counts as a failure of osv.dev in the
  health sample (`osv.go:268`), and an answer that was overtaken replaces a newer
  one. Its lifetime comes on top of the gate's own re-check interval.
* The clients of clamd and ICAP watch their context while they dial; a scan that is
  cancelled later holds its slot until the reply or the deadline.
* The policy stored in the database wins over the YAML file at every start
  (`NewRuntimeWithStore`), while the comment at `runtime.go:46-47` says that the
  file wins again after a restart.
* The policy of the YAML file is not validated: a misspelt mode enforces, and every
  list edit that changes something is refused with 400 until a PUT sets the mode.
* With `cve.enabled: false` the denylist is not enforced on downloads, as the start
  warns; a denylisted package that is cached is served until its re-check is due.
* An index answer without a document is relayed as it is (`index.go:50-63`), while the
  comment at 22-25 says that "every path that cannot rewrite fails the request
  instead" and `metadata.go:265-271` refuses the same answers for a packument: a
  redirect the HTTP client did not follow leads the client to upstream, and an
  unsolicited 304 leaves it the copy it has, from wherever. `SafeDocument` excepts
  these answers.
* The metadata filter asks two rules at two moments: a version that is too young at
  first and denylisted later may be listed although it was refused at every
  moment. The download is refused all the same; `SafeDocument` is stated per rule.
* A block by the image scan or the cache raises `blocked` and no gate's counter; in
  Maven's order, and on a re-check, a block by CVE counts as a pass of the
  supply-chain gate though that was not asked (`aggregate.go:40`).
* A client told that its image scan is in progress is recorded again when the scan
  ends (`dockerproxy/handler.go:205`), so one pull may be two events.
* A page whose query fails looks like an empty last page (`store.go:132`); an event
  recorded late for a day already pruned creates a row with that event alone.
* The counters are stored and outlive the process, while the comment at
  `telemetry/store.go:25` says "since process start". The log is modelled without a
  restart, where both mean the same.
* When the main server fails, `serveWith` returns at once (`serve.go:102-103`) and the
  closers run while handlers are still at work, without a drain: a Put among them
  meets a closed channel.
* After the drain deadline `srv.Close` does not wait for handlers, and detached work
  outlives the drain: both may meet a closed cache or database.

## 6. Plan

Built so far, in the order of importance: the artifact cache, the gate over it,
the transport and the fetch over it, accounts, the docker gate; then the policy
with the index documents filtered by it, telemetry with the shutdown, and the
scanners with readiness; then the proofs of every safety property; last the
abstract store behind the cache and the safety half of its liveness properties.
Worth doing next: theorems for the types of the other modules; the safety
half of the other liveness properties (what a waiting request waits for, as
`OneFlightPerRef` and `Attended` say of flights) for the limiter's slots; and a
docker gate over `LossyStore` instead of entries of its own, which would bring in
the power loss that `DockerGate` leaves out (there an entry may vanish, but an
older verdict does not come back).

## 7. Not modelled

Registry-specific parsing and URL building, the bytes of rewritten documents, the
framing of the ClamAV, ICAP, OSV and Trivy protocols, metrics, logging,
configuration parsing, TLS, client address detection, routing, schema migration
and backup, and the web UI: stateless or pure I/O. What they deliver enters the
models as data. Of the console, the registries page and the read-only views are
left out; of telemetry, the text filter and the quarantine view; of the health
monitor and the vulnerability scanner, `Close`, which only stops a loop.
