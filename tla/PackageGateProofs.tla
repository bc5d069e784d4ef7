------------------------- MODULE PackageGateProofs -------------------------
(***************************************************************************)
(* The proxy never serves an artifact that has not been approved: proved   *)
(* for any number of concurrent requests, references and contents, any     *)
(* cache limit and any combination of failures, crashes and power losses.  *)
(*                                                                         *)
(* ServedApproved is not inductive: the bytes a request is answered with   *)
(* come from a file some other request put there.  The invariant follows   *)
(* approval along that way, from the gates a request has cleared, over the *)
(* arguments of its Put and its temp file, to the files under their final  *)
(* names and the ones a power loss would leave.                            *)
(*                                                                         *)
(* Two more parts complete it: FlightInv, who leads the re-check of a      *)
(* reference and who waits for it, and StampInv, that a leader's reading   *)
(* of the clock is not later than its scan.  With them every step of the   *)
(* gate is a step of the cache, so what is proved of the cache holds here. *)
(***************************************************************************)
EXTENDS PackageGate, TLAPS

Threads  == Cache!Threads
PutSteps == Cache!PutPCs \cup {"put_create"}

Fcn(f, S) == f = [x \in S |-> f[x]]

Approved(r, f) == f # NoFile => f \in Cache!File /\ <<r, f.src>> \in good

\* What a goroutine is about to store, and what it has in its temp file.
PutApproved(t) ==
  /\ pc[t] = "put_create" => arg[t] \in Cache!Arg /\ <<ref[t], arg[t].src>> \in good
  /\ pc[t] \in Cache!PutPCs => tmp[t] \in Cache!File /\ <<ref[t], tmp[t].src>> \in good

CacheInv ==
  /\ Fcn(pc, Threads) /\ Fcn(ref, Threads) /\ Fcn(arg, Threads) /\ Fcn(tmp, Threads)
  /\ Fcn(file, Refs) /\ Fcn(disk, Refs)
  /\ \A t \in Threads : PutApproved(t)
  /\ \A r \in Refs : Approved(r, file[r]) /\ Approved(r, disk[r])

CVECleared(q)    == HasCVE /\ HasPolicy => "cve" \in cleared[q]
SupplyCleared(q) == "supply" \in cleared[q]

\* The gates a request has behind it at each stage.
GatesInv(q) ==
  /\ hpc[q] = "cve" => Deferred \/ SupplyCleared(q)
  /\ hpc[q] = "download" => CVECleared(q) /\ (Deferred \/ SupplyCleared(q))
  /\ hpc[q] = "supply_late" => CVECleared(q) /\ body[q] \in Contents
  /\ hpc[q] = "malware" => CVECleared(q) /\ SupplyCleared(q) /\ body[q] \in Contents
  /\ served[q] # Nobody => hpc[q] = "done" /\ <<hreq[q], served[q]>> \in good

RequestInv ==
  /\ Fcn(hpc, Requests) /\ Fcn(body, Requests) /\ Fcn(cleared, Requests) /\ Fcn(served, Requests)
  /\ hreq \in [Requests -> Refs]
  /\ \A q \in Requests : GatesInv(q)

IInv == CacheInv /\ RequestInv

\* A step of goroutine t outside the writing part of Put: no temp file is
\* written, files can only disappear.
Aside(t) ==
  /\ \E l : l \notin PutSteps /\ pc' = [pc EXCEPT ![t] = l]
  /\ \E x : ref' = [ref EXCEPT ![t] = x]
  /\ \E x : arg' = [arg EXCEPT ![t] = x]
  /\ UNCHANGED <<tmp, disk>>
  /\ \/ UNCHANGED file
     \/ \E r \in Refs : file' = [file EXCEPT ![r] = NoFile]
     \/ \E r : r \notin Refs /\ file' = [file EXCEPT ![r] = NoFile]

LEMMA AsideKeeps ==
  ASSUME CacheInv, NEW t \in Threads, Aside(t), good \subseteq good'
  PROVE  CacheInv'
<1>1. Fcn(pc, Threads)' /\ Fcn(ref, Threads)' /\ Fcn(arg, Threads)' /\ Fcn(tmp, Threads)'
  BY DEF CacheInv, Aside, Fcn
<1>2. Fcn(file, Refs)' /\ Fcn(disk, Refs)'
  BY DEF CacheInv, Aside, Fcn
<1>3. ASSUME NEW u \in Threads PROVE PutApproved(u)'
  <2>1. CASE u = t
    BY <2>1 DEF CacheInv, Aside, Fcn, PutApproved, PutSteps
  <2>2. CASE u # t
    BY <2>2 DEF CacheInv, Aside, Fcn, PutApproved
  <2> QED
    BY <2>1, <2>2
<1>4. ASSUME NEW r \in Refs PROVE Approved(r, file[r])' /\ Approved(r, disk[r])'
  BY DEF CacheInv, Aside, Fcn, Approved
<1> QED
  BY <1>1, <1>2, <1>3, <1>4 DEF CacheInv

LEMMA UnchangedKeeps ==
  ASSUME CacheInv, UNCHANGED <<pc, ref, arg, tmp, file, disk>>, good \subseteq good'
  PROVE  CacheInv'
  BY DEF CacheInv, Fcn, PutApproved, Approved

\* A function that does not change is updated with the value it has.
LEMMA SameUpdate ==
  ASSUME NEW f, Fcn(f, Threads), NEW t \in Threads
  PROVE  \E x : f = [f EXCEPT ![t] = x]
<1>1. f = [f EXCEPT ![t] = f[t]]
  BY DEF Fcn
<1> QED
  BY <1>1

\* The cache's steps other than Put's writing are aside of it.
LEMMA CallsAside ==
  ASSUME CacheInv, NEW t \in Threads,
         \/ Cache!GetRow(t) \/ Cache!GetStat(t) \/ Cache!GetHeal(t) \/ Cache!ReadClock(t) \/ Cache!GetTouch(t)
         \/ Cache!PutInsert(t) \/ Cache!PutUndo(t) \/ Cache!PutSignal(t)
         \/ Cache!InvRow(t) \/ Cache!InvRemove(t) \/ Cache!InvDelete(t)
         \/ Cache!SweepNext(t) \/ Cache!PurgePick(t) \/ Cache!PurgeRound(t)
         \/ Cache!Return(t) \/ Cache!BeginPurge(t)
         \/ (\E r : Cache!BeginGet(t, r) \/ Cache!BeginInvalidate(t, r))
  PROVE  Aside(t)
<1> USE DEF Aside, Cache!Goto, Cache!storeVars, Cache!callVars, Cache!sweepVars, PutSteps, Cache!PutPCs
<1>0. (\E x : ref = [ref EXCEPT ![t] = x]) /\ (\E x : arg = [arg EXCEPT ![t] = x])
  BY SameUpdate DEF CacheInv
<1>1. CASE Cache!GetRow(t) \/ Cache!GetStat(t) \/ Cache!GetHeal(t) \/ Cache!ReadClock(t) \/ Cache!GetTouch(t)
  BY <1>0, <1>1 DEF Cache!GetRow, Cache!GetStat, Cache!GetHeal, Cache!ReadClock, Cache!GetTouch
<1>2. CASE Cache!PutInsert(t) \/ Cache!PutSignal(t)
  BY <1>0, <1>2 DEF Cache!PutInsert, Cache!PutSignal
<1>3. CASE Cache!PutUndo(t) \/ Cache!InvRemove(t)
  BY <1>0, <1>3 DEF Cache!PutUndo, Cache!InvRemove
<1>4. CASE Cache!InvRow(t) \/ Cache!InvDelete(t)
  BY <1>0, <1>4 DEF Cache!InvRow, Cache!InvDelete, Cache!InvReturn
<1>5. CASE Cache!SweepNext(t)
  BY <1>0, <1>5 DEF Cache!SweepNext
<1>6. CASE Cache!PurgePick(t) \/ Cache!PurgeRound(t) \/ Cache!BeginPurge(t)
  BY <1>0, <1>6 DEF Cache!PurgePick, Cache!PurgeRound, Cache!BeginPurge
<1>7. CASE Cache!Return(t)
  BY <1>7 DEF Cache!Return, Cache!End
<1>8. CASE \E r : Cache!BeginGet(t, r) \/ Cache!BeginInvalidate(t, r)
  BY <1>0, <1>8 DEF Cache!BeginGet, Cache!BeginInvalidate
<1> QED
  BY <1>1, <1>2, <1>3, <1>4, <1>5, <1>6, <1>7, <1>8

\* Put's temp file carries the approved content to the final name.
LEMMA CopyKeeps ==
  ASSUME CacheInv, NEW t \in Threads, good' = good,
         Cache!PutCreate(t) \/ Cache!PutWrite(t) \/ Cache!PutSync(t) \/ Cache!PutRename(t)
  PROVE  CacheInv'
<1> USE DEF Cache!Goto, Cache!PutAbort, Cache!storeVars, Cache!sweepVars
<1>1. /\ Fcn(pc, Threads)' /\ Fcn(ref, Threads)' /\ Fcn(arg, Threads)' /\ Fcn(tmp, Threads)'
      /\ Fcn(file, Refs)' /\ Fcn(disk, Refs)'
  BY DEF CacheInv, Fcn, Cache!PutCreate, Cache!PutWrite, Cache!PutSync, Cache!PutRename
<1>2. ASSUME NEW u \in Threads, u # t PROVE PutApproved(u)'
  BY <1>2 DEF CacheInv, Fcn, PutApproved, Cache!PutCreate, Cache!PutWrite, Cache!PutSync, Cache!PutRename
<1>3. PutApproved(t)'
  <2>0. PutApproved(t) /\ Fcn(pc, Threads) /\ Fcn(tmp, Threads)
    BY DEF CacheInv
  <2>1. CASE Cache!PutCreate(t)
    <3>1. arg[t] \in Cache!Arg /\ <<ref[t], arg[t].src>> \in good
      BY <2>0, <2>1 DEF PutApproved, Cache!PutCreate
    <3>2. [src |-> arg[t].src, bytes |-> "partial"] \in Cache!File
      BY <3>1 DEF Cache!Arg, Cache!File
    <3> QED
      BY <2>0, <2>1, <3>1, <3>2 DEF Fcn, PutApproved, Cache!PutCreate, Cache!PutPCs
  <2>2. CASE Cache!PutWrite(t) \/ Cache!PutSync(t)
    <3>1. tmp[t] \in Cache!File /\ <<ref[t], tmp[t].src>> \in good
      BY <2>0, <2>2 DEF PutApproved, Cache!PutWrite, Cache!PutSync, Cache!PutPCs
    <3>2. ASSUME NEW b \in {"written", "synced"}
          PROVE  [tmp[t] EXCEPT !.bytes = b] \in Cache!File /\ [tmp[t] EXCEPT !.bytes = b].src = tmp[t].src
      BY <3>1 DEF Cache!File
    <3> QED
      BY <2>0, <2>2, <3>1, <3>2 DEF Fcn, PutApproved, Cache!PutWrite, Cache!PutSync, Cache!PutPCs
  <2>3. CASE Cache!PutRename(t)
    BY <2>0, <2>3 DEF Fcn, PutApproved, Cache!PutRename, Cache!PutPCs
  <2> QED
    BY <2>1, <2>2, <2>3
<1>4. ASSUME NEW r \in Refs PROVE Approved(r, file[r])' /\ Approved(r, disk[r])'
  <2>1. CASE Cache!PutRename(t)
    <3>1. tmp[t] \in Cache!File /\ <<ref[t], tmp[t].src>> \in good
      BY <2>1 DEF CacheInv, PutApproved, Cache!PutRename, Cache!PutPCs
    <3> QED
      BY <2>1, <3>1 DEF CacheInv, Fcn, Approved, Cache!PutRename
  <2>2. CASE ~Cache!PutRename(t)
    BY <2>2 DEF CacheInv, Approved, Cache!PutCreate, Cache!PutWrite, Cache!PutSync
  <2> QED
    BY <2>1, <2>2
<1> QED
  BY <1>1, <1>2, <1>3, <1>4 DEF CacheInv

LEMMA WorkerKeeps ==
  ASSUME CacheInv, Cache!WorkerStep, good' = good
  PROVE  CacheInv'
<1>0. Evictor \in Threads
  BY DEF Threads, Cache!Threads
<1>1. CASE Cache!SweepNext(Evictor) \/ Cache!InvRow(Evictor) \/ Cache!InvRemove(Evictor) \/ Cache!InvDelete(Evictor)
  BY <1>0, <1>1, CallsAside, AsideKeeps
<1>2. CASE Cache!EvictWake /\ pc' = pc
  BY <1>2, UnchangedKeeps DEF Cache!EvictWake, Cache!storeVars
<1>3. CASE \/ Cache!EvictWake /\ pc' # pc
           \/ Cache!EvictSize \/ Cache!EvictPick \/ Cache!EvictRound \/ Cache!EvictDone
  <2>0. (\E x : ref = [ref EXCEPT ![Evictor] = x]) /\ (\E x : arg = [arg EXCEPT ![Evictor] = x])
    BY <1>0, SameUpdate DEF CacheInv
  <2>1. Aside(Evictor)
    BY <1>3, <2>0 DEF Cache!EvictWake, Cache!EvictSize, Cache!EvictPick, Cache!EvictRound, Cache!EvictDone,
       Cache!End, Cache!Goto, Cache!storeVars, Cache!callVars, Cache!sweepVars, Aside, PutSteps, Cache!PutPCs
  <2> QED
    BY <1>0, <2>1, AsideKeeps
<1> QED
  BY <1>1, <1>2, <1>3 DEF Cache!WorkerStep

\* A restart keeps what was named; a power loss goes back to an older name.
LEMMA RestartKeeps ==
  ASSUME CacheInv, Cache!Crash \/ Cache!Exit \/ Cache!PowerLoss, good' = good
  PROVE  CacheInv'
<1>1. Cache!Reboot
  BY DEF Cache!Crash, Cache!Exit, Cache!PowerLoss
<1>2. Fcn(pc, Threads)' /\ Fcn(ref, Threads)' /\ Fcn(arg, Threads)' /\ Fcn(tmp, Threads)'
  BY <1>1 DEF Cache!Reboot, Cache!Crash, Cache!Exit, Cache!PowerLoss, CacheInv, Fcn, Threads
<1>3. ASSUME NEW t \in Threads PROVE PutApproved(t)'
  BY <1>1 DEF Cache!Reboot, PutApproved, Cache!PutPCs, Threads
<1>4. ASSUME NEW r \in Refs
      PROVE  Approved(r, Cache!Torn(disk[r]))
  BY DEF CacheInv, Approved, Cache!Torn, Cache!File
<1>5. /\ Fcn(file, Refs)' /\ Fcn(disk, Refs)'
      /\ \A r \in Refs : Approved(r, file[r])' /\ Approved(r, disk[r])'
  <2>1. CASE Cache!Crash \/ Cache!Exit
    BY <2>1 DEF Cache!Crash, Cache!Exit, CacheInv, Fcn, Approved
  <2>2. CASE Cache!PowerLoss
    BY <1>4, <2>2 DEF Cache!PowerLoss, Fcn, Approved
  <2> QED
    BY <2>1, <2>2
<1> QED
  BY <1>2, <1>3, <1>5 DEF CacheInv

LEMMA EnvironmentKeeps ==
  ASSUME CacheInv, Environment
  PROVE  CacheInv'
<1>1. good' = good /\ UNCHANGED <<pc, ref, arg, tmp, file>>
  BY DEF Environment, gateVars, historyVars, Cache!Tick, Cache!Close, Cache!CloseIndex, Cache!Checkpoint,
     Cache!SyncDir, Cache!storeVars, Cache!callVars
<1>2. UNCHANGED disk \/ \E r \in Refs : disk' = [disk EXCEPT ![r] = file[r]]
  BY DEF Environment, Cache!Tick, Cache!Close, Cache!CloseIndex, Cache!Checkpoint, Cache!SyncDir
<1> QED
  BY <1>1, <1>2 DEF CacheInv, Fcn, PutApproved, Approved
-----------------------------------------------------------------------------
\* The stages at which GatesInv asks something of a request.
GateStages == {"cve", "download", "supply_late", "malware"}

\* A request goes on to a stage that asks nothing of it.
LEMMA PlainStep ==
  ASSUME RequestInv, NEW q \in Requests, hpc[q] # "done",
         NEW l, l \notin GateStages, hpc' = [hpc EXCEPT ![q] = l],
         UNCHANGED <<served, body, cleared>>, good \subseteq good',
         hreq' \in [Requests -> Refs], \A p \in Requests \ {q} : hreq'[p] = hreq[p]
  PROVE  RequestInv'
<1>1. Fcn(hpc, Requests)' /\ Fcn(body, Requests)' /\ Fcn(cleared, Requests)' /\ Fcn(served, Requests)'
  BY DEF RequestInv, Fcn
<1>2. ASSUME NEW p \in Requests PROVE GatesInv(p)'
  <2>1. CASE p = q
    BY <2>1 DEF RequestInv, Fcn, GatesInv, GateStages
  <2>2. CASE p # q
    BY <2>2 DEF RequestInv, Fcn, GatesInv, CVECleared, SupplyCleared
  <2> QED
    BY <2>1, <2>2
<1> QED
  BY <1>1, <1>2 DEF RequestInv

\* A flight lands: its leader and its waiters go on together.
LEMMA LandKeeps ==
  ASSUME RequestInv, NEW q \in Requests, hpc[q] # "done", NEW l, l \notin GateStages, Land(q, l),
         UNCHANGED <<served, body, cleared, hreq, good>>
  PROVE  RequestInv'
<1>1. Fcn(hpc, Requests)' /\ Fcn(body, Requests)' /\ Fcn(cleared, Requests)' /\ Fcn(served, Requests)'
  BY DEF RequestInv, Fcn, Land
<1>2. ASSUME NEW p \in Requests PROVE GatesInv(p)'
  <2>1. hpc'[p] = hpc[p] \/ (hpc'[p] = l /\ hpc[p] # "done")
    BY DEF Land
  <2> QED
    BY <2>1 DEF RequestInv, GatesInv, CVECleared, SupplyCleared, GateStages
<1> QED
  BY <1>1, <1>2 DEF RequestInv

LEMMA StillStep ==
  ASSUME RequestInv, UNCHANGED <<hpc, served, body, cleared, hreq, good>>
  PROVE  RequestInv'
  BY DEF RequestInv, Fcn, GatesInv, CVECleared, SupplyCleared

LEMMA CallersAreThreads == Requests \subseteq Threads /\ Consoles \subseteq Threads
  BY DEF Threads, Cache!Threads, Callers

\* The lookup and the lazy re-check.
LEMMA LookupKeeps ==
  ASSUME IInv, NEW q \in Requests,
         (\E r \in Refs : Arrive(q, r)) \/ LookupMiss(q) \/ LookupHit(q)
  PROVE  IInv'
<1> USE DEF IInv, historyVars
<1>1. CacheInv'
  <2>1. good' = good
    BY DEF Arrive, LookupMiss, LookupHit
  <2> QED
    BY <2>1, CallersAreThreads, CallsAside, AsideKeeps DEF Arrive, LookupMiss, LookupHit
<1>2. CASE \E r \in Refs : Arrive(q, r)
  <2>1. hreq' \in [Requests -> Refs] /\ \A p \in Requests \ {q} : hreq'[p] = hreq[p]
    BY <1>2 DEF Arrive, RequestInv
  <2> QED
    BY <1>1, <1>2, <2>1, PlainStep DEF Arrive, HGoto, GateStages, RequestInv
<1>3. CASE LookupHit(q)
  BY <1>1, <1>3, PlainStep DEF LookupHit, HGoto, Finish, GateStages, RequestInv
<1>4. CASE LookupMiss(q)
  BY <1>1, <1>4 DEF LookupMiss, HGoto, RequestInv, Fcn, GatesInv, CVECleared, SupplyCleared
<1> QED
  BY <1>2, <1>3, <1>4

LEMMA RecheckKeeps ==
  ASSUME IInv, NEW q \in Requests, Recheck(q)
  PROVE  IInv'
<1> USE DEF IInv, historyVars
<1>0. good' = good /\ UNCHANGED <<served, body, cleared, hreq>>
  BY DEF Recheck, CheckDue, RecheckCVE, MarkCVE, RecheckMal, MarkMal, Evicted, RecheckBlocked
<1>1. CacheInv'
  <2>1. CASE CheckDue(q) \/ MarkCVE(q) \/ MarkMal(q) \/ RecheckBlocked(q)
    BY <1>0, <2>1, UnchangedKeeps DEF CheckDue, MarkCVE, MarkMal, RecheckBlocked, cacheVars, callVars
  <2>2. CASE RecheckCVE(q) \/ RecheckMal(q)
    BY <1>0, <2>2, UnchangedKeeps, CallersAreThreads, CallsAside, AsideKeeps
       DEF RecheckCVE, RecheckMal, cacheVars, callVars
  <2>3. CASE Evicted(q)
    BY <1>0, <2>3, CallersAreThreads, CallsAside, AsideKeeps DEF Evicted
  <2> QED
    BY <2>1, <2>2, <2>3 DEF Recheck
<1>2. RequestInv'
  <2>0. hreq' \in [Requests -> Refs]
    BY <1>0 DEF RequestInv
  <2>1. CASE CheckDue(q) \/ RecheckCVE(q) \/ MarkCVE(q) \/ RecheckBlocked(q)
    BY <1>0, <2>0, <2>1, PlainStep
       DEF CheckDue, RecheckCVE, MarkCVE, RecheckBlocked, HGoto, Finish, GateStages
  <2>2. CASE RecheckMal(q)
    BY <1>0, <2>0, <2>2, PlainStep, LandKeeps DEF RecheckMal, HGoto, GateStages
  <2>3. CASE MarkMal(q) \/ Evicted(q)
    BY <1>0, <2>3, LandKeeps DEF MarkMal, Evicted, GateStages
  <2> QED
    BY <2>1, <2>2, <2>3 DEF Recheck
<1> QED
  BY <1>1, <1>2

\* The gates of a miss before the malware scan: each adds itself to cleared.
LEMMA GatesKeep ==
  ASSUME IInv, NEW q \in Requests, Supply(q) \/ ScanCVE(q) \/ Download(q) \/ SupplyLate(q)
  PROVE  IInv'
<1> USE GateAssumption DEF IInv, historyVars
<1>0. good' = good /\ UNCHANGED <<served, hreq>>
  BY DEF Supply, ScanCVE, Download, SupplyLate
<1>1. CacheInv'
  BY <1>0, UnchangedKeeps DEF Supply, ScanCVE, Download, SupplyLate, cacheVars, callVars
<1>2. Fcn(hpc, Requests)' /\ Fcn(body, Requests)' /\ Fcn(cleared, Requests)' /\ Fcn(served, Requests)'
  <2>1. CASE Supply(q) \/ SupplyLate(q)
    BY <1>0, <2>1 DEF Supply, SupplyLate, RequestInv, Fcn, HGoto, Finish
  <2>2. CASE ScanCVE(q)
    BY <1>0, <2>2 DEF ScanCVE, RequestInv, Fcn, HGoto, Finish
  <2>3. CASE Download(q)
    BY <1>0, <2>3 DEF Download, RequestInv, Fcn, HGoto, Finish
  <2> QED
    BY <2>1, <2>2, <2>3
<1>3. ASSUME NEW p \in Requests, p # q PROVE GatesInv(p)'
  <2>1. hpc'[p] = hpc[p] /\ body'[p] = body[p] /\ cleared'[p] = cleared[p]
    BY <1>3 DEF RequestInv, Fcn, HGoto, Finish, Supply, ScanCVE, Download, SupplyLate
  <2> QED
    BY <1>0, <2>1 DEF RequestInv, GatesInv, CVECleared, SupplyCleared
<1>4. GatesInv(q)'
  <2>0. GatesInv(q) /\ Fcn(hpc, Requests) /\ Fcn(cleared, Requests) /\ Fcn(body, Requests)
    BY DEF RequestInv
  <2> USE <1>0, <2>0 DEF Fcn, HGoto, Finish, GatesInv, CVECleared, SupplyCleared
  <2>1. CASE Supply(q)
    BY <2>1 DEF Supply
  <2>2. CASE ScanCVE(q)
    BY <2>2 DEF ScanCVE
  <2>3. CASE Download(q)
    BY <2>3 DEF Download
  <2>4. CASE SupplyLate(q)
    BY <2>4 DEF SupplyLate
  <2> QED
    BY <2>1, <2>2, <2>3, <2>4
<1> QED
  BY <1>0, <1>1, <1>2, <1>3, <1>4 DEF RequestInv

\* The malware gate: a Put starts only for a content that has cleared every
\* gate the configuration asks for.
LEMMA ScanMalwareKeeps ==
  ASSUME IInv, NEW q \in Requests, ScanMalware(q)
  PROVE  IInv'
<1> USE GateAssumption DEF IInv
<1>1. CASE Store(q)
  <2>1. body[q] \in Contents /\ CVECleared(q) /\ SupplyCleared(q)
    BY DEF ScanMalware, RequestInv, GatesInv
  <2>2. Required \subseteq cleared'[q]
    <3>1. cleared[q] \subseteq cleared'[q] /\ (HasAV => "malware" \in cleared'[q])
      BY <1>1 DEF ScanMalware, RequestInv, Fcn, Finish, HGoto, Store
    <3> QED
      BY <2>1, <3>1 DEF Required, CVECleared, SupplyCleared
  <2>3. good' = good \cup {<<hreq[q], body[q]>>}
    BY <1>1, <2>2 DEF Store
  <2>4. CacheInv'
    <3>1. /\ UNCHANGED <<tmp, file, disk>>
          /\ pc' = [pc EXCEPT ![q] = "put_create"]
          /\ ref' = [ref EXCEPT ![q] = hreq[q]]
          /\ arg' = [arg EXCEPT ![q] = [src |-> body[q], clean |-> TRUE]]
      BY <1>1 DEF Store, Cache!BeginPut, Cache!Goto, Cache!storeVars
    <3>2. /\ Fcn(pc, Threads)' /\ Fcn(ref, Threads)' /\ Fcn(arg, Threads)' /\ Fcn(tmp, Threads)'
          /\ Fcn(file, Refs)' /\ Fcn(disk, Refs)'
      BY <3>1 DEF CacheInv, Fcn
    <3>3. ASSUME NEW t \in Threads PROVE PutApproved(t)'
      <4>1. CASE t = q
        <5>1. [src |-> body[q], clean |-> TRUE] \in Cache!Arg
          BY <2>1 DEF Cache!Arg
        <5> QED
          BY <2>3, <3>1, <4>1, <5>1, CallersAreThreads DEF CacheInv, Fcn, PutApproved, Cache!PutPCs
      <4>2. CASE t # q
        BY <2>3, <3>1, <4>2 DEF CacheInv, Fcn, PutApproved
      <4> QED
        BY <4>1, <4>2
    <3>4. ASSUME NEW r \in Refs PROVE Approved(r, file[r])' /\ Approved(r, disk[r])'
      BY <2>3, <3>1 DEF CacheInv, Approved
    <3> QED
      BY <3>2, <3>3, <3>4 DEF CacheInv
  <2>5. RequestInv'
    <3>1. /\ hpc' = [hpc EXCEPT ![q] = "put"] /\ UNCHANGED <<served, body, hreq>>
          /\ \A p \in Requests \ {q} : cleared'[p] = cleared[p]
          /\ Fcn(cleared, Requests)'
      BY <1>1 DEF ScanMalware, Store, HGoto, RequestInv, Fcn
    <3>2. Fcn(hpc, Requests)' /\ Fcn(body, Requests)' /\ Fcn(served, Requests)'
      BY <3>1 DEF RequestInv, Fcn
    <3>3. ASSUME NEW p \in Requests PROVE GatesInv(p)'
      BY <2>3, <3>1 DEF ScanMalware, RequestInv, Fcn, GatesInv, CVECleared, SupplyCleared
    <3> QED
      BY <3>1, <3>2, <3>3 DEF RequestInv
  <2> QED
    BY <2>4, <2>5
<1>2. CASE ~Store(q)
  <2>1. good' = good /\ UNCHANGED <<served, body, cleared, hreq>> /\ UNCHANGED cacheVars
    BY <1>2 DEF ScanMalware
  <2>2. CacheInv'
    BY <2>1, UnchangedKeeps DEF cacheVars, callVars
  <2>3. RequestInv'
    BY <1>2, <2>1, PlainStep DEF ScanMalware, Finish, HGoto, GateStages, RequestInv
  <2> QED
    BY <2>2, <2>3
<1> QED
  BY <1>1, <1>2

\* Put, Get and the answer, whose bytes come from an approved file.
LEMMA ServeKeeps ==
  ASSUME IInv, NEW q \in Requests, Stored(q) \/ Reget(q) \/ Reload(q) \/ Serve(q) \/ Leave(q)
  PROVE  IInv'
<1> USE DEF IInv, historyVars
<1>0. good' = good
  BY DEF Stored, Reget, Reload, Serve, Leave
<1>1. CacheInv'
  BY <1>0, UnchangedKeeps, CallersAreThreads, CallsAside, AsideKeeps
     DEF Stored, Reget, Reload, Serve, Leave, cacheVars, callVars
<1>2. CASE Stored(q) \/ Reget(q) \/ Reload(q)
  BY <1>0, <1>1, <1>2, PlainStep DEF Stored, Reget, Reload, HGoto, Finish, GateStages, RequestInv
<1>3. CASE Serve(q)
  <2>1. /\ hpc' = [hpc EXCEPT ![q] = "done"] /\ UNCHANGED <<body, cleared, hreq>>
        /\ \/ served' = served
           \/ file[hreq[q]] # NoFile /\ served' = [served EXCEPT ![q] = file[hreq[q]].src]
    BY <1>3 DEF Serve, Finish, HGoto
  <2>2. file[hreq[q]] # NoFile => <<hreq[q], file[hreq[q]].src>> \in good
    BY DEF CacheInv, RequestInv, Approved
  <2>3. Fcn(hpc, Requests)' /\ Fcn(body, Requests)' /\ Fcn(cleared, Requests)' /\ Fcn(served, Requests)'
    BY <2>1 DEF RequestInv, Fcn
  <2>4. ASSUME NEW p \in Requests PROVE GatesInv(p)'
    BY <1>0, <2>1, <2>2 DEF RequestInv, Fcn, GatesInv, CVECleared, SupplyCleared
  <2> QED
    BY <1>1, <2>1, <2>3, <2>4 DEF RequestInv
<1>4. CASE Leave(q)
  <2>1. hreq' \in [Requests -> Refs]
    BY <1>4, GateAssumption DEF Leave, RequestInv, NoRef
  <2>2. Fcn(hpc, Requests)' /\ Fcn(body, Requests)' /\ Fcn(cleared, Requests)' /\ Fcn(served, Requests)'
    BY <1>4 DEF Leave, HGoto, RequestInv, Fcn
  <2>3. ASSUME NEW p \in Requests PROVE GatesInv(p)'
    BY <1>0, <1>4 DEF Leave, HGoto, RequestInv, Fcn, GatesInv, CVECleared, SupplyCleared
  <2> QED
    BY <1>1, <2>1, <2>2, <2>3 DEF RequestInv
<1> QED
  BY <1>2, <1>3, <1>4

LEMMA InitIInv == Init => IInv
<1> SUFFICES ASSUME Init PROVE IInv
  OBVIOUS
<1>1. CacheInv
  BY DEF Init, Cache!Init, Cache!Start, CacheInv, Fcn, PutApproved, Approved, Threads, Cache!PutPCs
<1>2. RequestInv
  BY GateAssumption DEF Init, Idle, RequestInv, Fcn, GatesInv, NoRef
<1> QED
  BY <1>1, <1>2 DEF IInv

LEMMA NextIInv == IInv /\ [Next]_vars => IInv'
<1> SUFFICES ASSUME IInv, [Next]_vars PROVE IInv'
  OBVIOUS
<1>1. CASE \E q \in Requests : (\E r \in Refs : Arrive(q, r)) \/ HandlerStep(q) \/ Leave(q)
  <2>1. PICK q \in Requests : (\E r \in Refs : Arrive(q, r)) \/ HandlerStep(q) \/ Leave(q)
    BY <1>1
  <2> QED
    BY <2>1, LookupKeeps, RecheckKeeps, GatesKeep, ScanMalwareKeeps, ServeKeeps
       DEF HandlerStep, Pipeline
<1>2. CASE (\E t \in Callers : CacheStep(t)) \/ (\E t \in Consoles : Cleanup(t)) \/ WorkerStep
  <2>1. UNCHANGED gateVars
    BY <1>2 DEF CacheStep, Cleanup, WorkerStep
  <2>2. RequestInv' /\ good' = good
    BY <2>1, StillStep DEF IInv, gateVars, requestVars, historyVars
  <2>3. CASE \E t \in Callers : CacheStep(t)
    <3>1. PICK t \in Callers : CacheStep(t)
      BY <2>3
    <3>2. t \in Threads
      BY CallersAreThreads DEF Callers
    <3> QED
      BY <2>2, <3>1, <3>2, CallsAside, AsideKeeps, CopyKeeps DEF CacheStep, Cache!CallStep, IInv
  <2>4. CASE \E t \in Consoles : Cleanup(t)
    BY <2>2, <2>4, CallersAreThreads, CallsAside, AsideKeeps DEF Cleanup, IInv
  <2>5. CASE WorkerStep
    BY <2>2, <2>5, WorkerKeeps DEF WorkerStep, IInv
  <2> QED
    BY <1>2, <2>3, <2>4, <2>5
<1>3. CASE WorldChange
  BY <1>3, StillStep, UnchangedKeeps
     DEF WorldChange, IInv, requestVars, historyVars, cacheVars, callVars
<1>4. CASE Environment
  BY <1>4, StillStep, EnvironmentKeeps DEF Environment, IInv, gateVars, requestVars, historyVars
<1>5. CASE Restart
  <2>1. CacheInv'
    BY <1>5, RestartKeeps DEF Restart, IInv
  <2>2. RequestInv'
    BY <1>5, GateAssumption DEF Restart, RequestInv, Fcn, GatesInv, NoRef
  <2> QED
    BY <2>1, <2>2 DEF IInv
<1>6. CASE UNCHANGED vars
  BY <1>6, StillStep, UnchangedKeeps
     DEF vars, IInv, gateVars, requestVars, historyVars, cacheVars, callVars
<1> QED
  BY <1>1, <1>2, <1>3, <1>4, <1>5, <1>6 DEF Next

\* "The proxy never serves an artifact that has not been approved": every
\* answer with a body carries bytes that one request put through all the
\* configured gates for the same reference.
THEOREM GateApproves == Spec => []ServedApproved
<1>1. Spec => []IInv
  BY InitIInv, NextIInv, PTL DEF Spec
<1>2. IInv => ServedApproved
  BY DEF IInv, RequestInv, GatesInv, ServedApproved
<1> QED
  BY <1>1, <1>2, PTL

\* The same of what is at rest: whatever fails, and whatever a power loss
\* takes back, only approved bytes lie under an artifact's final name.
CachedApproved ==
  \A r \in Refs : file[r] # NoFile => <<r, file[r].src>> \in good

THEOREM GateStoresApproved == Spec => []CachedApproved
<1>1. Spec => []IInv
  BY InitIInv, NextIInv, PTL DEF Spec
<1>2. IInv => CachedApproved
  BY DEF IInv, CacheInv, Approved, CachedApproved
<1> QED
  BY <1>1, <1>2, PTL
-----------------------------------------------------------------------------
(* Flights of the lazy re-check *)

Leading == {"lead", "mark_cve", "lead_mal", "mark_mal", "evict_cve", "evict_mal"}
Alone   == HandlerPCs \ (Leading \cup {"wait"})

FlightType ==
  /\ hpc \in [Requests -> HandlerPCs]
  /\ hreq \in [Requests -> Refs]
  /\ flight \in [Refs -> Requests \cup {Nobody}]

\* A leader is recorded under its own reference and nothing else is recorded;
\* a waiter's reference has a flight.
Led ==
  /\ \A q \in Requests : hpc[q] \in Leading => flight[hreq[q]] = q
  /\ \A r \in Refs : flight[r] # Nobody => hpc[flight[r]] \in Leading /\ hreq[flight[r]] = r
  /\ \A q \in Requests : hpc[q] = "wait" => flight[hreq[q]] # Nobody

FlightInv == FlightType /\ Led

\* The kinds of steps a request takes: with no flight, as a leader whose
\* flight goes on, and as a leader whose flight ends.
AloneStep(q) ==
  /\ hpc[q] \in Alone
  /\ \E l \in Alone : HGoto(q, l)
  /\ \E r \in Refs : hreq' = [hreq EXCEPT ![q] = r]
  /\ UNCHANGED flight

LeadStep(q) ==
  /\ hpc[q] \in Leading
  /\ \E l \in Leading : HGoto(q, l)
  /\ UNCHANGED <<hreq, flight>>

LandStep(q) ==
  /\ hpc[q] \in Leading
  /\ \E l \in Alone : Land(q, l)
  /\ UNCHANGED hreq

LEMMA FlightSame == ASSUME FlightInv, UNCHANGED <<hpc, hreq, flight>> PROVE FlightInv'
BY DEF FlightInv, FlightType, Led

LEMMA FlightAlone == ASSUME FlightInv, NEW q \in Requests, AloneStep(q) PROVE FlightInv'
<1> USE DEF FlightInv
<1>1. PICK l \in Alone, r \in Refs : HGoto(q, l) /\ hreq' = [hreq EXCEPT ![q] = r]
  BY DEF AloneStep
<1>2. FlightType'
  BY <1>1 DEF FlightType, HGoto, Alone, AloneStep
<1>3. \A p \in Requests : p # q => hpc'[p] = hpc[p] /\ hreq'[p] = hreq[p]
  BY <1>1 DEF FlightType, HGoto
<1>4. hpc'[q] \notin Leading \cup {"wait"} /\ hpc[q] \notin Leading
  BY <1>1 DEF FlightType, HGoto, Alone, AloneStep
<1>5. \A s \in Refs : flight[s] # Nobody => flight[s] \in Requests /\ flight[s] # q
  BY <1>4 DEF FlightType, Led
<1>6. Led'
  BY <1>3, <1>4, <1>5 DEF Led, AloneStep
<1> QED
  BY <1>2, <1>6

LEMMA FlightLead == ASSUME FlightInv, NEW q \in Requests, LeadStep(q) PROVE FlightInv'
<1> USE DEF FlightInv
<1>1. PICK l \in Leading : HGoto(q, l)
  BY DEF LeadStep
<1>2. FlightType'
  BY <1>1 DEF FlightType, HGoto, Leading, HandlerPCs, LeadStep
<1>3. \A p \in Requests : p # q => hpc'[p] = hpc[p]
  BY <1>1 DEF FlightType, HGoto
<1>4. hpc'[q] \in Leading /\ hpc[q] \in Leading /\ hpc'[q] # "wait"
  BY <1>1 DEF FlightType, HGoto, Leading, LeadStep
<1>5. \A s \in Refs : flight[s] # Nobody => flight[s] \in Requests
  BY DEF FlightType
<1>6. Led'
  BY <1>3, <1>4, <1>5 DEF Led, LeadStep
<1> QED
  BY <1>2, <1>6

LEMMA FlightLand == ASSUME FlightInv, NEW q \in Requests, LandStep(q) PROVE FlightInv'
<1> USE DEF FlightInv
<1>1. PICK l \in Alone : Land(q, l)
  BY DEF LandStep
<1>2. PICK crew \in SUBSET Requests :
        crew = {p \in Requests : p = q \/ (hpc[p] = "wait" /\ hreq[p] = hreq[q])}
  OBVIOUS
<1>3. /\ flight' = [flight EXCEPT ![hreq[q]] = Nobody]
      /\ hpc' = [p \in Requests |-> IF p \in crew THEN l ELSE hpc[p]]
      /\ hreq' = hreq /\ hreq[q] \in Refs /\ flight[hreq[q]] = q
  BY <1>1, <1>2 DEF Land, LandStep, FlightType, Led
<1>4. FlightType'
  BY <1>3 DEF FlightType, Alone
<1>5. l \notin Leading \cup {"wait"}
  BY DEF Alone
<1>6. \A p \in Requests : hpc'[p] \in Leading => flight'[hreq'[p]] = p
  BY <1>2, <1>3, <1>5 DEF FlightType, Led
<1>7. \A p \in Requests : hpc'[p] = "wait" => flight'[hreq'[p]] # Nobody
  BY <1>2, <1>3, <1>5 DEF FlightType, Led
<1>8. ASSUME NEW r \in Refs, flight'[r] # Nobody
      PROVE  hpc'[flight'[r]] \in Leading /\ hreq'[flight'[r]] = r
  <2>1. r # hreq[q] /\ flight'[r] = flight[r]
    BY <1>3, <1>8 DEF FlightType
  <2>2. flight[r] \in Requests /\ hpc[flight[r]] \in Leading /\ hreq[flight[r]] = r
    BY <1>8, <2>1 DEF FlightType, Led
  <2>3. flight[r] \notin crew
    BY <1>2, <2>1, <2>2 DEF Leading
  <2> QED
    BY <1>3, <2>1, <2>2, <2>3
<1> QED
  BY <1>4, <1>6, <1>7, <1>8 DEF Led

LEMMA FlightCheckDue == ASSUME FlightInv, NEW q \in Requests, CheckDue(q) PROVE FlightInv'
<1> USE DEF FlightInv
<1>1. hpc[q] = "due" /\ hreq[q] \in Refs /\ hreq' = hreq
  BY DEF CheckDue, FlightType
<1>2. \A s \in Refs : flight[s] # Nobody => flight[s] \in Requests /\ flight[s] # q
  BY <1>1 DEF FlightType, Led, Leading
<1>3. CASE HGoto(q, "open") /\ UNCHANGED flight
  <2>1. hreq' = [hreq EXCEPT ![q] = hreq[q]]
    BY <1>1 DEF FlightType
  <2> QED
    BY <1>1, <1>3, <2>1, FlightAlone DEF AloneStep, Alone, HandlerPCs, Leading
<1>4. CASE flight[hreq[q]] = Nobody /\ flight' = [flight EXCEPT ![hreq[q]] = q] /\ HGoto(q, "lead")
  <2>1. FlightType'
    BY <1>1, <1>4 DEF FlightType, HGoto, HandlerPCs
  <2>2. \A p \in Requests : p # q => hpc'[p] = hpc[p]
    BY <1>4 DEF FlightType, HGoto
  <2>3. hpc'[q] = "lead" /\ flight'[hreq[q]] = q /\ q # Nobody
    BY <1>1, <1>4, GateAssumption DEF FlightType, HGoto
  <2>4. \A s \in Refs : s # hreq[q] => flight'[s] = flight[s]
    BY <1>4 DEF FlightType
  <2>5. \A p \in Requests : hpc'[p] \in Leading => flight'[hreq'[p]] = p
    BY <1>1, <1>4, <2>2, <2>3, <2>4, GateAssumption DEF Led, FlightType
  <2>6. \A p \in Requests : hpc'[p] = "wait" => flight'[hreq'[p]] # Nobody
    BY <1>1, <2>2, <2>3, <2>4 DEF Led, FlightType
  <2>7. \A r \in Refs : flight'[r] # Nobody => hpc'[flight'[r]] \in Leading /\ hreq'[flight'[r]] = r
    BY <1>1, <1>2, <2>2, <2>3, <2>4 DEF Led, Leading
  <2> QED
    BY <2>1, <2>5, <2>6, <2>7 DEF Led
<1>5. CASE flight[hreq[q]] # Nobody /\ HGoto(q, "wait") /\ UNCHANGED flight
  <2>1. FlightType'
    BY <1>1, <1>5 DEF FlightType, HGoto, HandlerPCs
  <2>2. \A p \in Requests : p # q => hpc'[p] = hpc[p]
    BY <1>5 DEF FlightType, HGoto
  <2>3. hpc'[q] = "wait"
    BY <1>5 DEF FlightType, HGoto
  <2>4. Led'
    BY <1>1, <1>2, <1>5, <2>2, <2>3 DEF Led, Leading
  <2> QED
    BY <2>1, <2>4
<1> QED
  BY <1>3, <1>4, <1>5 DEF CheckDue

\* Every step of a request is of one of the kinds.
LEMMA FlightRequest ==
  ASSUME FlightInv, NEW q \in Requests,
         (\E r \in Refs : Arrive(q, r)) \/ HandlerStep(q) \/ Leave(q)
  PROVE  FlightInv'
<1>1. hpc \in [Requests -> HandlerPCs] /\ hreq \in [Requests -> Refs] /\ hreq = [hreq EXCEPT ![q] = hreq[q]]
  BY DEF FlightInv, FlightType
<1>2. NoRef \in Refs
  BY GateAssumption DEF NoRef
<1>3. CASE \E r \in Refs : Arrive(q, r)
  <2>1. AloneStep(q)
    BY <1>3 DEF Arrive, AloneStep, Alone, HandlerPCs, Leading
  <2> QED
    BY <2>1, FlightAlone
<1>4. CASE Leave(q)
  <2>1. AloneStep(q)
    BY <1>2, <1>4 DEF Leave, AloneStep, Alone, HandlerPCs, Leading
  <2> QED
    BY <2>1, FlightAlone
<1>5. CASE LookupMiss(q) \/ LookupHit(q) \/ Pipeline(q) \/ RecheckBlocked(q)
  <2>1. hreq' = hreq /\ flight' = flight
    BY <1>5 DEF LookupMiss, LookupHit, Pipeline, RecheckBlocked, Supply, ScanCVE, Download, SupplyLate,
         ScanMalware, Stored, Reget, Reload, Serve
  <2>2. hpc[q] \in Alone
    BY <1>5 DEF LookupMiss, LookupHit, Pipeline, RecheckBlocked, Supply, ScanCVE, Download, SupplyLate,
         ScanMalware, Stored, Reget, Reload, Serve, Alone, HandlerPCs, Leading
  <2>3. \E l \in {"supply", "cve", "due", "done", "download", "supply_late", "malware", "put",
                   "reget", "reload", "open"} : HGoto(q, l)
    BY <1>5 DEF LookupMiss, LookupHit, Pipeline, RecheckBlocked, Supply, ScanCVE, Download, SupplyLate,
         ScanMalware, Store, Stored, Reget, Reload, Serve, Finish
  <2>4. \E l \in Alone : HGoto(q, l)
    BY <2>3 DEF Alone, HandlerPCs, Leading
  <2>5. AloneStep(q)
    BY <1>1, <2>1, <2>2, <2>4 DEF AloneStep
  <2> QED
    BY <2>5, FlightAlone
<1>6. CASE CheckDue(q)
  BY <1>6, FlightCheckDue
<1>7. CASE RecheckCVE(q) \/ MarkCVE(q)
  <2>1. LeadStep(q)
    BY <1>7 DEF RecheckCVE, MarkCVE, LeadStep, Leading
  <2> QED
    BY <2>1, FlightLead
<1>8. CASE RecheckMal(q)
  <2>1. LeadStep(q) \/ LandStep(q)
    BY <1>8 DEF RecheckMal, LeadStep, LandStep, Leading, Alone, HandlerPCs
  <2> QED
    BY <2>1, FlightLead, FlightLand
<1>9. CASE MarkMal(q) \/ Evicted(q)
  <2>1. LandStep(q)
    BY <1>9 DEF MarkMal, Evicted, LandStep, Leading, Alone, HandlerPCs
  <2> QED
    BY <2>1, FlightLand
<1> QED
  BY <1>3, <1>4, <1>5, <1>6, <1>7, <1>8, <1>9 DEF HandlerStep, Recheck

LEMMA InitFlightInv == Init => FlightInv
BY GateAssumption DEF Init, Idle, FlightInv, FlightType, Led, Leading, HandlerPCs, NoRef

LEMMA NextFlightInv == FlightInv /\ [Next]_vars => FlightInv'
<1> SUFFICES ASSUME FlightInv, [Next]_vars PROVE FlightInv'
  OBVIOUS
<1>1. CASE \E q \in Requests : (\E r \in Refs : Arrive(q, r)) \/ HandlerStep(q) \/ Leave(q)
  BY <1>1, FlightRequest
<1>2. CASE \/ \E t \in Callers : CacheStep(t)
           \/ \E t \in Consoles : Cleanup(t)
           \/ WorkerStep \/ WorldChange \/ Environment
  <2>1. UNCHANGED <<hpc, hreq, flight>>
    BY <1>2 DEF CacheStep, Cleanup, WorkerStep, WorldChange, Environment, gateVars, requestVars
  <2> QED
    BY <2>1, FlightSame
<1>3. CASE Restart
  BY <1>3, GateAssumption DEF Restart, FlightInv, FlightType, Led, Leading, HandlerPCs, NoRef
<1>4. CASE UNCHANGED vars
  BY <1>4, FlightSame DEF vars, gateVars, requestVars
<1> QED
  BY <1>1, <1>2, <1>3, <1>4 DEF Next

\* Concurrent re-checks of one reference collapse into one scan (recheckGroup),
\* whichever of its many steps the leader is at, and no request waits for a
\* flight that has already landed.
THEOREM GateCoalesces == Spec => []OneFlightPerRef
<1>1. Spec => []FlightInv
  BY InitFlightInv, NextFlightInv, PTL DEF Spec
<1>2. FlightInv => OneFlightPerRef
  <2> SUFFICES ASSUME FlightInv, NEW q \in Requests
               PROVE  /\ hpc[q] \in Leading <=> \E r \in Refs : flight[r] = q
                      /\ hpc[q] = "wait" => flight[hreq[q]] # Nobody
    BY DEF OneFlightPerRef, Leading
  <2>1. q # Nobody /\ hreq[q] \in Refs
    BY GateAssumption DEF FlightInv, FlightType
  <2> QED
    BY <2>1 DEF FlightInv, Led
<1> QED
  BY <1>1, <1>2, PTL
-----------------------------------------------------------------------------
(* The gate as a client of the cache: what is proved of the cache alone, for *)
(* any callers, holds with these callers.                                    *)

Proved == INSTANCE ArtifactCacheProofs

\* A leader's reading of the clock is not ahead of it, nor of the scan it made.
Stamped(q) ==
  /\ hpc[q] \in Leading => rnow[q] <= now
  /\ hpc[q] = "mark_cve" => rnow[q] <= cveOKAt[q]
  /\ hpc[q] = "mark_mal" => rnow[q] <= malOKAt[q]

StampType ==
  /\ now \in Nat
  /\ rnow \in [Requests -> Nat]
  /\ cveOKAt \in [Requests -> Int]
  /\ malOKAt \in [Requests -> Int]

StampInv == StampType /\ \A q \in Requests : Stamped(q)

\* The cache's own steps leave the clock alone.
LEMMA CallsKeepClock ==
  ASSUME NEW t,
         \/ Cache!CallStep(t) \/ Cache!WorkerStep \/ Cache!Return(t) \/ Cache!BeginPurge(t)
         \/ (\E r : Cache!BeginGet(t, r) \/ Cache!BeginInvalidate(t, r) \/ \E a : Cache!BeginPut(t, r, a))
  PROVE  now' = now
<1> USE DEF Cache!storeVars
<1>1. CASE Cache!Return(t) \/ Cache!BeginPurge(t)
            \/ (\E r : Cache!BeginGet(t, r) \/ Cache!BeginInvalidate(t, r) \/ \E a : Cache!BeginPut(t, r, a))
  BY <1>1 DEF Cache!Return, Cache!BeginPurge, Cache!BeginGet, Cache!BeginInvalidate, Cache!BeginPut
<1>2. CASE Cache!CallStep(t)
  BY <1>2 DEF Cache!CallStep, Cache!GetRow, Cache!GetStat, Cache!GetHeal, Cache!ReadClock, Cache!GetTouch,
     Cache!PutCreate, Cache!PutWrite, Cache!PutSync, Cache!PutRename, Cache!PutInsert, Cache!PutUndo, Cache!PutSignal,
     Cache!InvRow, Cache!InvRemove, Cache!InvDelete, Cache!SweepNext, Cache!PurgePick, Cache!PurgeRound
<1>3. CASE Cache!WorkerStep
  BY <1>3 DEF Cache!WorkerStep, Cache!EvictWake, Cache!EvictSize, Cache!EvictPick, Cache!EvictRound,
     Cache!EvictDone, Cache!SweepNext, Cache!InvRow, Cache!InvRemove, Cache!InvDelete
<1> QED
  BY <1>1, <1>2, <1>3

\* What a request asks of the cache in one step: nothing, a call, the end of
\* one, or the stamp of a re-check.
Asks(q) ==
  \/ UNCHANGED cacheVars
  \/ Cache!Return(q)
  \/ \E r \in Refs : Cache!BeginGet(q, r) \/ Cache!BeginInvalidate(q, r)
  \/ \E r \in Refs, a \in Cache!Arg : Cache!BeginPut(q, r, a)
  \/ /\ hpc[q] \in Leading
     /\ Cache!MarkCVEChecked(hreq[q], rnow[q]) \/ Cache!MarkMalwareChecked(hreq[q], rnow[q])
     /\ UNCHANGED <<now, file, callVars, sweepVars, phase, durable, disk>>

LEMMA RequestAsks ==
  ASSUME RequestInv, NEW q \in Requests, (\E r \in Refs : Arrive(q, r)) \/ HandlerStep(q) \/ Leave(q)
  PROVE  Asks(q)
<1>0. hreq[q] \in Refs
  BY DEF RequestInv
<1>1. CASE CheckDue(q) \/ RecheckBlocked(q) \/ Supply(q) \/ ScanCVE(q) \/ Download(q) \/ SupplyLate(q)
            \/ Serve(q) \/ Leave(q)
  <2>1. UNCHANGED cacheVars
    BY <1>1 DEF CheckDue, RecheckBlocked, Supply, ScanCVE, Download, SupplyLate, Serve, Leave
  <2> QED
    BY <2>1 DEF Asks
<1>2. CASE LookupMiss(q) \/ LookupHit(q) \/ Evicted(q) \/ Stored(q) \/ Reload(q)
  <2>1. Cache!Return(q)
    BY <1>2 DEF LookupMiss, LookupHit, Evicted, Stored, Reload
  <2> QED
    BY <2>1 DEF Asks
<1>3. CASE \E r \in Refs : Arrive(q, r)
  <2>1. \E r \in Refs : Cache!BeginGet(q, r)
    BY <1>3 DEF Arrive
  <2> QED
    BY <2>1 DEF Asks
<1>4. CASE Reget(q)
  <2>1. Cache!BeginGet(q, hreq[q])
    BY <1>4 DEF Reget
  <2> QED
    BY <1>0, <2>1 DEF Asks
<1>5. CASE RecheckCVE(q) \/ RecheckMal(q)
  <2>1. UNCHANGED cacheVars \/ Cache!BeginInvalidate(q, hreq[q])
    BY <1>5 DEF RecheckCVE, RecheckMal
  <2> QED
    BY <1>0, <2>1 DEF Asks
<1>6. CASE MarkCVE(q) \/ MarkMal(q)
  <2>1. /\ hpc[q] \in Leading
        /\ Cache!MarkCVEChecked(hreq[q], rnow[q]) \/ Cache!MarkMalwareChecked(hreq[q], rnow[q])
        /\ UNCHANGED <<now, file, callVars, sweepVars, phase, durable, disk>>
    BY <1>6 DEF MarkCVE, MarkMal, Leading
  <2> QED
    BY <2>1 DEF Asks
<1>7. CASE ScanMalware(q)
  <2>1. body[q] \in Contents
    BY <1>7 DEF ScanMalware, RequestInv, GatesInv
  <2>2. [src |-> body[q], clean |-> TRUE] \in Cache!Arg
    BY <2>1 DEF Cache!Arg
  <2>3. UNCHANGED cacheVars \/ Cache!BeginPut(q, hreq[q], [src |-> body[q], clean |-> TRUE])
    BY <1>7 DEF ScanMalware, Store
  <2> QED
    BY <1>0, <2>2, <2>3 DEF Asks
<1> QED
  BY <1>1, <1>2, <1>3, <1>4, <1>5, <1>6, <1>7 DEF HandlerStep, Recheck, Pipeline

LEMMA ClockRuns == ASSUME RequestInv, [Next]_vars PROVE now' = now \/ now' = now + 1
<1>1. CASE \E q \in Requests : (\E r \in Refs : Arrive(q, r)) \/ HandlerStep(q) \/ Leave(q)
  <2>1. PICK q \in Requests : Asks(q)
    BY <1>1, RequestAsks
  <2>2. CASE UNCHANGED cacheVars \/ UNCHANGED <<now, file, callVars, sweepVars, phase, durable, disk>>
    BY <2>2 DEF cacheVars
  <2> QED
    BY <2>1, <2>2, CallsKeepClock DEF Asks
<1>2. CASE \/ \E t \in Callers : CacheStep(t)
           \/ \E t \in Consoles : Cleanup(t)
           \/ WorkerStep
  BY <1>2, CallsKeepClock DEF CacheStep, Cleanup, WorkerStep
<1>3. CASE WorldChange \/ UNCHANGED vars
  BY <1>3 DEF WorldChange, vars, cacheVars
<1>4. CASE Environment
  BY <1>4 DEF Environment, Cache!Tick, Cache!Close, Cache!CloseIndex, Cache!Checkpoint, Cache!SyncDir,
     Cache!storeVars
<1>5. CASE Restart
  <2>1. Cache!Reboot
    BY <1>5 DEF Restart, Cache!Crash, Cache!Exit, Cache!PowerLoss
  <2> QED
    BY <2>1 DEF Cache!Reboot
<1> QED
  BY <1>1, <1>2, <1>3, <1>4, <1>5 DEF Next

LEMMA StampKeeps ==
  ASSUME StampInv, FlightInv, now' = now \/ now' = now + 1,
         rnow' \in [Requests -> Nat], cveOKAt' \in [Requests -> Int], malOKAt' \in [Requests -> Int],
         \A q \in Requests :
           \/ hpc'[q] \notin Leading
           \/ hpc[q] \in Leading /\ rnow'[q] = rnow[q]
              /\ (hpc'[q] = "mark_cve" => cveOKAt'[q] = now \/ (hpc[q] = "mark_cve" /\ cveOKAt'[q] = cveOKAt[q]))
              /\ (hpc'[q] = "mark_mal" => malOKAt'[q] = now \/ (hpc[q] = "mark_mal" /\ malOKAt'[q] = malOKAt[q]))
           \/ hpc'[q] = "lead" /\ rnow'[q] = now
  PROVE  StampInv'
<1>1. now \in Nat /\ now' \in Nat /\ now <= now'
  BY DEF StampInv, StampType
<1>2. ASSUME NEW q \in Requests PROVE Stamped(q)'
  <2>1. rnow[q] \in Nat /\ rnow'[q] \in Nat /\ cveOKAt[q] \in Int /\ malOKAt[q] \in Int /\ Stamped(q)
    BY DEF StampInv, StampType
  <2>2. CASE hpc'[q] \notin Leading
    BY <2>2 DEF Stamped, Leading
  <2>3. CASE hpc'[q] = "lead" /\ rnow'[q] = now
    BY <1>1, <2>3 DEF Stamped
  <2>4. CASE hpc[q] \in Leading /\ rnow'[q] = rnow[q]
              /\ (hpc'[q] = "mark_cve" => cveOKAt'[q] = now \/ (hpc[q] = "mark_cve" /\ cveOKAt'[q] = cveOKAt[q]))
              /\ (hpc'[q] = "mark_mal" => malOKAt'[q] = now \/ (hpc[q] = "mark_mal" /\ malOKAt'[q] = malOKAt[q]))
    <3>1. rnow'[q] <= now
      BY <2>1, <2>4 DEF Stamped
    <3>2. rnow'[q] <= now'
      BY <1>1, <2>1, <3>1
    <3>3. hpc'[q] = "mark_cve" => rnow'[q] <= cveOKAt'[q]
      BY <2>1, <2>4, <3>1 DEF Stamped
    <3>4. hpc'[q] = "mark_mal" => rnow'[q] <= malOKAt'[q]
      BY <2>1, <2>4, <3>1 DEF Stamped
    <3> QED
      BY <3>2, <3>3, <3>4 DEF Stamped
  <2> QED
    BY <2>2, <2>3, <2>4
<1> QED
  BY <1>1, <1>2 DEF StampInv, StampType

LEMMA StampSame ==
  ASSUME StampInv, FlightInv, now' = now \/ now' = now + 1, UNCHANGED <<rnow, cveOKAt, malOKAt>>,
         \A q \in Requests : hpc'[q] = hpc[q] \/ hpc'[q] \notin Leading \/ (hpc[q] \in Leading /\ hpc'[q] = "lead_mal")
                              \/ (hpc[q] \in Leading /\ hpc'[q] \in {"evict_cve", "evict_mal"})
  PROVE  StampInv'
<1>1. rnow' \in [Requests -> Nat] /\ cveOKAt' \in [Requests -> Int] /\ malOKAt' \in [Requests -> Int]
  BY DEF StampInv, StampType
<1> QED
  BY <1>1, StampKeeps

LEMMA StampRequest ==
  ASSUME StampInv, FlightInv, NEW q \in Requests, now' = now \/ now' = now + 1,
         (\E r \in Refs : Arrive(q, r)) \/ HandlerStep(q) \/ Leave(q)
  PROVE  StampInv'
<1> USE DEF historyVars
<1>0. /\ hpc \in [Requests -> HandlerPCs] /\ now \in Nat /\ rnow \in [Requests -> Nat]
      /\ cveOKAt \in [Requests -> Int] /\ malOKAt \in [Requests -> Int]
  BY DEF FlightInv, FlightType, StampInv, StampType
<1>1. CASE (\E r \in Refs : Arrive(q, r)) \/ LookupMiss(q) \/ LookupHit(q) \/ RecheckBlocked(q)
            \/ Supply(q) \/ Download(q) \/ SupplyLate(q) \/ Stored(q) \/ Reget(q) \/ Reload(q) \/ Serve(q)
  <2>1. UNCHANGED <<rnow, cveOKAt, malOKAt>>
    BY <1>1 DEF Arrive, LookupMiss, LookupHit, RecheckBlocked, Supply, Download, SupplyLate, Stored, Reget,
       Reload, Serve
  <2>2. \E l : l \notin Leading /\ HGoto(q, l)
    BY <1>1 DEF Arrive, LookupMiss, LookupHit, RecheckBlocked, Supply, Download, SupplyLate, Stored, Reget,
       Reload, Serve, Finish, Leading
  <2>3. \A p \in Requests : hpc'[p] = hpc[p] \/ hpc'[p] \notin Leading
    BY <1>0, <2>2 DEF HGoto
  <2> QED
    BY <2>1, <2>3, StampSame
<1>2. CASE ScanCVE(q) \/ ScanMalware(q) \/ Leave(q)
  <2>1. \E l : l \notin Leading /\ HGoto(q, l)
    BY <1>2 DEF ScanCVE, ScanMalware, Store, Leave, Finish, Leading
  <2>2. hpc'[q] \notin Leading /\ \A p \in Requests \ {q} : hpc'[p] = hpc[p]
    BY <1>0, <2>1 DEF HGoto
  <2>3. /\ \E x \in Nat : rnow' = [rnow EXCEPT ![q] = x]
        /\ \E x \in Int : cveOKAt' = [cveOKAt EXCEPT ![q] = x]
        /\ \E x \in Int : malOKAt' = [malOKAt EXCEPT ![q] = x]
    <3>1. rnow = [rnow EXCEPT ![q] = rnow[q]] /\ rnow[q] \in Nat
      BY <1>0
    <3>2. cveOKAt = [cveOKAt EXCEPT ![q] = cveOKAt[q]] /\ cveOKAt[q] \in Int
      BY <1>0
    <3>3. malOKAt = [malOKAt EXCEPT ![q] = malOKAt[q]] /\ malOKAt[q] \in Int
      BY <1>0
    <3>4. now \in Int /\ -1 \in Int /\ 0 \in Nat
      BY <1>0
    <3> QED
      BY <1>2, <3>1, <3>2, <3>3, <3>4 DEF ScanCVE, ScanMalware, Leave
  <2>4. /\ rnow' \in [Requests -> Nat] /\ cveOKAt' \in [Requests -> Int] /\ malOKAt' \in [Requests -> Int]
        /\ \A p \in Requests \ {q} : rnow'[p] = rnow[p] /\ cveOKAt'[p] = cveOKAt[p] /\ malOKAt'[p] = malOKAt[p]
    BY <1>0, <2>3
  <2> QED
    BY <2>2, <2>4, StampKeeps
<1>3. CASE CheckDue(q)
  <2>1. UNCHANGED <<cveOKAt, malOKAt>> /\ hpc[q] = "due"
    BY <1>3 DEF CheckDue
  <2>2. CASE UNCHANGED rnow /\ (HGoto(q, "open") \/ HGoto(q, "wait"))
    BY <1>0, <2>1, <2>2, StampSame DEF HGoto, Leading
  <2>3. CASE rnow' = [rnow EXCEPT ![q] = now] /\ HGoto(q, "lead")
    <3>1. rnow' \in [Requests -> Nat] /\ rnow'[q] = now /\ hpc'[q] = "lead"
      BY <1>0, <2>3 DEF HGoto
    <3>2. \A p \in Requests \ {q} : rnow'[p] = rnow[p] /\ hpc'[p] = hpc[p]
      BY <1>0, <2>3 DEF HGoto
    <3> QED
      BY <1>0, <2>1, <3>1, <3>2, StampKeeps
  <2> QED
    BY <1>3, <2>2, <2>3 DEF CheckDue
<1>4. CASE RecheckCVE(q)
  <2>1. UNCHANGED <<rnow, malOKAt>> /\ hpc[q] \in Leading
    BY <1>4 DEF RecheckCVE, Leading
  <2>2. CASE UNCHANGED cveOKAt /\ (HGoto(q, "lead_mal") \/ HGoto(q, "evict_cve"))
    BY <1>0, <2>1, <2>2, StampSame DEF HGoto
  <2>3. CASE cveOKAt' = [cveOKAt EXCEPT ![q] = now] /\ HGoto(q, "mark_cve")
    <3>1. cveOKAt' \in [Requests -> Int] /\ cveOKAt'[q] = now /\ hpc'[q] = "mark_cve"
      BY <1>0, <2>3 DEF HGoto
    <3>2. \A p \in Requests \ {q} : cveOKAt'[p] = cveOKAt[p] /\ hpc'[p] = hpc[p]
      BY <1>0, <2>3 DEF HGoto
    <3> QED
      BY <1>0, <2>1, <3>1, <3>2, StampKeeps
  <2> QED
    BY <1>4, <2>2, <2>3 DEF RecheckCVE
<1>5. CASE MarkCVE(q)
  <2>1. UNCHANGED <<rnow, cveOKAt, malOKAt>> /\ hpc[q] \in Leading /\ HGoto(q, "lead_mal")
    BY <1>5 DEF MarkCVE, Leading
  <2> QED
    BY <1>0, <2>1, StampSame DEF HGoto
<1>6. CASE RecheckMal(q)
  <2>1. UNCHANGED <<rnow, cveOKAt>> /\ hpc[q] \in Leading
    BY <1>6 DEF RecheckMal, Leading
  <2>2. CASE UNCHANGED malOKAt /\ Land(q, "open")
    BY <1>0, <2>1, <2>2, StampSame DEF Land, Leading
  <2>3. CASE UNCHANGED malOKAt /\ HGoto(q, "evict_mal")
    BY <1>0, <2>1, <2>3, StampSame DEF HGoto
  <2>4. CASE malOKAt' = [malOKAt EXCEPT ![q] = now] /\ HGoto(q, "mark_mal")
    <3>1. malOKAt' \in [Requests -> Int] /\ malOKAt'[q] = now /\ hpc'[q] = "mark_mal"
      BY <1>0, <2>4 DEF HGoto
    <3>2. \A p \in Requests \ {q} : malOKAt'[p] = malOKAt[p] /\ hpc'[p] = hpc[p]
      BY <1>0, <2>4 DEF HGoto
    <3> QED
      BY <1>0, <2>1, <3>1, <3>2, StampKeeps
  <2> QED
    BY <1>6, <2>2, <2>3, <2>4 DEF RecheckMal
<1>7. CASE MarkMal(q) \/ Evicted(q)
  <2>1. UNCHANGED <<rnow, cveOKAt, malOKAt>>
    BY <1>7 DEF MarkMal, Evicted
  <2>2. \E l : l \notin Leading /\ Land(q, l)
    BY <1>7 DEF MarkMal, Evicted, Leading
  <2>3. \A p \in Requests : hpc'[p] = hpc[p] \/ hpc'[p] \notin Leading
    BY <2>2 DEF Land
  <2> QED
    BY <2>1, <2>3, StampSame
<1> QED
  BY <1>1, <1>2, <1>3, <1>4, <1>5, <1>6, <1>7 DEF HandlerStep, Recheck, Pipeline

LEMMA InitStampInv == Init => StampInv
<1> SUFFICES ASSUME Init PROVE StampInv
  OBVIOUS
<1>1. now = 0
  BY DEF Init, Cache!Init, Cache!Start
<1>2. StampType
  BY <1>1 DEF Init, Idle, StampType
<1>3. \A q \in Requests : hpc[q] = "idle"
  BY DEF Init, Idle
<1> QED
  BY <1>2, <1>3 DEF StampInv, Stamped, Leading

LEMMA NextStampInv == StampInv /\ FlightInv /\ RequestInv /\ [Next]_vars => StampInv'
<1> SUFFICES ASSUME StampInv, FlightInv, RequestInv, [Next]_vars PROVE StampInv'
  OBVIOUS
<1>1. now' = now \/ now' = now + 1
  BY ClockRuns
<1>2. CASE \E q \in Requests : (\E r \in Refs : Arrive(q, r)) \/ HandlerStep(q) \/ Leave(q)
  BY <1>1, <1>2, StampRequest
<1>3. CASE \/ \E t \in Callers : CacheStep(t)
           \/ \E t \in Consoles : Cleanup(t)
           \/ WorkerStep \/ WorldChange \/ Environment \/ UNCHANGED vars
  <2>1. UNCHANGED <<hpc, rnow, cveOKAt, malOKAt>>
    BY <1>3 DEF CacheStep, Cleanup, WorkerStep, WorldChange, Environment, vars, gateVars, requestVars, historyVars
  <2> QED
    BY <1>1, <2>1, StampSame
<1>4. CASE Restart
  <2>1. /\ hpc' = [q \in Requests |-> "idle"] /\ rnow' = [q \in Requests |-> 0]
        /\ cveOKAt' = [q \in Requests |-> -1] /\ malOKAt' = [q \in Requests |-> -1]
    BY <1>4 DEF Restart
  <2>2. rnow' \in [Requests -> Nat] /\ cveOKAt' \in [Requests -> Int] /\ malOKAt' \in [Requests -> Int]
    BY <2>1
  <2>3. \A q \in Requests : hpc'[q] \notin Leading
    BY <2>1 DEF Leading
  <2> QED
    BY <1>1, <2>2, <2>3, StampKeeps
<1> QED
  BY <1>2, <1>3, <1>4 DEF Next

\* The gate instantiates the cache's module twice, for its actions and for
\* what is proved of them: the same actions.
LEMMA SameCache ==
  /\ Proved!Next <=> Cache!Next
  /\ Proved!Init <=> Cache!Init
<1>1. Proved!Next <=> Cache!Next
  BY DEF Proved!storeVars, Cache!storeVars, Proved!callVars, Cache!callVars, Proved!sweepVars,
     Cache!sweepVars, Proved!cacheVars, Cache!cacheVars, Proved!Threads, Cache!Threads, Proved!Arg,
     Cache!Arg, Proved!Results, Cache!Results, Proved!PutPCs, Cache!PutPCs, Proved!Goto, Cache!Goto,
     Proved!NoRef, Cache!NoRef, Proved!NoArg, Cache!NoArg, Proved!End, Cache!End, Proved!IndexWorks,
     Cache!IndexWorks, Proved!IndexFails, Cache!IndexFails, Proved!Rows, Cache!Rows,
     Proved!TotalSizeBytes, Cache!TotalSizeBytes, Proved!BeginGet, Cache!BeginGet, Proved!GetRow,
     Cache!GetRow, Proved!GetStat, Cache!GetStat, Proved!GetHeal, Cache!GetHeal, Proved!GetTouch,
     Cache!GetTouch, Proved!ReadClock, Cache!ReadClock, Proved!BeginPut, Cache!BeginPut, Proved!PutCreate, Cache!PutCreate, Proved!PutAbort,
     Cache!PutAbort, Proved!PutWrite, Cache!PutWrite, Proved!PutSync, Cache!PutSync, Proved!PutRename,
     Cache!PutRename, Proved!PutInsert, Cache!PutInsert, Proved!PutUndo, Cache!PutUndo, Proved!PutSignal,
     Cache!PutSignal, Proved!BeginInvalidate, Cache!BeginInvalidate, Proved!InvRow, Cache!InvRow,
     Proved!InvRemove, Cache!InvRemove, Proved!InvReturn, Cache!InvReturn, Proved!InvDelete,
     Cache!InvDelete, Proved!OldestFirst, Cache!OldestFirst, Proved!EvictWake, Cache!EvictWake,
     Proved!EvictSize, Cache!EvictSize, Proved!EvictPick, Cache!EvictPick, Proved!EvictRound,
     Cache!EvictRound, Proved!EvictDone, Cache!EvictDone, Proved!SweepNext, Cache!SweepNext,
     Proved!BeginPurge, Cache!BeginPurge, Proved!StaleRows, Cache!StaleRows, Proved!PurgePick,
     Cache!PurgePick, Proved!PurgeRound, Cache!PurgeRound, Proved!MarkCVEChecked, Cache!MarkCVEChecked,
     Proved!MarkMalwareChecked, Cache!MarkMalwareChecked, Proved!Return, Cache!Return, Proved!Close,
     Cache!Close, Proved!CloseIndex, Cache!CloseIndex, Proved!Tick, Cache!Tick, Proved!Reboot,
     Cache!Reboot, Proved!Crash, Cache!Crash, Proved!Exit, Cache!Exit, Proved!Checkpoint,
     Cache!Checkpoint, Proved!SyncDir, Cache!SyncDir, Proved!Torn, Cache!Torn, Proved!PowerLoss,
     Cache!PowerLoss, Proved!CallStep, Cache!CallStep, Proved!WorkerStep, Cache!WorkerStep, Proved!Mark,
     Cache!Mark, Proved!Begin, Cache!Begin, Proved!Environment, Cache!Environment, Proved!Next,
     Cache!Next, Proved!StoredBytes, Cache!StoredBytes, Proved!Cardinality, Cache!Cardinality
<1>2. Proved!Init <=> Cache!Init
  BY DEF Proved!Init, Cache!Init, Proved!Start, Cache!Start, Proved!Threads, Cache!Threads, Proved!NoRef,
     Cache!NoRef, Proved!NoArg, Cache!NoArg
<1> QED
  BY <1>1, <1>2

LEMMA StepUsesCache ==
  ASSUME RequestInv, StampInv, [Next]_vars
  PROVE  [Cache!Next]_(Cache!cacheVars)
<1>1. CASE \E q \in Requests : (\E r \in Refs : Arrive(q, r)) \/ HandlerStep(q) \/ Leave(q)
  <2>1. PICK q \in Requests : Asks(q)
    BY <1>1, RequestAsks
  <2>2. CASE UNCHANGED cacheVars
    BY <2>2 DEF cacheVars, callVars, sweepVars, Cache!cacheVars, Cache!storeVars, Cache!callVars, Cache!sweepVars
  <2>3. CASE \/ Cache!Return(q)
             \/ \E r \in Refs : Cache!BeginGet(q, r) \/ Cache!BeginInvalidate(q, r)
             \/ \E r \in Refs, a \in Cache!Arg : Cache!BeginPut(q, r, a)
    <3>1. q \in Callers
      BY DEF Callers
    <3>2. Cache!Begin(q) \/ Cache!Return(q)
      BY <2>3 DEF Cache!Begin
    <3> QED
      BY <3>1, <3>2 DEF Cache!Next
  <2>4. CASE /\ hpc[q] \in Leading
             /\ Cache!MarkCVEChecked(hreq[q], rnow[q]) \/ Cache!MarkMalwareChecked(hreq[q], rnow[q])
             /\ UNCHANGED <<now, file, callVars, sweepVars, phase, durable, disk>>
    <3>1. hreq[q] \in Refs
      BY DEF RequestInv
    <3>2. rnow[q] \in 0 .. now
      BY <2>4 DEF StampInv, StampType, Stamped
    <3>3. UNCHANGED <<now, file, Cache!callVars, Cache!sweepVars, phase, durable, disk>>
      BY <2>4 DEF callVars, sweepVars, Cache!callVars, Cache!sweepVars
    <3>4. Cache!Mark
      BY <2>4, <3>1, <3>2, <3>3 DEF Cache!Mark
    <3> QED
      BY <3>4 DEF Cache!Next
  <2> QED
    BY <2>1, <2>2, <2>3, <2>4 DEF Asks
<1>2. CASE \E t \in Callers : CacheStep(t)
  BY <1>2 DEF CacheStep, Cache!Next
<1>3. CASE \E t \in Consoles : Cleanup(t)
  BY <1>3 DEF Cleanup, Callers, Cache!Next, Cache!Begin
<1>4. CASE WorkerStep
  BY <1>4 DEF WorkerStep, Cache!Next
<1>5. CASE Environment \/ Restart
  BY <1>5 DEF Environment, Restart, Cache!Next, Cache!Environment
<1>6. CASE WorldChange \/ UNCHANGED vars
  <2>1. UNCHANGED cacheVars
    BY <1>6 DEF WorldChange, vars
  <2> QED
    BY <2>1 DEF cacheVars, callVars, sweepVars, Cache!cacheVars, Cache!storeVars, Cache!callVars, Cache!sweepVars
<1> QED
  BY <1>1, <1>2, <1>3, <1>4, <1>5, <1>6 DEF Next

\* The request's invariant, the flights', the stamps' and the cache's own.
GateInv == IInv /\ FlightInv /\ StampInv /\ Proved!IInv

LEMMA CacheAssumed == Proved!CacheAssumption
  BY GateAssumption DEF Callers, Proved!CacheAssumption, Proved!FaultKinds

LEMMA GateInvHolds == Spec => []GateInv
<1>1. Init => GateInv
  <2>1. Init => Proved!Init
    BY SameCache DEF Init
  <2>2. Proved!Init => Proved!IInv
    BY CacheAssumed, Proved!InitIInv
  <2> QED
    BY <2>1, <2>2, InitIInv, InitFlightInv, InitStampInv DEF GateInv
<1>2. GateInv /\ [Next]_vars => GateInv'
  <2> SUFFICES ASSUME GateInv, [Next]_vars PROVE GateInv'
    OBVIOUS
  <2>1. IInv' /\ FlightInv' /\ StampInv'
    BY NextIInv, NextFlightInv, NextStampInv DEF GateInv, IInv
  <2>2. [Cache!Next]_(Cache!cacheVars)
    BY StepUsesCache DEF GateInv, IInv
  <2>3. [Proved!Next]_(Proved!cacheVars)
    BY <2>2, SameCache DEF Proved!storeVars, Cache!storeVars, Proved!callVars, Cache!callVars, Proved!sweepVars,
       Cache!sweepVars, Proved!cacheVars, Cache!cacheVars
  <2>4. Proved!IInv'
    BY <2>3, CacheAssumed, Proved!NextIInv DEF GateInv
  <2> QED
    BY <2>1, <2>4 DEF GateInv
<1> QED
  BY <1>1, <1>2, PTL DEF Spec

\* Every request of the proxy, every re-check and every clean-up uses the cache
\* as its specification lets callers use it: with the cache's variables seen
\* alone, a behaviour of the gate is a behaviour of the cache.
THEOREM GateUsesCache == Spec => Cache!Spec
<1>1. Init => Cache!Init
  BY DEF Init
<1>2. GateInv /\ [Next]_vars => [Cache!Next]_(Cache!cacheVars)
  BY StepUsesCache DEF GateInv, IInv
<1> QED
  BY <1>1, <1>2, GateInvHolds, PTL DEF Spec, Cache!Spec

\* No download the proxy interrupts, and no crash of the process serving it,
\* leaves a partial file under a final name.
THEOREM GateNeverTorn == Spec => []Cache!NoTornFile
<1>1. Proved!IInv => Cache!NoTornFile
  BY DEF Proved!IInv, Proved!SyncedInv, Cache!NoTornFile
<1> QED
  BY <1>1, GateInvHolds, PTL DEF GateInv

\* Behind the gate the cache keeps the promises it makes to any caller: its index
\* and its directory are lossy stores, and no eviction is lost, however the
\* proxy's requests, re-checks, crashes and clean-ups interleave.
THEOREM GateKeepsStore == Spec => Proved!IndexIsStore /\ Proved!DirectoryIsStore /\ []Proved!NoLostEviction
<1>1. Init => Proved!Init
  BY SameCache DEF Init
<1>2. GateInv /\ [Next]_vars => [Proved!Next]_(Proved!cacheVars)
  <2> SUFFICES ASSUME GateInv, [Next]_vars PROVE [Proved!Next]_(Proved!cacheVars)
    OBVIOUS
  <2>1. [Cache!Next]_(Cache!cacheVars)
    BY StepUsesCache DEF GateInv, IInv
  <2> QED
    BY <2>1, SameCache DEF Proved!storeVars, Cache!storeVars, Proved!callVars, Cache!callVars, Proved!sweepVars,
       Cache!sweepVars, Proved!cacheVars, Cache!cacheVars
<1>3. Spec => Proved!Spec
  BY <1>1, <1>2, GateInvHolds, PTL DEF Spec, Proved!Spec
<1>4. Proved!Spec => Proved!IndexIsStore
  BY CacheAssumed, Proved!IndexRefines
<1>5. Proved!Spec => Proved!DirectoryIsStore
  BY CacheAssumed, Proved!DirectoryRefines
<1>6. Proved!Spec => []Proved!NoLostEviction
  BY CacheAssumed, Proved!EvictionsKept
<1> QED
  BY <1>3, <1>4, <1>5, <1>6, PTL

\* A mark writes the leader's clock into the row it finds.
LEMMA MarkWrites ==
  ASSUME NEW r \in Refs, NEW ts, row \in [Refs -> Proved!Row \cup {NoRow}], row' # row
  PROVE  /\ Cache!MarkCVEChecked(r, ts) => row'[r].cve = ts
         /\ Cache!MarkMalwareChecked(r, ts) => row'[r].mal = ts
<1>1. ASSUME row[r] # NoRow
      PROVE  [row EXCEPT ![r].cve = ts][r].cve = ts /\ [row EXCEPT ![r].mal = ts][r].mal = ts
  BY <1>1 DEF Proved!Row
<1> QED
  BY <1>1 DEF Cache!MarkCVEChecked, Cache!MarkMalwareChecked

\* runRechecks reads the clock before it scans: the time it writes beside a
\* verdict is never later than the scan it vouches for, however long the scan
\* took and whatever happened to the row meanwhile.
THEOREM StampsHonest == Spec => RecheckStampHonest
<1> DEFINE Honest == \A q \in Requests :
             /\ MarkCVE(q) /\ row' # row => row'[hreq[q]].cve <= cveOKAt[q]
             /\ MarkMal(q) /\ row' # row => row'[hreq[q]].mal <= malOKAt[q]
<1>1. GateInv => Honest
  <2> SUFFICES ASSUME GateInv, NEW q \in Requests, row' # row
               PROVE  /\ MarkCVE(q) => row'[hreq[q]].cve <= cveOKAt[q]
                      /\ MarkMal(q) => row'[hreq[q]].mal <= malOKAt[q]
    OBVIOUS
  <2>1. hreq[q] \in Refs /\ Stamped(q) /\ row \in [Refs -> Proved!Row \cup {NoRow}]
    BY DEF GateInv, IInv, RequestInv, StampInv, Proved!IInv, Proved!TypeOK
  <2>2. MarkCVE(q) => row'[hreq[q]].cve = rnow[q] /\ rnow[q] <= cveOKAt[q]
    BY <2>1, MarkWrites DEF MarkCVE, Stamped
  <2>3. MarkMal(q) => row'[hreq[q]].mal = rnow[q] /\ rnow[q] <= malOKAt[q]
    BY <2>1, MarkWrites DEF MarkMal, Stamped
  <2> QED
    BY <2>2, <2>3
<1> QED
  BY <1>1, GateInvHolds, PTL DEF Spec, RecheckStampHonest
=============================================================================
