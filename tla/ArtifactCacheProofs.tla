------------------------ MODULE ArtifactCacheProofs ------------------------
(***************************************************************************)
(* Proofs about ArtifactCache, for any number of references, contents and  *)
(* callers, any batch sizes and limits, and any combination of failures.   *)
(***************************************************************************)
EXTENDS CacheStore, FiniteSetTheorems, TLAPS

\* A goroutine has a temp file while Put is between CreateTemp and Rename, and the
\* file is on stable storage before Rename names it.  (One whose removal failed, or
\* whose process ended, stays.)
TempInv ==
  \A t \in Threads :
    /\ pc[t] \in PutPCs => tmp[t] # NoFile
    /\ pc[t] = "put_rename" => tmp[t].bytes = "synced"

\* Every file under a final name, and every one a power loss would leave
\* there, has all its bytes on stable storage.
SyncedInv ==
  \A r \in Refs :
    /\ file[r] # NoFile => file[r].bytes = "synced"
    /\ disk[r] # NoFile => disk[r].bytes = "synced"

IInv == TypeOK /\ TempInv /\ SyncedInv

LEMMA Constants ==
  /\ NoRow \notin Row
  /\ NoFile \notin File
  /\ Evictor \in Threads
  /\ Callers \subseteq Threads
  /\ Time \subseteq Int
  /\ NoRef \in Refs
  /\ NoArg \in Arg
<1>1. NoRow \notin Row
  BY CacheAssumption DEF Row, Time
<1>2. NoFile \notin File
  BY CacheAssumption DEF File
<1>3. NoRef \in Refs
  BY CacheAssumption DEF NoRef
<1>4. NoArg \in Arg
  BY CacheAssumption DEF NoArg, Arg
<1> QED
  BY <1>1, <1>2, <1>3, <1>4 DEF Threads, Time

LEMMA InitIInv == Init => IInv
<1> SUFFICES ASSUME Init PROVE IInv
  OBVIOUS
<1> USE Constants, CacheAssumption DEF Init, Start
<1>1. TypeOK
  <2>1. now \in Time /\ row \in [Refs -> Row \cup {NoRow}] /\ durable \in [Refs -> Row \cup {NoRow}]
    BY DEF Time
  <2>2. file \in [Refs -> File \cup {NoFile}] /\ disk \in [Refs -> File \cup {NoFile}]
    OBVIOUS
  <2>3. tmp \in [Threads -> File \cup {NoFile}] /\ pc \in [Threads -> PCs]
    BY DEF PCs
  <2>4. /\ ref \in [Threads -> Refs] /\ arg \in [Threads -> Arg] /\ ent \in [Threads -> Row \cup {NoRow}]
        /\ stamp \in [Threads -> Time]
    BY DEF Time
  <2>5. job \in [Threads -> {"call", "evict", "purge"}] /\ todo \in [Threads -> Seq(Refs)]
    OBVIOUS
  <2>6. prog \in [Threads -> BOOLEAN] /\ cutoff \in [Threads -> Int]
    OBVIOUS
  <2> QED
    BY <2>1, <2>2, <2>3, <2>4, <2>5, <2>6 DEF TypeOK
<1>2. TempInv
  BY DEF TempInv, PutPCs
<1>3. SyncedInv
  BY DEF SyncedInv
<1> QED
  BY <1>1, <1>2, <1>3 DEF IInv

\* A goroutine moves between two points at which it owns no temp file.
Outside(t) == \E l \in PCs \ PutPCs : pc[t] \notin PutPCs /\ Goto(t, l)

LEMMA OutsideKeeps ==
  ASSUME IInv, NEW t \in Threads, Outside(t), UNCHANGED <<tmp, file, disk>>
  PROVE  pc' \in [Threads -> PCs] /\ TempInv' /\ SyncedInv'
<1>1. PICK l \in PCs \ PutPCs : pc[t] \notin PutPCs /\ Goto(t, l)
  BY DEF Outside
<1>2. pc' \in [Threads -> PCs]
  BY <1>1 DEF IInv, TypeOK, Goto
<1>3. TempInv'
  BY <1>1 DEF IInv, TypeOK, TempInv, Goto, PutPCs
<1>4. SyncedInv'
  BY DEF IInv, SyncedInv
<1> QED
  BY <1>2, <1>3, <1>4

\* Updating one timestamp of a row keeps the table's type.
LEMMA Stamping ==
  ASSUME NEW rows \in [Refs -> Row \cup {NoRow}], NEW r \in Refs, rows[r] # NoRow, NEW ts \in Time,
         NEW new, \/ new = [rows EXCEPT ![r].hit = ts]
                  \/ new = [rows EXCEPT ![r].cve = ts]
                  \/ new = [rows EXCEPT ![r].mal = ts]
  PROVE  new \in [Refs -> Row \cup {NoRow}]
<1>1. rows[r] \in Row
  OBVIOUS
<1>2. /\ [rows[r] EXCEPT !.hit = ts] \in Row
      /\ [rows[r] EXCEPT !.cve = ts] \in Row
      /\ [rows[r] EXCEPT !.mal = ts] \in Row
  BY <1>1 DEF Row
<1> QED
  BY <1>2

LEMMA GetKeeps ==
  ASSUME IInv, NEW t \in Threads,
         \/ GetRow(t) \/ GetStat(t) \/ GetHeal(t) \/ ReadClock(t) \/ GetTouch(t)
         \/ \E r \in Refs : BeginGet(t, r)
  PROVE  IInv'
<1> USE Constants DEF storeVars, callVars, sweepVars
<1>1. Outside(t) /\ UNCHANGED <<tmp, file, disk>>
  BY DEF BeginGet, GetRow, GetStat, GetHeal, ReadClock, GetTouch, Outside, Goto, PCs, PutPCs, Results
<1>2. TypeOK'
  <2> USE <1>1, OutsideKeeps DEF IInv, TypeOK
  <2>1. CASE \E r \in Refs : BeginGet(t, r)
    BY <2>1 DEF BeginGet
  <2>2. CASE GetRow(t)
    BY <2>2 DEF GetRow
  <2>3. CASE GetStat(t)
    BY <2>3 DEF GetStat
  <2>4. CASE GetHeal(t)
    BY <2>4 DEF GetHeal
  <2>5. CASE GetTouch(t)
    <3>1. row' \in [Refs -> Row \cup {NoRow}]
      BY <2>5, Stamping DEF GetTouch
    <3> QED
      BY <2>5, <3>1 DEF GetTouch
  <2>6. CASE ReadClock(t)
    BY <2>6 DEF ReadClock
  <2> QED
    BY <2>1, <2>2, <2>3, <2>4, <2>5, <2>6
<1> QED
  BY <1>1, <1>2, OutsideKeeps DEF IInv

\* Put's steps up to CreateTemp and from the insert on.
LEMMA PutKeeps ==
  ASSUME IInv, NEW t \in Threads,
         \/ \E r \in Refs, a \in Arg : BeginPut(t, r, a)
         \/ PutInsert(t) \/ PutUndo(t) \/ PutSignal(t)
  PROVE  IInv'
<1> USE Constants DEF storeVars, callVars, sweepVars
<1>1. Outside(t) /\ UNCHANGED <<tmp, disk>>
  BY DEF BeginPut, PutInsert, PutUndo, PutSignal, Outside, Goto, PCs, PutPCs, Results
<1>2. file' \in [Refs -> File \cup {NoFile}] /\ SyncedInv'
  BY DEF IInv, TypeOK, SyncedInv, BeginPut, PutInsert, PutUndo, PutSignal
<1>3. pc' \in [Threads -> PCs] /\ TempInv'
  <2>1. PICK l \in PCs \ PutPCs : pc[t] \notin PutPCs /\ Goto(t, l)
    BY <1>1 DEF Outside
  <2> QED
    BY <1>1, <2>1 DEF IInv, TypeOK, TempInv, Goto, PutPCs
<1>4. TypeOK'
  <2> USE <1>1, <1>2, <1>3 DEF IInv, TypeOK
  <2>1. CASE \E r \in Refs, a \in Arg : BeginPut(t, r, a)
    BY <2>1 DEF BeginPut
  <2>2. CASE PutInsert(t)
    <3>1. [src |-> arg[t].src, clean |-> arg[t].clean,
           hit |-> stamp[t], cve |-> stamp[t], mal |-> stamp[t]] \in Row
      BY DEF Arg, Row
    <3> QED
      BY <2>2, <3>1 DEF PutInsert
  <2>3. CASE PutUndo(t)
    BY <2>3 DEF PutUndo
  <2>4. CASE PutSignal(t)
    BY <2>4 DEF PutSignal
  <2> QED
    BY <2>1, <2>2, <2>3, <2>4
<1> QED
  BY <1>2, <1>3, <1>4 DEF IInv

\* Put's steps on the temp file.
LEMMA CopyKeeps ==
  ASSUME IInv, NEW t \in Threads,
         PutCreate(t) \/ PutWrite(t) \/ PutSync(t) \/ PutRename(t)
  PROVE  IInv'
<1> USE Constants DEF storeVars, callVars, sweepVars, Goto, PutAbort
<1>1. pc' \in [Threads -> PCs]
  <2>1. {"put_write", "put_sync", "put_rename", "put_clock", "err"} \subseteq PCs
    BY DEF PCs, PutPCs, Results
  <2> QED
    BY <2>1 DEF IInv, TypeOK, PutCreate, PutWrite, PutSync, PutRename
<1>2. tmp' \in [Threads -> File \cup {NoFile}]
  <2>1. CASE PutCreate(t)
    <3>1. [src |-> arg[t].src, bytes |-> "partial"] \in File
      BY DEF IInv, TypeOK, Arg, File
    <3> QED
      BY <2>1, <3>1 DEF IInv, TypeOK, PutCreate
  <2>2. CASE PutWrite(t) \/ PutSync(t)
    <3>1. tmp[t] \in File
      BY <2>2 DEF IInv, TypeOK, TempInv, PutWrite, PutSync, PutPCs
    <3>2. [tmp[t] EXCEPT !.bytes = "written"] \in File /\ [tmp[t] EXCEPT !.bytes = "synced"] \in File
      BY <3>1 DEF File
    <3> QED
      BY <2>2, <3>2 DEF IInv, TypeOK, PutWrite, PutSync
  <2>3. CASE PutRename(t)
    BY <2>3 DEF IInv, TypeOK, PutRename
  <2> QED
    BY <2>1, <2>2, <2>3
<1>3. file' \in [Refs -> File \cup {NoFile}]
  BY DEF IInv, TypeOK, PutCreate, PutWrite, PutSync, PutRename
<1>4. TypeOK'
  BY <1>1, <1>2, <1>3 DEF IInv, TypeOK, PutCreate, PutWrite, PutSync, PutRename
<1>5. TempInv'
  <2> SUFFICES ASSUME NEW u \in Threads
               PROVE  /\ pc'[u] \in PutPCs => tmp'[u] # NoFile
                      /\ pc'[u] = "put_rename" => tmp'[u].bytes = "synced"
    BY DEF TempInv
  <2>1. CASE u # t
    BY <2>1 DEF IInv, TypeOK, TempInv, PutCreate, PutWrite, PutSync, PutRename
  <2>2. CASE u = t /\ PutCreate(t)
    <3>1. [src |-> arg[t].src, bytes |-> "partial"] \in File
      BY DEF IInv, TypeOK, Arg, File
    <3> QED
      BY <2>2, <3>1 DEF IInv, TypeOK, PutCreate, PutPCs
  <2>3. CASE u = t /\ (PutWrite(t) \/ PutSync(t))
    <3>1. tmp[t] \in File
      BY <2>3 DEF IInv, TypeOK, TempInv, PutWrite, PutSync, PutPCs
    <3>2. /\ [tmp[t] EXCEPT !.bytes = "written"] \in File
          /\ [tmp[t] EXCEPT !.bytes = "synced"] \in File
          /\ [tmp[t] EXCEPT !.bytes = "synced"].bytes = "synced"
      BY <3>1 DEF File
    <3> QED
      BY <2>3, <3>2 DEF IInv, TypeOK, PutWrite, PutSync, PutPCs
  <2>4. CASE u = t /\ PutRename(t)
    BY <2>4 DEF IInv, TypeOK, TempInv, PutRename, PutPCs
  <2> QED
    BY <2>1, <2>2, <2>3, <2>4
<1>6. SyncedInv'
  BY DEF IInv, TypeOK, TempInv, SyncedInv, PutCreate, PutWrite, PutSync, PutRename
<1> QED
  BY <1>4, <1>5, <1>6 DEF IInv

LEMMA InvalidateKeeps ==
  ASSUME IInv, NEW t \in Threads,
         InvRow(t) \/ InvRemove(t) \/ InvDelete(t) \/ (\E r \in Refs : BeginInvalidate(t, r))
  PROVE  IInv'
<1> USE Constants DEF storeVars, callVars, sweepVars
<1>1. Outside(t) /\ UNCHANGED <<tmp, disk>>
  <2>1. CASE InvDelete(t)
    BY <2>1 DEF InvDelete, InvReturn, Outside, Goto, PCs, PutPCs, Results
  <2>2. CASE ~InvDelete(t)
    BY <2>2 DEF BeginInvalidate, InvRow, InvRemove, Outside, Goto, PCs, PutPCs, Results
  <2> QED
    BY <2>1, <2>2
<1>2. file' \in [Refs -> File \cup {NoFile}] /\ SyncedInv'
  BY DEF IInv, TypeOK, SyncedInv, BeginInvalidate, InvRow, InvRemove, InvDelete
<1>3. pc' \in [Threads -> PCs] /\ TempInv'
  <2>1. PICK l \in PCs \ PutPCs : pc[t] \notin PutPCs /\ Goto(t, l)
    BY <1>1 DEF Outside
  <2> QED
    BY <1>1, <2>1 DEF IInv, TypeOK, TempInv, Goto, PutPCs
<1>4. TypeOK'
  <2> USE <1>1, <1>2, <1>3 DEF IInv, TypeOK
  <2>1. CASE \E r \in Refs : BeginInvalidate(t, r)
    BY <2>1 DEF BeginInvalidate
  <2>2. CASE InvRow(t)
    BY <2>2 DEF InvRow
  <2>3. CASE InvRemove(t)
    BY <2>3 DEF InvRemove
  <2>4. CASE InvDelete(t)
    <3>1. prog' \in [Threads -> BOOLEAN]
      BY <2>4 DEF InvDelete, InvReturn
    <3> QED
      BY <2>4, <3>1 DEF InvDelete
  <2> QED
    BY <2>1, <2>2, <2>3, <2>4
<1> QED
  BY <1>2, <1>3, <1>4 DEF IInv

\* What a sweep selects is a sequence of references.
LEMMA OldestFirstType ==
  ASSUME NEW S \in SUBSET Refs, NEW n \in Nat, NEW s \in OldestFirst(S, n)
  PROVE  s \in Seq(Refs)
<1>1. PICK k \in 0 .. n : s \in [1 .. k -> S]
  BY DEF OldestFirst
<1> QED
  BY <1>1

\* A call ends: the locals go back to their values between calls.
LEMMA EndTypes ==
  ASSUME IInv, NEW t \in Threads, NEW l \in PCs, End(t, l)
  PROVE  /\ ref' \in [Threads -> Refs] /\ arg' \in [Threads -> Arg]
         /\ ent' \in [Threads -> Row \cup {NoRow}]
         /\ stamp' \in [Threads -> Time]
         /\ job' \in [Threads -> {"call", "evict", "purge"}]
         /\ todo' \in [Threads -> Seq(Refs)]
         /\ prog' \in [Threads -> BOOLEAN]
         /\ cutoff' \in [Threads -> Int]
<1>1. 0 \in Time
  BY CacheAssumption DEF Time
<1> QED
  BY <1>1, Constants DEF IInv, TypeOK, End

LEMMA EvictKeeps ==
  ASSUME IInv, EvictWake \/ EvictSize \/ EvictPick \/ EvictRound \/ EvictDone
  PROVE  IInv'
<1> USE Constants DEF storeVars, callVars, sweepVars
<1>1. UNCHANGED <<now, row, durable, file, disk, tmp>>
  BY DEF EvictWake, EvictSize, EvictPick, EvictRound, EvictDone
<1>2. pc' = pc \/ Outside(Evictor)
  BY DEF EvictWake, EvictSize, EvictPick, EvictRound, EvictDone, End, Outside, Goto, PCs, PutPCs, Results
<1>3. pc' \in [Threads -> PCs] /\ TempInv' /\ SyncedInv'
  <2>1. CASE pc' = pc
    BY <1>1, <2>1 DEF IInv, TypeOK, TempInv, SyncedInv
  <2>2. CASE Outside(Evictor)
    BY <1>1, <2>2, OutsideKeeps
  <2> QED
    BY <1>2, <2>1, <2>2
<1>4. TypeOK'
  <2>1. CASE EvictWake
    BY <1>1, <1>3, <2>1 DEF IInv, TypeOK, EvictWake
  <2>2. CASE End(Evictor, "sweep_done")
    <3>1. signal' \in BOOLEAN /\ phase' = phase
      BY <2>2 DEF IInv, TypeOK, EvictWake, EvictSize, EvictPick, EvictRound, EvictDone
    <3>2. "sweep_done" \in PCs
      BY DEF PCs
    <3> QED
      BY <1>1, <1>3, <2>2, <3>1, <3>2, EndTypes DEF IInv, TypeOK
  <2>3. CASE EvictSize /\ ~End(Evictor, "sweep_done")
    BY <1>1, <1>3, <2>3 DEF IInv, TypeOK, EvictSize
  <2>4. CASE EvictPick /\ ~End(Evictor, "sweep_done")
    <3>1. PICK s \in OldestFirst(Rows, EvictBatch) : todo' = [todo EXCEPT ![Evictor] = s]
      BY <2>4 DEF EvictPick
    <3>2. s \in Seq(Refs)
      BY OldestFirstType, CacheAssumption DEF Rows
    <3> QED
      BY <1>1, <1>3, <2>4, <3>1, <3>2 DEF IInv, TypeOK, EvictPick
  <2>5. CASE EvictRound /\ ~End(Evictor, "sweep_done")
    BY <1>1, <1>3, <2>5 DEF IInv, TypeOK, EvictRound
  <2>6. CASE EvictDone
    BY <1>1, <1>3, <2>6 DEF IInv, TypeOK, EvictDone
  <2> QED
    BY <2>1, <2>2, <2>3, <2>4, <2>5, <2>6
<1> QED
  BY <1>3, <1>4 DEF IInv

LEMMA SweepKeeps ==
  ASSUME IInv, NEW t \in Threads,
         SweepNext(t) \/ BeginPurge(t) \/ PurgePick(t) \/ PurgeRound(t) \/ Return(t)
  PROVE  IInv'
<1> USE Constants DEF storeVars, callVars, sweepVars
<1>1. Outside(t) /\ UNCHANGED <<now, row, durable, file, disk, tmp, signal, phase>>
  BY DEF SweepNext, BeginPurge, PurgePick, PurgeRound, Return, End, Outside, Goto, PCs, PutPCs, Results
<1>2. TypeOK'
  <2> USE <1>1, OutsideKeeps
  <2>1. CASE SweepNext(t)
    <3>1. Head(todo[t]) \in Refs /\ Tail(todo[t]) \in Seq(Refs)
      BY <2>1 DEF IInv, TypeOK, SweepNext
    <3> QED
      BY <2>1, <3>1 DEF IInv, TypeOK, SweepNext
  <2>2. CASE BeginPurge(t)
    <3>1. now - StaleAfter \in Int
      BY CacheAssumption DEF IInv, TypeOK, Time
    <3> QED
      BY <2>2, <3>1 DEF IInv, TypeOK, BeginPurge
  <2>3. CASE PurgePick(t)
    <3>1. todo' \in [Threads -> Seq(Refs)]
      <4>1. CASE \E s \in OldestFirst(StaleRows(cutoff[t]), PurgeBatch) : todo' = [todo EXCEPT ![t] = s]
        <5>1. PICK s \in OldestFirst(StaleRows(cutoff[t]), PurgeBatch) : todo' = [todo EXCEPT ![t] = s]
          BY <4>1
        <5>2. s \in Seq(Refs)
          BY OldestFirstType, CacheAssumption DEF StaleRows, Rows
        <5> QED
          BY <5>1, <5>2 DEF IInv, TypeOK
      <4> QED
        BY <2>3, <4>1 DEF IInv, TypeOK, PurgePick
    <3> QED
      BY <2>3, <3>1 DEF IInv, TypeOK, PurgePick
  <2>4. CASE PurgeRound(t)
    BY <2>4 DEF IInv, TypeOK, PurgeRound
  <2>5. CASE Return(t)
    <3>1. "idle" \in PCs
      BY DEF PCs
    <3> QED
      BY <2>5, <3>1, EndTypes DEF IInv, TypeOK, Return
  <2> QED
    BY <2>1, <2>2, <2>3, <2>4, <2>5
<1> QED
  BY <1>1, <1>2, OutsideKeeps DEF IInv

LEMMA MarkKeeps ==
  ASSUME IInv, Mark
  PROVE  IInv'
<1> USE Constants DEF storeVars, callVars, sweepVars
<1>1. row' \in [Refs -> Row \cup {NoRow}]
  <2>1. PICK r \in Refs, ts \in 0 .. now : MarkCVEChecked(r, ts) \/ MarkMalwareChecked(r, ts)
    BY DEF Mark
  <2>2. ts \in Time
    BY CacheAssumption DEF IInv, TypeOK, Time
  <2> QED
    BY <2>1, <2>2, Stamping DEF IInv, TypeOK, MarkCVEChecked, MarkMalwareChecked
<1> QED
  BY <1>1 DEF Mark, IInv, TypeOK, TempInv, SyncedInv

\* The clock, shutdown and the writes the operating system makes on its own.
LEMMA QuietKeeps ==
  ASSUME IInv, Tick \/ Close \/ CloseIndex \/ Checkpoint \/ (\E r \in Refs : SyncDir(r))
  PROVE  IInv'
<1> USE Constants, CacheAssumption DEF storeVars, callVars, sweepVars
<1>1. UNCHANGED <<callVars, sweepVars, row, file>>
  BY DEF Tick, Close, CloseIndex, Checkpoint, SyncDir
<1>2. now' \in Time /\ phase' \in {"open", "closing", "closed"}
  BY DEF IInv, TypeOK, Time, Tick, Close, CloseIndex, Checkpoint, SyncDir
<1>3. durable' \in [Refs -> Row \cup {NoRow}] /\ disk' \in [Refs -> File \cup {NoFile}]
  <2>1. CASE \E r \in Refs : SyncDir(r)
    BY <2>1 DEF IInv, TypeOK, SyncDir
  <2>2. CASE Tick \/ Close \/ CloseIndex \/ Checkpoint
    BY <2>2 DEF IInv, TypeOK, Tick, Close, CloseIndex, Checkpoint
  <2> QED
    BY <2>1, <2>2
<1>4. SyncedInv'
  BY DEF IInv, TypeOK, SyncedInv, Tick, Close, CloseIndex, Checkpoint, SyncDir
<1> QED
  BY <1>1, <1>2, <1>3, <1>4 DEF IInv, TypeOK, TempInv

\* The process ends and another starts: of what a Put was doing only the temp file
\* can be left, and only files that were synced before they were named.
LEMMA RestartKeeps ==
  ASSUME IInv, Crash \/ Exit \/ PowerLoss
  PROVE  IInv'
<1> USE Constants
<1>1. Reboot
  BY DEF Crash, Exit, PowerLoss
<1>2. /\ now' \in Time /\ phase' = "open" /\ signal' = FALSE
      /\ tmp' \in [Threads -> File \cup {NoFile}]
      /\ pc' \in [Threads -> PCs]
      /\ TempInv'
  <2>1. now' \in Time /\ phase' = "open" /\ signal' = FALSE /\ pc' \in [Threads -> PCs] /\ TempInv'
    BY <1>1 DEF IInv, TypeOK, TempInv, Reboot, PCs, PutPCs
  <2>2. tmp' \in [Threads -> File \cup {NoFile}]
    <3>1. CASE Crash \/ Exit
      BY <3>1 DEF IInv, TypeOK, Crash, Exit
    <3>2. CASE PowerLoss
      <4>1. \A f \in File : [f EXCEPT !.bytes = "partial"] \in File
        BY DEF File
      <4>2. \A t \in Threads : Torn(tmp[t]) \in File \cup {NoFile}
        BY <4>1 DEF IInv, TypeOK, Torn
      <4> QED
        BY <3>2, <4>2 DEF PowerLoss
    <3> QED
      BY <3>1, <3>2
  <2> QED
    BY <2>1, <2>2
<1>3. /\ ref' \in [Threads -> Refs] /\ arg' \in [Threads -> Arg]
      /\ ent' \in [Threads -> Row \cup {NoRow}]
      /\ stamp' \in [Threads -> Time]
      /\ job' \in [Threads -> {"call", "evict", "purge"}]
      /\ todo' \in [Threads -> Seq(Refs)]
      /\ prog' \in [Threads -> BOOLEAN]
      /\ cutoff' \in [Threads -> Int]
  BY <1>1, CacheAssumption DEF Reboot, Time
<1>4. /\ row' \in [Refs -> Row \cup {NoRow}] /\ durable' \in [Refs -> Row \cup {NoRow}]
      /\ file' \in [Refs -> File \cup {NoFile}] /\ disk' \in [Refs -> File \cup {NoFile}]
      /\ SyncedInv'
  <2>1. CASE Crash \/ Exit
    BY <2>1 DEF IInv, TypeOK, SyncedInv, Crash, Exit
  <2>2. CASE PowerLoss
    <3>1. \A r \in Refs : Torn(disk[r]) = disk[r]
      BY DEF IInv, SyncedInv, Torn
    <3> QED
      BY <2>2, <3>1 DEF IInv, TypeOK, SyncedInv, PowerLoss
  <2> QED
    BY <2>1, <2>2
<1> QED
  BY <1>2, <1>3, <1>4 DEF IInv, TypeOK

LEMMA NextIInv == IInv /\ [Next]_cacheVars => IInv'
<1> SUFFICES ASSUME IInv, [Next]_cacheVars PROVE IInv'
  OBVIOUS
<1> USE Constants
<1>1. CASE \E t \in Callers : Begin(t) \/ CallStep(t) \/ Return(t)
  <2>1. PICK t \in Callers : Begin(t) \/ CallStep(t) \/ Return(t)
    BY <1>1
  <2> QED
    BY <2>1, GetKeeps, PutKeeps, CopyKeeps, InvalidateKeeps, SweepKeeps DEF Begin, CallStep
<1>2. CASE WorkerStep
  BY <1>2, EvictKeeps, SweepKeeps, InvalidateKeeps DEF WorkerStep
<1>3. CASE Mark
  BY <1>3, MarkKeeps
<1>4. CASE Environment
  BY <1>4, QuietKeeps, RestartKeeps DEF Environment
<1>5. CASE UNCHANGED cacheVars
  BY <1>5 DEF cacheVars, storeVars, callVars, sweepVars, IInv, TypeOK, TempInv, SyncedInv
<1> QED
  BY <1>1, <1>2, <1>3, <1>4, <1>5 DEF Next

\* Every variable of the cache keeps its type, whatever fails.
THEOREM CacheTyped == Spec => []TypeOK
<1>1. Spec => []IInv
  BY InitIInv, NextIInv, PTL DEF Spec
<1>2. IInv => TypeOK
  BY DEF IInv
<1> QED
  BY <1>1, <1>2, PTL

\* No crash, power loss or failed call leaves a half-written file under an
\* artifact's final name (Put's temp file, fsync and rename).
THEOREM CacheNeverTorn == Spec => []NoTornFile
<1>1. Spec => []IInv
  BY InitIInv, NextIInv, PTL DEF Spec
<1>2. IInv => NoTornFile
  BY DEF IInv, SyncedInv, NoTornFile
<1> QED
  BY <1>1, <1>2, PTL

-----------------------------------------------------------------------------
(* What one step does to the other goroutines, and to the rows *)

Apart(t) ==
  \A u \in Threads \ {t} :
    /\ pc'[u] = pc[u] /\ ref'[u] = ref[u] /\ arg'[u] = arg[u] /\ ent'[u] = ent[u]
    /\ tmp'[u] = tmp[u] /\ stamp'[u] = stamp[u]
    /\ job'[u] = job[u] /\ todo'[u] = todo[u] /\ prog'[u] = prog[u] /\ cutoff'[u] = cutoff[u]

\* A goroutine's step leaves the locals of the others alone.
LEMMA StepsApart ==
  ASSUME IInv, NEW t \in Threads, Begin(t) \/ CallStep(t) \/ Return(t)
  PROVE  Apart(t)
<1> USE DEF IInv, TypeOK, Apart, Goto, callVars, sweepVars
<1>1. CASE Begin(t)
  BY <1>1 DEF Begin, BeginGet, BeginInvalidate, BeginPut, BeginPurge
<1>2. CASE Return(t)
  BY <1>2 DEF Return, End
<1>3. CASE GetRow(t) \/ GetStat(t) \/ GetHeal(t) \/ ReadClock(t) \/ GetTouch(t)
  BY <1>3 DEF GetRow, GetStat, GetHeal, ReadClock, GetTouch
<1>4. CASE PutCreate(t) \/ PutWrite(t) \/ PutSync(t) \/ PutRename(t)
  BY <1>4 DEF PutCreate, PutWrite, PutSync, PutRename, PutAbort
<1>5. CASE PutInsert(t) \/ PutUndo(t) \/ PutSignal(t)
  BY <1>5 DEF PutInsert, PutUndo, PutSignal
<1>6. CASE InvRow(t) \/ InvRemove(t) \/ InvDelete(t)
  BY <1>6 DEF InvRow, InvRemove, InvDelete, InvReturn
<1>7. CASE SweepNext(t) \/ PurgePick(t) \/ PurgeRound(t)
  BY <1>7 DEF SweepNext, PurgePick, PurgeRound
<1> QED
  BY <1>1, <1>2, <1>3, <1>4, <1>5, <1>6, <1>7 DEF CallStep

LEMMA WorkerApart == ASSUME IInv, WorkerStep PROVE Apart(Evictor)
<1> USE DEF IInv, TypeOK, Apart, Goto, callVars, sweepVars
<1>1. CASE EvictWake \/ EvictDone
  BY <1>1 DEF EvictWake, EvictDone
<1>2. CASE EvictSize \/ EvictPick \/ EvictRound
  BY <1>2 DEF EvictSize, EvictPick, EvictRound, End
<1>3. CASE InvRow(Evictor) \/ InvRemove(Evictor) \/ InvDelete(Evictor) \/ SweepNext(Evictor)
  BY <1>3, Constants, StepsApart DEF CallStep
<1> QED
  BY <1>1, <1>2, <1>3 DEF WorkerStep

\* The row of a reference stays, apart from its timestamps, or goes.
RowKept(r) ==
  \/ row'[r] = NoRow
  \/ /\ row[r] # NoRow /\ row'[r] # NoRow
     /\ row'[r].src = row[r].src /\ row'[r].clean = row[r].clean

RowsKept == \A r \in Refs : RowKept(r)

\* No row comes, and none gets another last_hit.
HitsKept == \A r \in Refs : row'[r] = NoRow \/ (row[r] # NoRow /\ row'[r].hit = row[r].hit)

\* The points at which a call holds a time for the last_hit of its reference.
Writing == {"get_touch", "put_insert"}

\* The steps that write one.
Writes(t) ==
  /\ pc[t] \in Writing /\ pc'[t] \notin Writing
  /\ \A r \in Refs : r # ref[t] => row'[r] = row[r]
  /\ row'[ref[t]].hit = stamp[t]

\* The one step that brings a row.
Inserts(t) ==
  /\ pc[t] = "put_insert"
  /\ pc' = [pc EXCEPT ![t] = "put_signal"]
  /\ row' = [row EXCEPT ![ref[t]] = [src |-> arg[t].src, clean |-> arg[t].clean,
                                     hit |-> stamp[t], cve |-> stamp[t], mal |-> stamp[t]]]
  /\ UNCHANGED <<now, file, tmp, ref, arg, ent, stamp, sweepVars, phase, durable, disk>>

LEMMA SameRows == ASSUME UNCHANGED row PROVE RowsKept /\ HitsKept
BY DEF RowsKept, RowKept, HitsKept

LEMMA StampedRows ==
  ASSUME IInv, NEW r \in Refs, NEW ts \in Time,
         \/ row' = [row EXCEPT ![r] = NoRow]
         \/ row[r] # NoRow /\ row' = [row EXCEPT ![r].hit = ts]
         \/ row[r] # NoRow /\ row' = [row EXCEPT ![r].cve = ts]
         \/ row[r] # NoRow /\ row' = [row EXCEPT ![r].mal = ts]
  PROVE  RowsKept /\ (HitsKept \/ row' = [row EXCEPT ![r].hit = ts])
<1>1. row \in [Refs -> Row \cup {NoRow}]
  BY DEF IInv, TypeOK
<1>2. CASE row' = [row EXCEPT ![r] = NoRow]
  BY <1>1, <1>2 DEF RowsKept, RowKept, HitsKept
<1>3. CASE row[r] # NoRow /\ row' # [row EXCEPT ![r] = NoRow]
  <2>1. PICK e : e = row[r] /\ e \in Row /\ row' \in {[row EXCEPT ![r] = [e EXCEPT !.hit = ts]],
           [row EXCEPT ![r] = [e EXCEPT !.cve = ts]], [row EXCEPT ![r] = [e EXCEPT !.mal = ts]]}
    BY <1>1, <1>3
  <2>2. /\ \A f \in {[e EXCEPT !.hit = ts], [e EXCEPT !.cve = ts], [e EXCEPT !.mal = ts]} :
             f \in Row /\ f.src = e.src /\ f.clean = e.clean
        /\ [e EXCEPT !.cve = ts].hit = e.hit /\ [e EXCEPT !.mal = ts].hit = e.hit
    BY <2>1 DEF Row
  <2>3. RowsKept
    BY <1>1, <1>3, <2>1, <2>2, Constants DEF RowsKept, RowKept
  <2>4. CASE row' = [row EXCEPT ![r] = [e EXCEPT !.hit = ts]]
    BY <2>1, <2>3, <2>4
  <2>5. CASE row' # [row EXCEPT ![r] = [e EXCEPT !.hit = ts]]
    <3>1. \A x \in Refs : x # r => row'[x] = row[x]
      BY <1>1, <2>1
    <3>2. row'[r].hit = row[r].hit
      BY <1>1, <2>1, <2>2, <2>5
    <3> QED
      BY <1>3, <2>3, <3>1, <3>2 DEF HitsKept
  <2> QED
    BY <2>4, <2>5
<1> QED
  BY <1>2, <1>3

LEMMA CallerRows ==
  ASSUME IInv, NEW t \in Threads, Begin(t) \/ CallStep(t) \/ Return(t)
  PROVE  (RowsKept \/ Inserts(t)) /\ (HitsKept \/ Writes(t))
<1> USE DEF storeVars
<1>0. ref[t] \in Refs /\ stamp[t] \in Time /\ pc \in [Threads -> PCs] /\ row \in [Refs -> Row \cup {NoRow}]
  BY DEF IInv, TypeOK
<1>1. CASE GetTouch(t)
  <2>1. CASE row' = row
    BY <2>1, SameRows
  <2>2. CASE row' # row
    <3>1. row[ref[t]] # NoRow /\ row' = [row EXCEPT ![ref[t]].hit = stamp[t]]
      BY <1>1, <2>2 DEF GetTouch
    <3>2. RowsKept
      BY <1>0, <3>1, StampedRows
    <3>3. row'[ref[t]].hit = stamp[t]
      BY <1>0, <3>1 DEF Row
    <3> QED
      BY <1>0, <1>1, <3>1, <3>2, <3>3 DEF GetTouch, Goto, Writes, Writing
  <2> QED
    BY <2>1, <2>2
<1>2. CASE GetHeal(t) \/ InvDelete(t)
  <2>1. row' = row \/ row' = [row EXCEPT ![ref[t]] = NoRow]
    BY <1>2 DEF GetHeal, InvDelete
  <2>2. row' = [row EXCEPT ![ref[t]] = NoRow] => RowsKept /\ HitsKept
    BY <1>0 DEF RowsKept, RowKept, HitsKept
  <2> QED
    BY <2>1, <2>2, SameRows
<1>3. CASE PutInsert(t)
  BY <1>0, <1>3, SameRows DEF PutInsert, Inserts, Writes, Writing, Goto, callVars
<1>4. CASE Begin(t) \/ Return(t)
  BY <1>4, SameRows DEF Begin, BeginGet, BeginInvalidate, BeginPut, BeginPurge, Return
<1>5. CASE GetRow(t) \/ GetStat(t) \/ ReadClock(t) \/ PutCreate(t) \/ PutWrite(t) \/ PutSync(t) \/ PutRename(t) \/ PutUndo(t)
  BY <1>5, SameRows DEF GetRow, GetStat, ReadClock, PutCreate, PutWrite, PutSync, PutRename, PutUndo
<1>6. CASE PutSignal(t) \/ InvRow(t) \/ InvRemove(t) \/ SweepNext(t) \/ PurgePick(t) \/ PurgeRound(t)
  BY <1>6, SameRows DEF PutSignal, InvRow, InvRemove, SweepNext, PurgePick, PurgeRound
<1> QED
  BY <1>1, <1>2, <1>3, <1>4, <1>5, <1>6 DEF CallStep

LEMMA WorkerRows == ASSUME IInv, WorkerStep PROVE RowsKept /\ HitsKept
<1>1. CASE EvictWake \/ EvictSize \/ EvictPick \/ EvictRound \/ EvictDone
  BY <1>1, SameRows DEF EvictWake, EvictSize, EvictPick, EvictRound, EvictDone, storeVars
<1>2. CASE InvRow(Evictor) \/ InvRemove(Evictor) \/ SweepNext(Evictor)
  BY <1>2, SameRows DEF InvRow, InvRemove, SweepNext, storeVars
<1>3. CASE InvDelete(Evictor)
  <2>1. ref[Evictor] \in Refs /\ row \in [Refs -> Row \cup {NoRow}]
    BY Constants DEF IInv, TypeOK
  <2>2. row' = [row EXCEPT ![ref[Evictor]] = NoRow] => RowsKept /\ HitsKept
    BY <2>1 DEF RowsKept, RowKept, HitsKept
  <2> QED
    BY <1>3, <2>2, SameRows DEF InvDelete
<1> QED
  BY <1>1, <1>2, <1>3 DEF WorkerStep

LEMMA MarkRows == ASSUME IInv, Mark PROVE RowsKept /\ HitsKept
<1>1. PICK r \in Refs, ts \in 0 .. now : MarkCVEChecked(r, ts) \/ MarkMalwareChecked(r, ts)
  BY DEF Mark
<1>2. ts \in Time
  BY CacheAssumption DEF IInv, TypeOK, Time
<1>3. CASE row' = row
  BY <1>3, SameRows
<1>4. CASE row' # row
  <2>1. row[r] # NoRow /\ (row' = [row EXCEPT ![r].cve = ts] \/ row' = [row EXCEPT ![r].mal = ts])
    BY <1>1, <1>4 DEF MarkCVEChecked, MarkMalwareChecked
  <2>2. row[r] \in Row /\ row \in [Refs -> Row \cup {NoRow}]
    BY <2>1 DEF IInv, TypeOK
  <2>3. row'[r].hit = row[r].hit /\ row'[r] # NoRow
    <3>1. \A e \in Row : /\ [e EXCEPT !.cve = ts] \in Row /\ [e EXCEPT !.mal = ts] \in Row
                        /\ [e EXCEPT !.cve = ts].hit = e.hit /\ [e EXCEPT !.mal = ts].hit = e.hit
      BY <1>2 DEF Row
    <3> QED
      BY <2>1, <2>2, <3>1, Constants
  <2>4. \A x \in Refs : x # r => row'[x] = row[x]
    BY <2>1, <2>2
  <2> QED
    BY <1>2, <2>1, <2>3, <2>4, StampedRows DEF HitsKept
<1> QED
  BY <1>3, <1>4
-----------------------------------------------------------------------------
(* A purge has fewer and fewer candidates *)

\* A purge's cutoff is never ahead of the clock, and neither the worker nor a
\* goroutine outside a call has one.
CutoffInv ==
  /\ job[Evictor] # "purge"
  /\ \A t \in Threads :
       /\ job[t] = "purge" => cutoff[t] <= now
       /\ pc[t] = "idle" => job[t] # "purge"

LEMMA CutoffCalls ==
  ASSUME IInv, CutoffInv, NEW t \in Callers, Begin(t) \/ CallStep(t) \/ Return(t)
  PROVE  CutoffInv' /\ (job[t] = "purge" /\ job'[t] = "purge" => cutoff'[t] = cutoff[t])
<1>0. /\ pc \in [Threads -> PCs] /\ job \in [Threads -> {"call", "evict", "purge"}] /\ cutoff \in [Threads -> Int]
      /\ now \in Int /\ t \in Threads /\ Evictor \in Threads \ {t}
  BY Constants, CacheAssumption DEF IInv, TypeOK
<1>1. Apart(t)
  BY <1>0, StepsApart
<1>2. now' = now
  BY DEF Begin, BeginGet, BeginInvalidate, BeginPut, BeginPurge, Return, CallStep, GetRow, GetStat, GetHeal,
     ReadClock, GetTouch, PutCreate, PutWrite, PutSync, PutRename, PutInsert, PutUndo, PutSignal, InvRow,
     InvRemove, InvDelete, SweepNext, PurgePick, PurgeRound, storeVars
<1>3. /\ job'[t] = "purge" => cutoff'[t] <= now
      /\ pc'[t] = "idle" => job'[t] # "purge"
      /\ job[t] = "purge" /\ job'[t] = "purge" => cutoff'[t] = cutoff[t]
  <2> USE <1>0 DEF CutoffInv, Goto, sweepVars
  <2>1. CASE Return(t)
    BY <2>1 DEF Return, End
  <2>2. CASE BeginPurge(t)
    <3>1. now - StaleAfter <= now
      BY CacheAssumption
    <3> QED
      BY <2>2, <3>1 DEF BeginPurge
  <2>3. CASE Begin(t) /\ ~BeginPurge(t)
    BY <2>3 DEF Begin, BeginGet, BeginInvalidate, BeginPut
  <2>4. CASE GetRow(t) \/ GetStat(t) \/ GetHeal(t) \/ ReadClock(t) \/ GetTouch(t) \/ PutCreate(t) \/ PutWrite(t)
    BY <2>4 DEF GetRow, GetStat, GetHeal, ReadClock, GetTouch, PutCreate, PutWrite, PutAbort
  <2>5. CASE PutSync(t) \/ PutRename(t) \/ PutInsert(t) \/ PutUndo(t) \/ PutSignal(t)
    BY <2>5 DEF PutSync, PutRename, PutInsert, PutUndo, PutSignal, PutAbort
  <2>6. CASE InvRow(t) \/ InvRemove(t) \/ InvDelete(t)
    BY <2>6 DEF InvRow, InvRemove, InvDelete, InvReturn
  <2>7. CASE SweepNext(t) \/ PurgePick(t) \/ PurgeRound(t)
    BY <2>7 DEF SweepNext, PurgePick, PurgeRound
  <2> QED
    BY <2>1, <2>2, <2>3, <2>4, <2>5, <2>6, <2>7 DEF CallStep
<1> QED
  BY <1>0, <1>1, <1>2, <1>3 DEF CutoffInv, Apart

LEMMA CutoffWorker ==
  ASSUME IInv, CutoffInv, WorkerStep
  PROVE  CutoffInv'
<1>0. /\ pc \in [Threads -> PCs] /\ job \in [Threads -> {"call", "evict", "purge"}] /\ cutoff \in [Threads -> Int]
      /\ Evictor \in Threads
  BY Constants DEF IInv, TypeOK
<1>1. Apart(Evictor)
  BY WorkerApart
<1>2. now' = now
  BY DEF WorkerStep, EvictWake, EvictSize, EvictPick, EvictRound, EvictDone, InvRow, InvRemove, InvDelete,
     SweepNext, storeVars
<1>3. job'[Evictor] # "purge"
  <2> USE <1>0 DEF CutoffInv, Goto, sweepVars
  <2>1. CASE EvictWake \/ EvictSize \/ EvictPick \/ EvictRound
    BY <2>1 DEF EvictWake, EvictSize, EvictPick, EvictRound, End
  <2>2. CASE EvictDone
    BY <2>2 DEF EvictDone
  <2>3. CASE InvRow(Evictor) \/ InvRemove(Evictor) \/ InvDelete(Evictor) \/ SweepNext(Evictor)
    BY <2>3 DEF InvRow, InvRemove, InvDelete, InvReturn, SweepNext
  <2> QED
    BY <2>1, <2>2, <2>3 DEF WorkerStep
<1> QED
  BY <1>1, <1>2, <1>3 DEF CutoffInv, Apart

\* A step that keeps the clock and the goroutines' cutoffs, or only moves the clock.
LEMMA CutoffRest ==
  ASSUME IInv, CutoffInv, Mark \/ Environment \/ UNCHANGED cacheVars
  PROVE  CutoffInv'
<1>0. pc \in [Threads -> PCs] /\ cutoff \in [Threads -> Int] /\ now \in Int /\ Evictor \in Threads
  BY Constants DEF IInv, TypeOK
<1>1. CASE Crash \/ Exit \/ PowerLoss
  BY <1>0, <1>1 DEF Crash, Exit, PowerLoss, Reboot, CutoffInv
<1>2. CASE Tick
  <2>1. now' = now + 1 /\ UNCHANGED <<pc, job, cutoff>>
    BY <1>2 DEF Tick, callVars, sweepVars
  <2> QED
    BY <1>0, <2>1 DEF CutoffInv
<1>3. CASE ~(Crash \/ Exit \/ PowerLoss \/ Tick)
  <2>1. UNCHANGED <<now, pc, job, cutoff>>
    BY <1>3 DEF Mark, Environment, Close, CloseIndex, Checkpoint, SyncDir, cacheVars, storeVars, callVars, sweepVars
  <2> QED
    BY <2>1 DEF CutoffInv
<1> QED
  BY <1>1, <1>2, <1>3

\* A row becomes stale for a cutoff only by a call that holds an earlier time.
LEMMA StaleStays ==
  ASSUME NEW c \in Int, IInv, HitsKept \/ \E u \in Callers : Writes(u)
  PROVE  \A r \in Refs : row'[r] # NoRow /\ row'[r].hit < c =>
           \/ row[r] # NoRow /\ row[r].hit < c
           \/ \E u \in Callers : r = ref[u] /\ pc[u] \in Writing /\ stamp[u] < c /\ pc'[u] \notin Writing
BY DEF HitsKept, Writes

\* A call that is to write a time took it over, or has just read the clock.
Clocked(u) ==
  pc'[u] \in Writing => (pc[u] \in Writing /\ stamp'[u] = stamp[u]) \/ stamp'[u] = now

LEMMA CallerClock ==
  ASSUME IInv, NEW t \in Callers, Begin(t) \/ CallStep(t) \/ Return(t)
  PROVE  \A u \in Callers : Clocked(u)
<1>0. t \in Threads /\ pc \in [Threads -> PCs] /\ stamp \in [Threads -> Time]
  BY Constants DEF IInv, TypeOK
<1>1. Apart(t)
  BY <1>0, StepsApart
<1>2. Clocked(t)
  <2> USE <1>0 DEF Clocked, Writing, Goto
  <2>1. CASE Begin(t)
    BY <2>1 DEF Begin, BeginGet, BeginInvalidate, BeginPut, BeginPurge
  <2>2. CASE Return(t)
    BY <2>2 DEF Return, End
  <2>3. CASE GetRow(t) \/ GetStat(t) \/ GetHeal(t) \/ ReadClock(t) \/ GetTouch(t)
    BY <2>3 DEF GetRow, GetStat, GetHeal, ReadClock, GetTouch
  <2>4. CASE PutCreate(t) \/ PutWrite(t) \/ PutSync(t) \/ PutRename(t)
    BY <2>4 DEF PutCreate, PutWrite, PutSync, PutRename, PutAbort
  <2>5. CASE PutInsert(t) \/ PutUndo(t) \/ PutSignal(t)
    BY <2>5 DEF PutInsert, PutUndo, PutSignal
  <2>6. CASE InvRow(t) \/ InvRemove(t) \/ InvDelete(t)
    BY <2>6 DEF InvRow, InvRemove, InvDelete, InvReturn
  <2>7. CASE SweepNext(t) \/ PurgePick(t) \/ PurgeRound(t)
    BY <2>7 DEF SweepNext, PurgePick, PurgeRound
  <2> QED
    BY <2>1, <2>2, <2>3, <2>4, <2>5, <2>6, <2>7 DEF CallStep
<1> QED
  BY <1>1, <1>2, Constants DEF Clocked, Apart

LEMMA PurgeStep ==
  ASSUME IInv, CutoffInv, [Next]_cacheVars, NEW t \in Callers, Purging(t), Purging(t)'
  PROVE  /\ StaleRows(cutoff[t])' \ StaleRows(cutoff[t]) \subseteq {ref[u] : u \in Late(cutoff[t]) \ Late(cutoff[t])'}
         /\ Late(cutoff[t])' \subseteq Late(cutoff[t])
<1>0. t \in Threads /\ job[t] = "purge" /\ cutoff[t] \in Int /\ cutoff[t] <= now /\ now \in Int
  BY Constants DEF IInv, TypeOK, CutoffInv, Purging
<1>1. /\ cutoff'[t] = cutoff[t]
      /\ HitsKept \/ \E u \in Callers : Writes(u)
      /\ \A u \in Callers : Clocked(u)
  <2>1. CASE \E u \in Callers : Begin(u) \/ CallStep(u) \/ Return(u)
    <3>1. PICK u \in Callers : Begin(u) \/ CallStep(u) \/ Return(u)
      BY <2>1
    <3>2. cutoff'[t] = cutoff[t]
      <4>1. CASE u = t
        BY <3>1, <4>1, CutoffCalls DEF Purging
      <4>2. CASE u # t
        BY <1>0, <3>1, <4>2, Constants, StepsApart DEF Apart
      <4> QED
        BY <4>1, <4>2
    <3> QED
      BY <3>1, <3>2, Constants, CallerRows, CallerClock
  <2>2. CASE WorkerStep
    BY <1>0, <2>2, WorkerApart, WorkerRows, Constants, CacheAssumption DEF Apart, Clocked
  <2>3. CASE Mark
    BY <2>3, MarkRows DEF Mark, callVars, sweepVars, Clocked
  <2>4. CASE Environment
    <3>1. ~Reboot
      BY <1>0 DEF Reboot, Purging
    <3>2. UNCHANGED <<row, cutoff, pc, stamp>>
      BY <2>4, <3>1 DEF Environment, Tick, Close, CloseIndex, Crash, Exit, Checkpoint, SyncDir, PowerLoss,
         storeVars, callVars, sweepVars
    <3> QED
      BY <3>2, SameRows DEF Clocked
  <2>5. CASE UNCHANGED cacheVars
    BY <2>5, SameRows DEF cacheVars, storeVars, callVars, sweepVars, Clocked
  <2> QED
    BY <2>1, <2>2, <2>3, <2>4, <2>5 DEF Next
<1>2. \A r \in Refs : row'[r] # NoRow /\ row'[r].hit < cutoff[t] =>
        \/ row[r] # NoRow /\ row[r].hit < cutoff[t]
        \/ \E u \in Callers : r = ref[u] /\ pc[u] \in Writing /\ stamp[u] < cutoff[t] /\ pc'[u] \notin Writing
  BY <1>0, <1>1, StaleStays
<1>3. \A u \in Callers : pc'[u] \in Writing /\ stamp'[u] < cutoff[t] => pc[u] \in Writing /\ stamp[u] < cutoff[t]
  BY <1>0, <1>1 DEF Clocked
<1>4. Late(cutoff[t])' \subseteq Late(cutoff[t])
  BY <1>1, <1>3 DEF Late, Writing
<1>5. StaleRows(cutoff[t])' \ StaleRows(cutoff[t]) \subseteq {ref[u] : u \in Late(cutoff[t]) \ Late(cutoff[t])'}
  <2> SUFFICES ASSUME NEW r \in StaleRows(cutoff[t])', r \notin StaleRows(cutoff[t])
               PROVE  r \in {ref[u] : u \in Late(cutoff[t]) \ Late(cutoff[t])'}
    OBVIOUS
  <2>1. r \in Refs /\ row'[r] # NoRow /\ row'[r].hit < cutoff[t] /\ ~(row[r] # NoRow /\ row[r].hit < cutoff[t])
    BY <1>1 DEF StaleRows, Rows
  <2>2. PICK u \in Callers : r = ref[u] /\ pc[u] \in Writing /\ stamp[u] < cutoff[t] /\ pc'[u] \notin Writing
    BY <1>2, <2>1
  <2>3. u \in Late(cutoff[t]) \ Late(cutoff[t])'
    BY <2>2 DEF Late, Writing
  <2> QED
    BY <2>2, <2>3
<1> QED
  BY <1>4, <1>5

LEMMA CutoffHolds == Spec => [](IInv /\ CutoffInv)
<1>1. Init => CutoffInv
  BY Constants DEF Init, Start, CutoffInv
<1>2. IInv /\ CutoffInv /\ [Next]_cacheVars => CutoffInv'
  BY CutoffCalls, CutoffWorker, CutoffRest DEF Next
<1> QED
  BY <1>1, <1>2, InitIInv, NextIInv, PTL DEF Spec

\* However Puts, hits, marks and evictions interleave with it, the stale rows a
\* purge has still to ask for only become fewer, but for those of the calls that
\* read the clock before its cutoff and had their statement waiting ever since, and
\* no call joins these (PurgeStale): with it every round that deletes something
\* brings the purge nearer to its end.
THEOREM PurgesShrink == Spec => PurgeShrinks
<1>1. IInv /\ CutoffInv /\ [Next]_cacheVars =>
        [\A t \in Callers : Purging(t) /\ Purging(t)' =>
           /\ StaleRows(cutoff[t])' \ StaleRows(cutoff[t]) \subseteq {ref[u] : u \in Late(cutoff[t]) \ Late(cutoff[t])'}
           /\ Late(cutoff[t])' \subseteq Late(cutoff[t])]_cacheVars
  BY PurgeStep
<1> QED
  BY <1>1, CutoffHolds, PTL DEF Spec, PurgeShrinks
-----------------------------------------------------------------------------
(* No eviction is lost *)

\* Where the worker can be.
WorkerPCs == {"idle", "sweep_size", "sweep_pick", "sweep_next", "inv_row", "inv_remove", "inv_delete", "sweep_done"}

\* Without the failures that make the worker give up: the cache is open, a sweep
\* evicts on behalf of the worker and a batch it has worked off made progress.
WorkerInv ==
  /\ phase = "open"
  /\ IsFiniteSet(StoredBytes)
  /\ pc[Evictor] \in WorkerPCs
  /\ pc[Evictor] \notin {"idle", "sweep_done"} => job[Evictor] = "evict"
  /\ pc[Evictor] = "sweep_next" => todo[Evictor] # <<>> \/ prog[Evictor]

EvictInv == ~Disturbed => WorkerInv /\ NoLostEviction

\* Bytes come with an insert only.
LEMMA BytesKept == ASSUME RowsKept PROVE StoredBytes' \subseteq StoredBytes
<1> SUFFICES ASSUME NEW x \in StoredBytes' PROVE x \in StoredBytes
  OBVIOUS
<1>1. PICK r \in Rows' : x \in {r} \X (1 .. Size(row'[r].src))
  BY DEF StoredBytes
<1>2. r \in Rows /\ row'[r].src = row[r].src
  BY <1>1 DEF Rows, RowsKept, RowKept
<1> QED
  BY <1>1, <1>2 DEF StoredBytes

LEMMA BytesInserted ==
  ASSUME IInv, NEW t \in Callers, Inserts(t), IsFiniteSet(StoredBytes)
  PROVE  IsFiniteSet(StoredBytes)'
<1>0. row \in [Refs -> Row \cup {NoRow}] /\ ref[t] \in Refs /\ arg[t].src \in Contents
  BY Constants DEF IInv, TypeOK, Arg
<1> DEFINE new == {ref[t]} \X (1 .. Size(arg[t].src))
<1>1. StoredBytes' \subseteq StoredBytes \cup new
  <2> SUFFICES ASSUME NEW x \in StoredBytes' PROVE x \in StoredBytes \cup new
    OBVIOUS
  <2>1. PICK r \in Rows' : x \in {r} \X (1 .. Size(row'[r].src))
    BY DEF StoredBytes
  <2>2. CASE r = ref[t]
    BY <1>0, <2>1, <2>2 DEF Inserts
  <2>3. CASE r # ref[t]
    BY <1>0, <2>1, <2>3 DEF Inserts, Rows, StoredBytes
  <2> QED
    BY <2>2, <2>3
<1>2. IsFiniteSet(new)
  <2>1. Size(arg[t].src) \in Nat
    BY <1>0, CacheAssumption
  <2>2. IsFiniteSet(1 .. Size(arg[t].src))
    BY <2>1, FS_Interval
  <2>3. IsFiniteSet({ref[t]})
    BY FS_Singleton
  <2> QED
    BY <2>2, <2>3, FS_Product
<1>3. IsFiniteSet(StoredBytes \cup new)
  BY <1>2, FS_Union
<1> QED
  BY <1>1, <1>3, FS_Subset

LEMMA TotalKept ==
  ASSUME RowsKept, IsFiniteSet(StoredBytes)
  PROVE  IsFiniteSet(StoredBytes)' /\ TotalSizeBytes' <= TotalSizeBytes /\ TotalSizeBytes \in Nat /\ TotalSizeBytes' \in Nat
<1>1. IsFiniteSet(StoredBytes)' /\ TotalSizeBytes' <= TotalSizeBytes
  BY BytesKept, FS_Subset DEF TotalSizeBytes
<1>2. TotalSizeBytes \in Nat /\ TotalSizeBytes' \in Nat
  BY <1>1, FS_CardinalityType DEF TotalSizeBytes
<1> QED
  BY <1>1, <1>2

LEMMA BatchFilled ==
  ASSUME NEW S \in SUBSET Refs, S # {}, NEW n \in Nat \ {0}, NEW s \in OldestFirst(S, n)
  PROVE  s # <<>>
<1> SUFFICES ASSUME s = <<>> PROVE FALSE
  OBVIOUS
<1>1. Len(s) < n /\ DOMAIN s = {}
  OBVIOUS
<1>2. S \ {s[i] : i \in DOMAIN s} = {}
  BY <1>1 DEF OldestFirst
<1> QED
  BY <1>1, <1>2

\* A caller's step leaves the signal or sets it, and sets it when it sends.
LEMMA SignalSteps ==
  ASSUME IInv, NEW t \in Callers, Begin(t) \/ CallStep(t) \/ Return(t), phase = "open"
  PROVE  /\ phase' = phase
         /\ signal => signal'
         /\ pc[t] = "put_signal" => signal'
<1> USE DEF IInv, TypeOK, sweepVars
<1>1. CASE PutSignal(t)
  BY <1>1 DEF PutSignal
<1>2. CASE Begin(t) \/ Return(t)
  BY <1>2 DEF Begin, BeginGet, BeginInvalidate, BeginPut, BeginPurge, Return, Results
<1>3. CASE GetRow(t) \/ GetStat(t) \/ GetHeal(t) \/ ReadClock(t) \/ GetTouch(t) \/ PutCreate(t) \/ PutWrite(t) \/ PutSync(t)
  BY <1>3 DEF GetRow, GetStat, GetHeal, ReadClock, GetTouch, PutCreate, PutWrite, PutSync
<1>4. CASE PutRename(t) \/ PutInsert(t) \/ PutUndo(t) \/ InvRow(t) \/ InvRemove(t) \/ InvDelete(t)
  BY <1>4 DEF PutRename, PutInsert, PutUndo, InvRow, InvRemove, InvDelete
<1>5. CASE SweepNext(t) \/ PurgePick(t) \/ PurgeRound(t)
  BY <1>5 DEF SweepNext, PurgePick, PurgeRound
<1> QED
  BY <1>1, <1>2, <1>3, <1>4, <1>5 DEF CallStep

LEMMA EvictCalls ==
  ASSUME IInv, EvictInv, ~Disturbed, NEW t \in Callers, Begin(t) \/ CallStep(t) \/ Return(t)
  PROVE  WorkerInv' /\ NoLostEviction'
<1>0. WorkerInv /\ NoLostEviction /\ t \in Threads /\ Evictor \in Threads \ {t} /\ pc \in [Threads -> PCs]
  BY Constants, CacheAssumption DEF EvictInv, IInv, TypeOK
<1>1. Apart(t) /\ phase' = phase /\ (signal => signal') /\ (pc[t] = "put_signal" => signal')
  BY <1>0, StepsApart, SignalSteps DEF WorkerInv
<1>2. UNCHANGED <<pc[Evictor], job[Evictor], todo[Evictor], prog[Evictor]>>
  BY <1>0, <1>1 DEF Apart
<1>3. IsFiniteSet(StoredBytes)'
  BY <1>0, CallerRows, TotalKept, BytesInserted DEF WorkerInv
<1>4. WorkerInv'
  BY <1>0, <1>1, <1>2, <1>3 DEF WorkerInv
<1>5. CASE Inserts(t)
  BY <1>0, <1>4, <1>5 DEF Inserts, NoLostEviction
<1>6. CASE RowsKept
  <2>1. TotalSizeBytes' <= TotalSizeBytes /\ TotalSizeBytes \in Nat /\ TotalSizeBytes' \in Nat /\ MaxBytes \in Nat
    BY <1>0, <1>6, TotalKept, CacheAssumption DEF WorkerInv
  <2>2. (\E u \in Callers : pc[u] = "put_signal") => signal' \/ \E u \in Callers : pc'[u] = "put_signal"
    BY <1>1, Constants DEF Apart
  <2> QED
    BY <1>0, <1>1, <1>2, <1>4, <2>1, <2>2 DEF NoLostEviction
<1> QED
  BY <1>0, <1>5, <1>6, CallerRows

\* The worker stops only when it has measured a cache within its limit.
LEMMA EvictWorker ==
  ASSUME IInv, EvictInv, ~Disturbed, WorkerStep
  PROVE  WorkerInv' /\ NoLostEviction'
<1>0. /\ WorkerInv /\ NoLostEviction /\ phase = "open" /\ Evictor \in Threads
      /\ pc \in [Threads -> PCs] /\ job \in [Threads -> {"call", "evict", "purge"}]
      /\ todo \in [Threads -> Seq(Refs)] /\ prog \in [Threads -> BOOLEAN]
  BY Constants DEF EvictInv, WorkerInv, IInv, TypeOK
<1>1. RowsKept /\ Apart(Evictor) /\ phase' = phase
  BY WorkerRows, WorkerApart DEF WorkerStep, EvictWake, EvictSize, EvictPick, EvictRound, EvictDone, InvRow,
     InvRemove, InvDelete, SweepNext
<1>2. /\ IsFiniteSet(StoredBytes)' /\ TotalSizeBytes' <= TotalSizeBytes
      /\ TotalSizeBytes \in Nat /\ TotalSizeBytes' \in Nat /\ MaxBytes \in Nat
  BY <1>0, <1>1, TotalKept, CacheAssumption DEF WorkerInv
<1>3. "read" \notin Faults /\ "write" \notin Faults
  BY DEF Disturbed
<1>4. ASSUME pc'[Evictor] \in WorkerPCs \ {"idle", "sweep_done"}, job'[Evictor] = "evict",
             pc'[Evictor] = "sweep_next" => todo'[Evictor] # <<>> \/ prog'[Evictor]
      PROVE  WorkerInv' /\ NoLostEviction'
  BY <1>0, <1>1, <1>2, <1>4 DEF WorkerInv, NoLostEviction
<1>5. ASSUME pc'[Evictor] = "sweep_done", TotalSizeBytes' <= MaxBytes
      PROVE  WorkerInv' /\ NoLostEviction'
  BY <1>0, <1>1, <1>2, <1>5 DEF WorkerInv, WorkerPCs, NoLostEviction
<1>6. CASE EvictWake
  <2>1. CASE MaxBytes = 0
    BY <1>0, <1>1, <1>2, <1>6, <2>1 DEF EvictWake, WorkerInv, NoLostEviction
  <2>2. CASE MaxBytes # 0
    BY <1>0, <1>4, <1>6, <2>2 DEF EvictWake, Goto, WorkerPCs
  <2> QED
    BY <2>1, <2>2
<1>7. CASE EvictSize
  <2>1. CASE pc'[Evictor] = "sweep_done"
    <3>1. TotalSizeBytes <= MaxBytes
      BY <1>0, <1>3, <1>7, <2>1 DEF EvictSize, Goto
    <3> QED
      BY <1>2, <1>5, <2>1, <3>1
  <2>2. CASE pc'[Evictor] # "sweep_done"
    BY <1>0, <1>4, <1>7, <2>2 DEF EvictSize, Goto, End, WorkerPCs, WorkerInv
  <2> QED
    BY <2>1, <2>2
<1>8. CASE EvictPick
  <2>1. CASE Rows = {}
    <3>1. StoredBytes = {}
      BY <2>1 DEF StoredBytes
    <3>2. TotalSizeBytes = 0
      BY <3>1, FS_EmptySet DEF TotalSizeBytes
    <3>3. pc'[Evictor] = "sweep_done"
      BY <1>0, <1>8, <2>1 DEF EvictPick, End, Goto
    <3> QED
      BY <1>2, <1>5, <3>2, <3>3
  <2>2. CASE Rows # {}
    <3>1. PICK s \in OldestFirst(Rows, EvictBatch) : todo' = [todo EXCEPT ![Evictor] = s]
      BY <1>0, <1>3, <1>8, <2>2 DEF EvictPick
    <3>2. s # <<>>
      BY <2>2, BatchFilled, CacheAssumption DEF Rows
    <3>3. pc'[Evictor] = "sweep_next" /\ job'[Evictor] = "evict"
      BY <1>0, <1>3, <1>8, <2>2 DEF EvictPick, Goto, WorkerInv
    <3>4. "sweep_next" \in WorkerPCs \ {"idle", "sweep_done"}
      BY DEF WorkerPCs
    <3> QED
      BY <1>0, <1>4, <3>1, <3>2, <3>3, <3>4
  <2> QED
    BY <2>1, <2>2
<1>9. CASE EvictRound
  <2>1. prog[Evictor]
    BY <1>0, <1>9 DEF EvictRound, WorkerInv
  <2> QED
    BY <1>0, <1>4, <1>9, <2>1 DEF EvictRound, Goto, WorkerPCs, WorkerInv
<1>10. CASE EvictDone
  <2>1. pc'[Evictor] = "idle" /\ signal' = signal /\ pc[Evictor] = "sweep_done"
    BY <1>0, <1>10 DEF EvictDone, Goto, sweepVars
  <2>2. \A u \in Callers : pc'[u] = pc[u]
    BY <1>1, Constants, CacheAssumption DEF Apart
  <2>3. WorkerInv'
    BY <1>0, <1>1, <1>2, <2>1 DEF WorkerInv, WorkerPCs
  <2> QED
    BY <1>0, <1>2, <2>1, <2>2, <2>3 DEF NoLostEviction
<1>11. CASE SweepNext(Evictor) \/ InvRow(Evictor) \/ InvRemove(Evictor)
  BY <1>0, <1>4, <1>11 DEF SweepNext, InvRow, InvRemove, Goto, sweepVars, WorkerPCs, WorkerInv
<1>12. CASE InvDelete(Evictor)
  <2>1. InvReturn(Evictor, TRUE) /\ job' = job /\ job[Evictor] = "evict"
    BY <1>0, <1>3, <1>12 DEF InvDelete, IndexFails, WorkerInv
  <2>2. pc'[Evictor] = "sweep_next" /\ prog'[Evictor]
    BY <1>0, <2>1 DEF InvReturn, Goto
  <2>3. "sweep_next" \in WorkerPCs \ {"idle", "sweep_done"}
    BY DEF WorkerPCs
  <2> QED
    BY <1>4, <2>1, <2>2, <2>3
<1> QED
  BY <1>6, <1>7, <1>8, <1>9, <1>10, <1>11, <1>12 DEF WorkerStep

LEMMA EvictRest ==
  ASSUME IInv, EvictInv, ~Disturbed, Mark \/ Environment \/ UNCHANGED cacheVars
  PROVE  WorkerInv' /\ NoLostEviction'
<1>0. WorkerInv /\ NoLostEviction
  BY DEF EvictInv
<1>1. RowsKept /\ UNCHANGED <<pc, job, todo, prog, signal, phase>>
  <2>1. CASE Mark
    BY <2>1, MarkRows DEF Mark, callVars, sweepVars
  <2>2. CASE Environment
    <3>1. phase = "open" /\ {"read", "write", "crash", "power", "close"} \cap Faults = {}
      BY <1>0 DEF WorkerInv, Disturbed
    <3>2. Tick
      BY <2>2, <3>1 DEF Environment, Close, CloseIndex, Crash, Exit, Checkpoint, SyncDir, PowerLoss
    <3> QED
      BY <3>2, SameRows DEF Tick, callVars, sweepVars
  <2>3. CASE UNCHANGED cacheVars
    BY <2>3, SameRows DEF cacheVars, storeVars, callVars, sweepVars
  <2> QED
    BY <2>1, <2>2, <2>3
<1>2. /\ IsFiniteSet(StoredBytes)' /\ TotalSizeBytes' <= TotalSizeBytes
      /\ TotalSizeBytes \in Nat /\ TotalSizeBytes' \in Nat /\ MaxBytes \in Nat
  BY <1>0, <1>1, TotalKept, CacheAssumption DEF WorkerInv
<1> QED
  BY <1>0, <1>1, <1>2 DEF WorkerInv, NoLostEviction

\* The one-slot channel is enough: a cache over its limit has a signal on the
\* way or in the channel, or a worker that will measure it again before it rests.
THEOREM EvictionsKept == Spec => []NoLostEviction
<1>1. Init => WorkerInv /\ NoLostEviction
  <2> SUFFICES ASSUME Init PROVE WorkerInv /\ NoLostEviction
    OBVIOUS
  <2>1. StoredBytes = {}
    BY DEF Init, Start, StoredBytes, Rows
  <2>2. IsFiniteSet(StoredBytes) /\ TotalSizeBytes = 0
    BY <2>1, FS_EmptySet DEF TotalSizeBytes
  <2> QED
    BY <2>2, Constants, CacheAssumption DEF Init, Start, WorkerInv, WorkerPCs, NoLostEviction
<1>2. IInv /\ EvictInv /\ [Next]_cacheVars => EvictInv'
  <2>1. Disturbed' = Disturbed
    BY DEF Disturbed
  <2> QED
    BY <2>1, EvictCalls, EvictWorker, EvictRest DEF Next, EvictInv
<1>3. EvictInv => NoLostEviction
  BY DEF EvictInv, NoLostEviction
<1> QED
  BY <1>1, <1>2, <1>3, InitIInv, NextIInv, PTL DEF Spec, EvictInv
-----------------------------------------------------------------------------
(* The index and the directory are lossy stores *)

\* A goroutine holds a row only while Get runs or answers, and a Put's temp file
\* is a copy of the Put's own artifact.
StoreInv ==
  \A t \in Threads :
    /\ ent[t] # NoRow => pc[t] \in {"get_stat", "get_heal", "get_clock", "get_touch", "hit", "miss"}
    /\ pc[t] \in PutPCs => tmp[t].src = arg[t].src

LEMMA StoreCalls ==
  ASSUME IInv, StoreInv, NEW t \in Threads, Begin(t) \/ CallStep(t) \/ Return(t)
  PROVE  StoreInv'
<1>0. /\ pc \in [Threads -> PCs] /\ ent \in [Threads -> Row \cup {NoRow}] /\ arg \in [Threads -> Arg]
      /\ tmp \in [Threads -> File \cup {NoFile}]
  BY DEF IInv, TypeOK
<1>1. Apart(t)
  BY StepsApart
<1>2. /\ ent'[t] # NoRow => pc'[t] \in {"get_stat", "get_heal", "get_clock", "get_touch", "hit", "miss"}
      /\ pc'[t] \in PutPCs => tmp'[t].src = arg'[t].src
  <2> USE <1>0 DEF StoreInv, Goto, PutPCs
  <2>1. CASE Begin(t)
    BY <2>1 DEF Begin, BeginGet, BeginInvalidate, BeginPut, BeginPurge
  <2>2. CASE Return(t)
    BY <2>2 DEF Return, End
  <2>3. CASE GetRow(t) \/ GetStat(t) \/ GetHeal(t) \/ ReadClock(t) \/ GetTouch(t)
    BY <2>3 DEF GetRow, GetStat, GetHeal, ReadClock, GetTouch
  <2>4. CASE PutCreate(t) \/ PutRename(t)
    BY <2>4 DEF PutCreate, PutRename, PutAbort
  <2>5. CASE PutWrite(t) \/ PutSync(t)
    <3>1. tmp[t] \in File /\ tmp[t].src = arg[t].src
      BY <2>5 DEF IInv, TempInv, PutWrite, PutSync
    <3>2. [tmp[t] EXCEPT !.bytes = "written"].src = tmp[t].src /\ [tmp[t] EXCEPT !.bytes = "synced"].src = tmp[t].src
      BY <3>1 DEF File
    <3>3. arg' = arg /\ ent' = ent /\ (tmp'[t].src = tmp[t].src \/ pc'[t] \notin PutPCs)
      BY <2>5, <3>2 DEF PutWrite, PutSync, PutAbort
    <3> QED
      BY <2>5, <3>1, <3>3 DEF PutWrite, PutSync
  <2>6. CASE PutInsert(t) \/ PutUndo(t) \/ PutSignal(t)
    BY <2>6 DEF PutInsert, PutUndo, PutSignal
  <2>7. CASE InvRow(t) \/ InvRemove(t) \/ InvDelete(t)
    BY <2>7 DEF InvRow, InvRemove, InvDelete, InvReturn
  <2>8. CASE SweepNext(t) \/ PurgePick(t) \/ PurgeRound(t)
    BY <2>8 DEF SweepNext, PurgePick, PurgeRound
  <2> QED
    BY <2>1, <2>2, <2>3, <2>4, <2>5, <2>6, <2>7, <2>8 DEF CallStep
<1> QED
  BY <1>1, <1>2 DEF StoreInv, Apart

LEMMA StoreWorker == ASSUME IInv, StoreInv, WorkerStep PROVE StoreInv'
<1>0. /\ pc \in [Threads -> PCs] /\ ent \in [Threads -> Row \cup {NoRow}] /\ Evictor \in Threads
  BY Constants DEF IInv, TypeOK
<1>1. CASE InvRow(Evictor) \/ InvRemove(Evictor) \/ InvDelete(Evictor) \/ SweepNext(Evictor)
  BY <1>0, <1>1, StoreCalls DEF CallStep
<1>2. CASE EvictWake \/ EvictSize \/ EvictPick \/ EvictRound \/ EvictDone
  <2>1. /\ ent'[Evictor] # NoRow => pc'[Evictor] \in {"get_stat", "get_heal", "get_clock", "get_touch", "hit", "miss"}
        /\ pc'[Evictor] \notin PutPCs
    BY <1>0, <1>2 DEF StoreInv, PutPCs, Goto, End, EvictWake, EvictSize, EvictPick, EvictRound, EvictDone
  <2> QED
    BY <2>1, WorkerApart DEF StoreInv, Apart
<1> QED
  BY <1>1, <1>2 DEF WorkerStep

LEMMA StoreHolds == Spec => [](IInv /\ StoreInv)
<1>1. Init => StoreInv
  BY DEF Init, Start, StoreInv, PutPCs
<1>2. IInv /\ StoreInv /\ [Next]_cacheVars => StoreInv'
  <2> SUFFICES ASSUME IInv, StoreInv, [Next]_cacheVars PROVE StoreInv'
    OBVIOUS
  <2>1. CASE Crash \/ Exit \/ PowerLoss
    BY <2>1 DEF Crash, Exit, PowerLoss, Reboot, StoreInv, PutPCs
  <2>2. CASE Mark \/ (Environment /\ ~(Crash \/ Exit \/ PowerLoss)) \/ UNCHANGED cacheVars
    <3>1. UNCHANGED <<tmp, pc, arg, ent>>
      BY <2>2 DEF Mark, Environment, Tick, Close, CloseIndex, Checkpoint, SyncDir, cacheVars, callVars
    <3> QED
      BY <3>1 DEF StoreInv
  <2> QED
    BY <2>1, <2>2, Constants, StoreCalls, StoreWorker DEF Next
<1> QED
  BY <1>1, <1>2, InitIInv, NextIInv, PTL DEF Spec

\* What the step of one goroutine can change of the offers and the answers.
LEMMA Framed ==
  ASSUME NEW t \in Threads, Apart(t)
  PROVE  /\ Listing' = [Listing EXCEPT ![t] = Listing'[t]]
         /\ Shown' = [Shown EXCEPT ![t] = Shown'[t]]
         /\ Copying' = [Copying EXCEPT ![t] = Copying'[t]]
<1>1. \A u \in Threads \ {t} : Listing'[u] = Listing[u]
  BY DEF Listing, Offering, Apart
<1>2. \A u \in Threads \ {t} : Shown'[u] = Shown[u]
  BY DEF Shown, Apart
<1>3. \A u \in Threads \ {t} : Copying'[u] = Copying[u]
  BY DEF Copying, Offering, Apart
<1>4. Listing' = [Listing EXCEPT ![t] = Listing'[t]]
  BY <1>1 DEF Listing
<1>5. Shown' = [Shown EXCEPT ![t] = Shown'[t]]
  BY <1>2 DEF Shown
<1>6. Copying' = [Copying EXCEPT ![t] = Copying'[t]]
  BY <1>3 DEF Copying
<1> QED
  BY <1>4, <1>5, <1>6

\* Rows and what they tell: a new row, a lost one, and one with a new timestamp.
LEMMA ListedSteps ==
  ASSUME IInv, NEW r \in Refs
  PROVE  /\ row' = row => Listed' = Listed
         /\ durable' = durable => ListedSafe' = ListedSafe
         /\ row' = [row EXCEPT ![r] = NoRow] => Listed' = [Listed EXCEPT ![r] = {}]
<1>0. row \in [Refs -> Row \cup {NoRow}]
  BY DEF IInv, TypeOK
<1>1. row' = row => Listed' = Listed
  BY DEF Listed
<1>2. durable' = durable => ListedSafe' = ListedSafe
  BY DEF ListedSafe
<1>3. row' = [row EXCEPT ![r] = NoRow] => Listed' = [Listed EXCEPT ![r] = {}]
  BY <1>0 DEF Listed, Told
<1> QED
  BY <1>1, <1>2, <1>3

\* A timestamp is not part of what a row tells.
LEMMA StampsUntold ==
  ASSUME IInv, NEW r \in Refs, NEW ts \in Time, row[r] # NoRow,
         \/ row' = [row EXCEPT ![r].hit = ts]
         \/ row' = [row EXCEPT ![r].cve = ts]
         \/ row' = [row EXCEPT ![r].mal = ts]
  PROVE  Listed' = Listed
<1>1. row \in [Refs -> Row \cup {NoRow}]
  BY DEF IInv, TypeOK
<1>2. PICK e : e = row[r] /\ e \in Row /\ row'[r] \in {[e EXCEPT !.hit = ts], [e EXCEPT !.cve = ts], [e EXCEPT !.mal = ts]}
  BY <1>1
<1>3. \A f \in {[e EXCEPT !.hit = ts], [e EXCEPT !.cve = ts], [e EXCEPT !.mal = ts]} :
        f \in Row /\ f.src = e.src /\ f.clean = e.clean
  BY <1>2 DEF Row
<1>4. Told(row'[r]) = Told(row[r])
  BY <1>2, <1>3, Constants DEF Told
<1>5. \A x \in Refs : x # r => row'[x] = row[x]
  BY <1>1
<1> QED
  BY <1>4, <1>5 DEF Listed

\* A step that is none of the index's.
IndexSame(t) == Listed' = Listed /\ ListedSafe' = ListedSafe /\ Listing'[t] = Listing[t] /\ Shown'[t] = Shown[t]

LEMMA IndexGet ==
  ASSUME IInv, StoreInv, NEW t \in Threads, Apart(t),
         GetRow(t) \/ GetStat(t) \/ GetHeal(t) \/ GetTouch(t)
  PROVE  IndexSame(t) \/ Index!Look(t) \/ Index!Lose(ref[t])
<1>0. /\ pc \in [Threads -> PCs] /\ ent \in [Threads -> Row \cup {NoRow}] /\ ref[t] \in Refs /\ stamp[t] \in Time
  BY DEF IInv, TypeOK
<1>1. ref' = ref /\ arg' = arg /\ durable' = durable /\ pc[t] \notin BeforeInsert /\ pc'[t] \notin BeforeInsert
  BY <1>0 DEF GetRow, GetStat, GetHeal, GetTouch, Goto, BeforeInsert, BeforeRename, PutPCs
<1>2. Listing'[t] = Listing[t] /\ ListedSafe' = ListedSafe
  BY <1>0, <1>1, ListedSteps DEF Listing, Offering
<1>3. CASE GetRow(t)
  <2>1. Listed' = Listed
    BY <1>0, <1>3, ListedSteps DEF GetRow, storeVars
  <2>2. CASE ent' = ent
    BY <1>1, <1>2, <2>1, <2>2 DEF IndexSame, Shown
  <2>3. CASE ent' = [ent EXCEPT ![t] = row[ref[t]]]
    <3>1. Shown'[t] = {<<ref[t], v>> : v \in Listed[ref[t]]}
      BY <1>0, <1>1, <2>3 DEF Shown, Listed
    <3>2. Listing' = Listing
      BY <1>2, Framed DEF Listing
    <3>3. Shown' = [Shown EXCEPT ![t] = {<<ref[t], v>> : v \in Listed[ref[t]]}]
      BY <3>1, Framed
    <3> QED
      BY <1>0, <1>2, <2>1, <3>2, <3>3 DEF Index!Look
  <2> QED
    BY <1>3, <2>2, <2>3 DEF GetRow
<1>4. CASE ~GetRow(t)
  <2>1. ent' = ent
    BY <1>4 DEF GetStat, GetHeal, GetTouch
  <2>2. Shown' = Shown /\ Listing' = Listing
    <3>1. Shown'[t] = Shown[t]
      BY <1>1, <2>1 DEF Shown
    <3> QED
      BY <1>2, <3>1, Framed DEF Shown, Listing
  <2>3. CASE Listed' = Listed
    BY <1>2, <2>2, <2>3 DEF IndexSame
  <2>4. CASE row' = [row EXCEPT ![ref[t]] = NoRow]
    BY <1>0, <1>2, <2>2, <2>4, ListedSteps DEF Index!Lose
  <2>5. Listed' = Listed \/ row' = [row EXCEPT ![ref[t]] = NoRow]
    <3>1. CASE GetTouch(t)
      BY <1>0, <3>1, ListedSteps, StampsUntold DEF GetTouch
    <3>2. CASE ~GetTouch(t)
      BY <1>0, <1>4, <3>2, ListedSteps DEF GetStat, GetHeal, storeVars
    <3> QED
      BY <3>1, <3>2
  <2> QED
    BY <2>3, <2>4, <2>5
<1> QED
  BY <1>3, <1>4

LEMMA IndexClock == ASSUME IInv, NEW t \in Threads, ReadClock(t) PROVE IndexSame(t)
<1>1. /\ row' = row /\ durable' = durable /\ ref' = ref /\ arg' = arg /\ ent' = ent
      /\ pc'[t] \in BeforeInsert <=> pc[t] \in BeforeInsert
  BY DEF IInv, TypeOK, ReadClock, Goto, storeVars, BeforeInsert, BeforeRename, PutPCs
<1> QED
  BY <1>1 DEF IndexSame, Listed, ListedSafe, Listing, Offering, Shown

\* A Put offers from its call to its insert, which places what it offered.
LEMMA IndexPut ==
  ASSUME IInv, StoreInv, NEW t \in Threads, Apart(t),
         \/ \E r \in Refs, a \in Arg : BeginPut(t, r, a)
         \/ PutCreate(t) \/ PutWrite(t) \/ PutSync(t) \/ PutRename(t) \/ PutInsert(t) \/ PutUndo(t) \/ PutSignal(t)
  PROVE  IndexSame(t) \/ Index!Offer(t) \/ Index!Place(t) \/ Index!Withdraw(t)
<1>0. /\ pc \in [Threads -> PCs] /\ ent \in [Threads -> Row \cup {NoRow}] /\ ref \in [Threads -> Refs]
      /\ arg \in [Threads -> Arg] /\ stamp[t] \in Time /\ row \in [Refs -> Row \cup {NoRow}]
  BY DEF IInv, TypeOK
<1>1. durable' = durable /\ ent' = ent
  BY DEF BeginPut, PutCreate, PutWrite, PutSync, PutRename, PutInsert, PutUndo, PutSignal
<1>2. ent[t] = NoRow
  BY DEF StoreInv, BeginPut, PutCreate, PutWrite, PutSync, PutRename, PutInsert, PutUndo, PutSignal
<1>3. Shown' = Shown /\ ListedSafe' = ListedSafe
  <2>1. Shown'[t] = Shown[t]
    BY <1>1, <1>2 DEF Shown, Told
  <2> QED
    BY <1>0, <1>1, <2>1, Framed, ListedSteps DEF Shown
<1>4. CASE \E r \in Refs, a \in Arg : BeginPut(t, r, a)
  <2>1. PICK r \in Refs, a \in Arg : BeginPut(t, r, a)
    BY <1>4
  <2>2. Listing[t] = {} /\ Listing'[t] = {<<r, a>>}
    BY <1>0, <2>1 DEF BeginPut, Goto, Listing, Offering, BeforeInsert, BeforeRename, PutPCs
  <2>3. Listed' = Listed
    BY <2>1, ListedSteps DEF BeginPut, storeVars
  <2> QED
    BY <1>3, <2>2, <2>3, Framed DEF Index!Offer
<1>5. CASE PutCreate(t) \/ PutWrite(t) \/ PutSync(t) \/ PutRename(t) \/ PutUndo(t) \/ PutSignal(t)
  <2>1. row' = row /\ ref' = ref /\ arg' = arg /\ (pc[t] \notin BeforeInsert => pc'[t] \notin BeforeInsert)
    BY <1>0, <1>5 DEF PutCreate, PutWrite, PutSync, PutRename, PutUndo, PutSignal, PutAbort, Goto, storeVars,
       BeforeInsert, BeforeRename, PutPCs
  <2>2. Listed' = Listed
    BY <1>0, <2>1, ListedSteps
  <2>3. CASE pc'[t] \in BeforeInsert
    BY <1>3, <2>1, <2>2, <2>3 DEF IndexSame, Listing, Offering
  <2>4. CASE pc'[t] \notin BeforeInsert
    <3>1. Listing'[t] = {}
      BY <2>4 DEF Listing, Offering
    <3> QED
      BY <1>3, <2>2, <3>1, Framed DEF Index!Withdraw
  <2> QED
    BY <2>3, <2>4
<1>6. CASE PutInsert(t)
  <2>1. Listing[t] = {<<ref[t], arg[t]>>} /\ Listing'[t] = {}
    BY <1>0, <1>6 DEF PutInsert, Goto, Listing, Offering, BeforeInsert, BeforeRename, PutPCs
  <2>2. Listing' = [Listing EXCEPT ![t] = {}]
    BY <2>1, Framed
  <2>3. CASE row' = row
    BY <1>0, <1>3, <2>2, <2>3, ListedSteps DEF Index!Withdraw
  <2>4. CASE row' # row
    <3> DEFINE new == [src |-> arg[t].src, clean |-> arg[t].clean, hit |-> stamp[t], cve |-> stamp[t], mal |-> stamp[t]]
    <3>1. row' = [row EXCEPT ![ref[t]] = new]
      BY <1>6, <2>4 DEF PutInsert
    <3>2. new \in Row /\ [src |-> new.src, clean |-> new.clean] = arg[t]
      BY <1>0 DEF Row, Arg
    <3>3. Told(new) = {arg[t]}
      BY <3>2, Constants DEF Told
    <3> HIDE DEF new
    <3>4. Listed' = [Listed EXCEPT ![ref[t]] = {arg[t]}]
      BY <1>0, <3>1, <3>3 DEF Listed
    <3>5. ref[t] \in Refs /\ arg[t] \in Arg
      BY <1>0
    <3> QED
      BY <1>3, <2>1, <2>2, <3>4, <3>5 DEF Index!Place
  <2> QED
    BY <2>3, <2>4
<1> QED
  BY <1>4, <1>5, <1>6

\* The other calls offer nothing; an invalidation loses a row.
LEMMA IndexRest ==
  ASSUME IInv, StoreInv, NEW t \in Threads, Apart(t),
         \/ \E r \in Refs : BeginGet(t, r) \/ BeginInvalidate(t, r)
         \/ BeginPurge(t) \/ Return(t) \/ InvRow(t) \/ InvRemove(t) \/ InvDelete(t)
         \/ SweepNext(t) \/ PurgePick(t) \/ PurgeRound(t)
  PROVE  IndexSame(t) \/ Index!Forget(t) \/ Index!Lose(ref[t])
<1>0. /\ pc \in [Threads -> PCs] /\ ent \in [Threads -> Row \cup {NoRow}] /\ ref \in [Threads -> Refs]
      /\ row \in [Refs -> Row \cup {NoRow}]
  BY DEF IInv, TypeOK
<1>1. CASE Return(t)
  <2>1. Listing[t] = {} /\ Listing'[t] = {} /\ Shown'[t] = {}
    BY <1>0, <1>1 DEF Return, End, Goto, Results, Listing, Shown, Offering, Told, BeforeInsert, BeforeRename, PutPCs
  <2>2. Listed' = Listed /\ ListedSafe' = ListedSafe
    BY <1>0, <1>1, ListedSteps DEF Return, storeVars
  <2>3. Listing' = Listing
    BY <2>1, Framed DEF Listing
  <2> QED
    BY <2>1, <2>2, <2>3, Framed DEF Index!Forget
<1>2. CASE InvDelete(t)
  <2>1. pc[t] \notin BeforeInsert /\ pc'[t] \notin BeforeInsert /\ ref' = ref /\ ent' = ent /\ durable' = durable
    BY <1>0, <1>2 DEF InvDelete, InvReturn, Goto, BeforeInsert, BeforeRename, PutPCs
  <2>2. Listing'[t] = Listing[t] /\ Shown'[t] = Shown[t] /\ ListedSafe' = ListedSafe
    BY <1>0, <2>1, ListedSteps DEF Listing, Shown, Offering
  <2>3. Listing' = Listing /\ Shown' = Shown
    BY <2>2, Framed DEF Listing, Shown
  <2> QED
    BY <1>0, <1>2, <2>2, <2>3, ListedSteps DEF InvDelete, IndexSame, Index!Lose
<1>3. CASE ~(Return(t) \/ InvDelete(t))
  <2>1. /\ row' = row /\ durable' = durable /\ ent' = ent /\ ent[t] = NoRow
        /\ pc[t] \notin BeforeInsert /\ pc'[t] \notin BeforeInsert
    <3>1. CASE BeginPurge(t) \/ \E r \in Refs : BeginGet(t, r) \/ BeginInvalidate(t, r)
      BY <1>0, <3>1 DEF BeginGet, BeginInvalidate, BeginPurge, StoreInv, Goto, storeVars, BeforeInsert, BeforeRename, PutPCs
    <3>2. CASE InvRow(t) \/ InvRemove(t)
      BY <1>0, <3>2 DEF InvRow, InvRemove, StoreInv, Goto, storeVars, BeforeInsert, BeforeRename, PutPCs
    <3>3. CASE SweepNext(t) \/ PurgePick(t) \/ PurgeRound(t)
      BY <1>0, <3>3 DEF SweepNext, PurgePick, PurgeRound, StoreInv, Goto, storeVars, BeforeInsert, BeforeRename, PutPCs
    <3> QED
      BY <1>3, <3>1, <3>2, <3>3
  <2>2. Listing'[t] = Listing[t] /\ Shown'[t] = Shown[t]
    BY <2>1 DEF Listing, Shown, Offering, Told
  <2> QED
    BY <1>0, <2>1, <2>2, ListedSteps DEF IndexSame
<1> QED
  BY <1>1, <1>2, <1>3

LEMMA IndexWorker ==
  ASSUME IInv, StoreInv, WorkerStep
  PROVE  IndexSame(Evictor) \/ Index!Forget(Evictor) \/ Index!Lose(ref[Evictor])
<1>0. Evictor \in Threads /\ Apart(Evictor)
  BY Constants, WorkerApart
<1>1. CASE SweepNext(Evictor) \/ InvRow(Evictor) \/ InvRemove(Evictor) \/ InvDelete(Evictor)
  BY <1>0, <1>1, IndexRest
<1>2. CASE EvictWake \/ EvictSize \/ EvictPick \/ EvictRound \/ EvictDone
  <2>0. pc \in [Threads -> PCs] /\ ent \in [Threads -> Row \cup {NoRow}]
    BY DEF IInv, TypeOK
  <2>1. row' = row /\ durable' = durable /\ ent[Evictor] = NoRow /\ ent'[Evictor] = NoRow
    BY <1>0, <1>2, <2>0 DEF EvictWake, EvictSize, EvictPick, EvictRound, EvictDone, End, StoreInv, storeVars
  <2>2. pc[Evictor] \notin BeforeInsert /\ pc'[Evictor] \notin BeforeInsert
    BY <1>0, <1>2, <2>0 DEF EvictWake, EvictSize, EvictPick, EvictRound, EvictDone, End, Goto, BeforeInsert,
       BeforeRename, PutPCs
  <2>3. Listing'[Evictor] = Listing[Evictor] /\ Shown'[Evictor] = Shown[Evictor]
    BY <1>0, <2>1, <2>2 DEF Listing, Shown, Offering, Told
  <2>4. PICK r \in Refs : TRUE
    BY CacheAssumption
  <2> QED
    BY <2>1, <2>3, <2>4, ListedSteps DEF IndexSame
<1> QED
  BY <1>1, <1>2 DEF WorkerStep

LEMMA IndexEnvironment ==
  ASSUME IInv, Mark \/ Environment \/ UNCHANGED cacheVars
  PROVE  Index!Next \/ UNCHANGED Index!storeState
<1>0. PICK r \in Refs : TRUE
  BY CacheAssumption
<1>1. CASE Crash \/ Exit \/ PowerLoss
  <2>1. Listing' = [t \in Threads |-> {}] /\ Shown' = [t \in Threads |-> {}]
    BY <1>1 DEF Crash, Exit, PowerLoss, Reboot, Listing, Shown, Offering, Told, BeforeInsert, BeforeRename, PutPCs
  <2>2. Listed' \in {Listed, ListedSafe} /\ ListedSafe' = ListedSafe
    BY <1>1 DEF Crash, Exit, PowerLoss, Listed, ListedSafe
  <2> QED
    BY <2>1, <2>2 DEF Index!Next, Index!Restart
<1>2. CASE ~(Crash \/ Exit \/ PowerLoss)
  <2>1. UNCHANGED <<pc, ref, arg, ent>>
    BY <1>2 DEF Mark, Environment, Tick, Close, CloseIndex, Checkpoint, SyncDir, cacheVars, callVars
  <2>2. Listing' = Listing /\ Shown' = Shown
    BY <2>1 DEF Listing, Shown, Offering
  <2>3. CASE Checkpoint
    <3>1. Listed' = Listed /\ ListedSafe' = [k \in Refs |-> IF k \in Refs THEN Listed[k] ELSE ListedSafe[k]]
      BY <2>3 DEF Checkpoint, Listed, ListedSafe, storeVars
    <3>2. Index!Keep(Refs)
      BY <2>2, <3>1 DEF Index!Keep
    <3> QED
      BY <3>2 DEF Index!Next
  <2>4. CASE Mark
    <3>1. PICK k \in Refs, ts \in 0 .. now : MarkCVEChecked(k, ts) \/ MarkMalwareChecked(k, ts)
      BY <2>4 DEF Mark
    <3>2. ts \in Time
      BY CacheAssumption DEF IInv, TypeOK, Time
    <3>3. Listed' = Listed
      BY <3>1, <3>2, ListedSteps, StampsUntold DEF MarkCVEChecked, MarkMalwareChecked
    <3>4. ListedSafe' = ListedSafe
      BY <1>0, <2>4, ListedSteps DEF Mark
    <3> QED
      BY <2>2, <3>3, <3>4 DEF Index!storeState
  <2>5. CASE ~(Checkpoint \/ Mark)
    <3>1. row' = row /\ durable' = durable
      BY <1>2, <2>5 DEF Environment, Tick, Close, CloseIndex, SyncDir, cacheVars, storeVars
    <3> QED
      BY <1>0, <2>2, <3>1, ListedSteps DEF Index!storeState
  <2> QED
    BY <2>3, <2>4, <2>5
<1> QED
  BY <1>1, <1>2

LEMMA IndexStep == IInv /\ StoreInv /\ [Next]_cacheVars => [Index!Next]_Index!storeState
<1> SUFFICES ASSUME IInv, StoreInv, [Next]_cacheVars
             PROVE  Index!Next \/ UNCHANGED Index!storeState
  OBVIOUS
<1>1. ASSUME NEW t \in Threads, Apart(t), IndexSame(t) PROVE UNCHANGED Index!storeState
  <2>1. Listing' = Listing /\ Shown' = Shown
    BY <1>1, Framed DEF IndexSame, Listing, Shown
  <2> QED
    BY <1>1, <2>1 DEF IndexSame, Index!storeState
<1>2. ASSUME NEW t \in Threads, Apart(t), Begin(t) \/ CallStep(t) \/ Return(t)
      PROVE  Index!Next \/ UNCHANGED Index!storeState
  <2>1. ref[t] \in Refs
    BY DEF IInv, TypeOK
  <2>2. \/ IndexSame(t) \/ Index!Look(t) \/ Index!Lose(ref[t]) \/ Index!Offer(t) \/ Index!Place(t)
        \/ Index!Withdraw(t) \/ Index!Forget(t)
    BY <1>2, IndexGet, IndexClock, IndexPut, IndexRest DEF Begin, CallStep
  <2> QED
    BY <1>1, <1>2, <2>1, <2>2 DEF Index!Next
<1>3. CASE \E t \in Callers : Begin(t) \/ CallStep(t) \/ Return(t)
  BY <1>2, <1>3, Constants, StepsApart
<1>4. CASE WorkerStep
  <2>1. Evictor \in Threads /\ ref[Evictor] \in Refs /\ Apart(Evictor)
    BY <1>4, Constants, WorkerApart DEF IInv, TypeOK
  <2> QED
    BY <1>1, <1>4, <2>1, IndexWorker DEF Index!Next
<1>5. CASE Mark \/ Environment \/ UNCHANGED cacheVars
  BY <1>5, IndexEnvironment
<1> QED
  BY <1>3, <1>4, <1>5 DEF Next

\* The index is a lossy store: whatever interleaves or fails, a row says what a
\* Put was called with under that reference, a Get answers with what the row said
\* while it ran, and a power loss brings back a state the table was in.
THEOREM IndexRefines == Spec => IndexIsStore
<1>1. Init => Index!Init
  <2> SUFFICES ASSUME Init PROVE Index!Init
    OBVIOUS
  <2>1. Listed = [r \in Refs |-> {}] /\ ListedSafe = Listed
    BY DEF Init, Start, Listed, ListedSafe, Told
  <2>2. Listing = [t \in Threads |-> {}] /\ Shown = [t \in Threads |-> {}]
    BY DEF Init, Start, Listing, Shown, Offering, Told, BeforeInsert, BeforeRename, PutPCs
  <2> QED
    BY <2>1, <2>2 DEF Index!Init
<1> QED
  BY <1>1, IndexStep, StoreHolds, PTL DEF Spec, IndexIsStore, Index!Spec

\* The same for the directory: what it holds, and a path that loses its file.
LEMMA StoredSteps ==
  ASSUME IInv, NEW r \in Refs
  PROVE  /\ file' = file => Stored' = Stored
         /\ disk' = disk => StoredSafe' = StoredSafe
         /\ file' = [file EXCEPT ![r] = NoFile] => Stored' = [Stored EXCEPT ![r] = {}]
<1>0. file \in [Refs -> File \cup {NoFile}]
  BY DEF IInv, TypeOK
<1>1. file' = file => Stored' = Stored
  BY DEF Stored
<1>2. disk' = disk => StoredSafe' = StoredSafe
  BY DEF StoredSafe
<1>3. file' = [file EXCEPT ![r] = NoFile] => Stored' = [Stored EXCEPT ![r] = {}]
  BY <1>0 DEF Stored, Whole
<1> QED
  BY <1>1, <1>2, <1>3

DirectorySame(t) == Stored' = Stored /\ StoredSafe' = StoredSafe /\ Copying'[t] = Copying[t]

\* A Put offers from its call to the rename, which places all the bytes of what
\* it offered; its undo loses whatever the path holds.
LEMMA DirectoryPut ==
  ASSUME IInv, StoreInv, NEW t \in Threads, Apart(t),
         \/ \E r \in Refs, a \in Arg : BeginPut(t, r, a)
         \/ PutCreate(t) \/ PutWrite(t) \/ PutSync(t) \/ PutRename(t) \/ PutInsert(t) \/ PutUndo(t) \/ PutSignal(t)
  PROVE  \/ DirectorySame(t) \/ Directory!Offer(t) \/ Directory!Place(t) \/ Directory!Withdraw(t)
         \/ Directory!Lose(ref[t])
<1>0. /\ pc \in [Threads -> PCs] /\ ref \in [Threads -> Refs] /\ arg \in [Threads -> Arg]
      /\ tmp \in [Threads -> File \cup {NoFile}] /\ file \in [Refs -> File \cup {NoFile}]
  BY DEF IInv, TypeOK
<1>1. StoredSafe' = StoredSafe
  <2>1. disk' = disk
    BY DEF BeginPut, PutCreate, PutWrite, PutSync, PutRename, PutInsert, PutUndo, PutSignal
  <2> QED
    BY <1>0, <2>1, StoredSteps
<1>2. CASE \E r \in Refs, a \in Arg : BeginPut(t, r, a)
  <2>1. PICK r \in Refs, a \in Arg : BeginPut(t, r, a)
    BY <1>2
  <2>2. Copying[t] = {} /\ Copying'[t] = {<<r, <<a.src, TRUE>>>>}
    BY <1>0, <2>1 DEF BeginPut, Goto, Copying, Offering, BeforeRename, PutPCs
  <2>3. <<a.src, TRUE>> \in Contents \X {TRUE}
    BY DEF Arg
  <2>4. Stored' = Stored
    BY <2>1, StoredSteps DEF BeginPut, storeVars
  <2>5. PICK v \in Contents \X {TRUE} : Copying'[t] = {<<r, v>>}
    BY <2>2, <2>3
  <2>6. Copying' = [Copying EXCEPT ![t] = {<<r, v>>}]
    BY <2>5, Framed
  <2> QED
    BY <1>1, <2>2, <2>4, <2>6 DEF Directory!Offer
<1>3. CASE PutRename(t) /\ file' = [file EXCEPT ![ref[t]] = tmp[t]]
  <2>1. Copying[t] = {<<ref[t], <<arg[t].src, TRUE>>>>} /\ Copying'[t] = {}
    BY <1>0, <1>3 DEF PutRename, PutAbort, Goto, Copying, Offering, BeforeRename, PutPCs
  <2>2. tmp[t] \in File /\ tmp[t].src = arg[t].src /\ tmp[t].bytes = "synced"
    BY <1>0, <1>3 DEF PutRename, IInv, TempInv, StoreInv, PutPCs
  <2>3. Whole(tmp[t]) = {<<arg[t].src, TRUE>>}
    BY <2>2, Constants DEF Whole
  <2>4. Stored' = [Stored EXCEPT ![ref[t]] = {<<arg[t].src, TRUE>>}]
    BY <1>0, <1>3, <2>3 DEF Stored
  <2>5. ref[t] \in Refs /\ <<arg[t].src, TRUE>> \in Contents \X {TRUE}
    BY <1>0 DEF Arg
  <2>6. Copying' = [Copying EXCEPT ![t] = {}]
    BY <2>1, Framed
  <2> QED
    BY <1>1, <2>1, <2>4, <2>5, <2>6 DEF Directory!Place
<1>4. CASE PutUndo(t)
  <2>1. pc[t] \notin BeforeRename /\ pc'[t] \notin BeforeRename
    BY <1>0, <1>4 DEF PutUndo, Goto, BeforeRename, PutPCs
  <2>2. Copying'[t] = Copying[t]
    BY <2>1 DEF Copying, Offering
  <2>3. Copying' = Copying
    BY <2>2, Framed DEF Copying
  <2> QED
    BY <1>0, <1>1, <1>4, <2>2, <2>3, StoredSteps DEF PutUndo, DirectorySame, Directory!Lose
<1>5. ASSUME file' = file, ref' = ref, arg' = arg, pc[t] \notin BeforeRename => pc'[t] \notin BeforeRename
      PROVE  DirectorySame(t) \/ Directory!Withdraw(t)
  <2>1. Stored' = Stored
    BY <1>0, <1>5, StoredSteps
  <2>2. CASE pc'[t] \in BeforeRename
    BY <1>1, <1>5, <2>1, <2>2 DEF DirectorySame, Copying, Offering
  <2>3. CASE pc'[t] \notin BeforeRename
    <3>1. Copying'[t] = {}
      BY <2>3 DEF Copying, Offering
    <3> QED
      BY <1>1, <2>1, <3>1, Framed DEF Directory!Withdraw
  <2> QED
    BY <2>2, <2>3
<1>6. CASE PutRename(t) /\ file' # [file EXCEPT ![ref[t]] = tmp[t]]
  BY <1>0, <1>5, <1>6 DEF PutRename, PutAbort, Goto, BeforeRename, PutPCs
<1>7. CASE PutCreate(t) \/ PutWrite(t) \/ PutSync(t)
  BY <1>0, <1>5, <1>7 DEF PutCreate, PutWrite, PutSync, PutAbort, storeVars, BeforeRename, PutPCs
<1>8. CASE PutInsert(t) \/ PutSignal(t)
  BY <1>0, <1>5, <1>8 DEF PutInsert, PutSignal, Goto, storeVars, BeforeRename, PutPCs
<1> QED
  BY <1>2, <1>3, <1>4, <1>6, <1>7, <1>8

\* The other calls offer nothing; an invalidation loses a file.
LEMMA DirectoryRest ==
  ASSUME IInv, NEW t \in Threads, Apart(t),
         \/ \E r \in Refs : BeginGet(t, r) \/ BeginInvalidate(t, r)
         \/ BeginPurge(t) \/ Return(t) \/ GetRow(t) \/ GetStat(t) \/ GetHeal(t) \/ ReadClock(t) \/ GetTouch(t)
         \/ InvRow(t) \/ InvRemove(t) \/ InvDelete(t) \/ SweepNext(t) \/ PurgePick(t) \/ PurgeRound(t)
  PROVE  DirectorySame(t) \/ Directory!Lose(ref[t])
<1>0. pc \in [Threads -> PCs] /\ ref[t] \in Refs
  BY DEF IInv, TypeOK
<1>1. /\ pc[t] \notin BeforeRename /\ pc'[t] \notin BeforeRename /\ disk' = disk
      /\ file' = file \/ file' = [file EXCEPT ![ref[t]] = NoFile]
  <2> USE <1>0 DEF Goto, storeVars, BeforeRename, PutPCs
  <2>1. CASE BeginPurge(t) \/ \E r \in Refs : BeginGet(t, r) \/ BeginInvalidate(t, r)
    BY <2>1 DEF BeginGet, BeginInvalidate, BeginPurge
  <2>2. CASE Return(t)
    BY <2>2 DEF Return, End, Results
  <2>3. CASE GetRow(t) \/ GetStat(t) \/ GetHeal(t) \/ ReadClock(t) \/ GetTouch(t)
    BY <2>3 DEF GetRow, GetStat, GetHeal, ReadClock, GetTouch
  <2>4. CASE InvRow(t) \/ InvRemove(t) \/ InvDelete(t)
    BY <2>4 DEF InvRow, InvRemove, InvDelete, InvReturn
  <2>5. CASE SweepNext(t) \/ PurgePick(t) \/ PurgeRound(t)
    BY <2>5 DEF SweepNext, PurgePick, PurgeRound
  <2> QED
    BY <2>1, <2>2, <2>3, <2>4, <2>5
<1>2. Copying'[t] = Copying[t]
  BY <1>1 DEF Copying, Offering
<1>3. Copying' = Copying
  BY <1>2, Framed DEF Copying
<1>4. StoredSafe' = StoredSafe
  BY <1>0, <1>1, StoredSteps
<1>5. CASE file' = file
  BY <1>0, <1>2, <1>4, <1>5, StoredSteps DEF DirectorySame
<1>6. CASE file' = [file EXCEPT ![ref[t]] = NoFile]
  <2>1. Stored' = [Stored EXCEPT ![ref[t]] = {}]
    BY <1>0, <1>6, StoredSteps
  <2> QED
    BY <1>3, <1>4, <2>1 DEF Directory!Lose
<1> QED
  BY <1>1, <1>5, <1>6

LEMMA DirectoryWorker ==
  ASSUME IInv, WorkerStep
  PROVE  DirectorySame(Evictor) \/ Directory!Lose(ref[Evictor])
<1>0. Evictor \in Threads /\ Apart(Evictor) /\ pc \in [Threads -> PCs] /\ ref[Evictor] \in Refs
  BY Constants, WorkerApart DEF IInv, TypeOK
<1>1. CASE SweepNext(Evictor) \/ InvRow(Evictor) \/ InvRemove(Evictor) \/ InvDelete(Evictor)
  BY <1>0, <1>1, DirectoryRest
<1>2. CASE EvictWake \/ EvictSize \/ EvictPick \/ EvictRound \/ EvictDone
  <2>1. /\ file' = file /\ disk' = disk
        /\ pc[Evictor] \notin BeforeRename /\ pc'[Evictor] \notin BeforeRename
    BY <1>0, <1>2 DEF EvictWake, EvictSize, EvictPick, EvictRound, EvictDone, End, Goto, storeVars, BeforeRename, PutPCs
  <2>2. Copying'[Evictor] = Copying[Evictor]
    BY <1>0, <2>1 DEF Copying, Offering
  <2> QED
    BY <1>0, <2>1, <2>2, StoredSteps DEF DirectorySame
<1> QED
  BY <1>1, <1>2 DEF WorkerStep

LEMMA DirectoryEnvironment ==
  ASSUME IInv, Mark \/ Environment \/ UNCHANGED cacheVars
  PROVE  Directory!Next \/ UNCHANGED Directory!storeState
<1>0. /\ file \in [Refs -> File \cup {NoFile}] /\ disk \in [Refs -> File \cup {NoFile}]
      /\ \E r \in Refs : TRUE
  BY CacheAssumption DEF IInv, TypeOK
<1>1. CASE Crash \/ Exit \/ PowerLoss
  <2>1. Copying' = [t \in Threads |-> {}]
    BY <1>1 DEF Crash, Exit, PowerLoss, Reboot, Copying, Offering, BeforeRename, PutPCs
  <2>2. Stored' \in {Stored, StoredSafe} /\ StoredSafe' = StoredSafe
    <3>1. CASE Crash \/ Exit
      BY <3>1 DEF Crash, Exit, Stored, StoredSafe
    <3>2. CASE PowerLoss
      <4>1. \A r \in Refs : Torn(disk[r]) = disk[r]
        BY DEF IInv, SyncedInv, Torn
      <4>2. \A r \in Refs : file'[r] = disk[r] /\ disk'[r] = disk[r]
        BY <3>2, <4>1 DEF PowerLoss
      <4> QED
        BY <4>2 DEF Stored, StoredSafe
    <3> QED
      BY <1>1, <3>1, <3>2
  <2> QED
    BY <2>1, <2>2 DEF Directory!Next, Directory!Restart
<1>2. CASE ~(Crash \/ Exit \/ PowerLoss)
  <2>1. UNCHANGED <<pc, ref, arg, file>>
    BY <1>2 DEF Mark, Environment, Tick, Close, CloseIndex, Checkpoint, SyncDir, cacheVars, storeVars, callVars
  <2>2. Copying' = Copying /\ Stored' = Stored
    BY <2>1 DEF Copying, Offering, Stored
  <2>3. CASE \E r \in Refs : SyncDir(r)
    <3>1. PICK r \in Refs : SyncDir(r)
      BY <2>3
    <3>2. \A k \in Refs : disk'[k] = IF k \in {r} THEN file[k] ELSE disk[k]
      BY <1>0, <3>1 DEF SyncDir
    <3>3. StoredSafe' = [k \in Refs |-> IF k \in {r} THEN Stored[k] ELSE StoredSafe[k]]
      BY <3>2 DEF Stored, StoredSafe
    <3>4. Directory!Keep({r})
      BY <2>2, <3>3 DEF Directory!Keep
    <3> QED
      BY <3>4 DEF Directory!Next
  <2>4. CASE ~\E r \in Refs : SyncDir(r)
    <3>1. disk' = disk
      BY <1>2, <2>4 DEF Mark, Environment, Tick, Close, CloseIndex, Checkpoint, cacheVars
    <3>2. StoredSafe' = StoredSafe
      BY <3>1 DEF StoredSafe
    <3> QED
      BY <2>2, <3>2 DEF Directory!storeState
  <2> QED
    BY <2>3, <2>4
<1> QED
  BY <1>1, <1>2

LEMMA DirectoryStep == IInv /\ StoreInv /\ [Next]_cacheVars => [Directory!Next]_Directory!storeState
<1> SUFFICES ASSUME IInv, StoreInv, [Next]_cacheVars
             PROVE  Directory!Next \/ UNCHANGED Directory!storeState
  OBVIOUS
<1>1. ASSUME NEW t \in Threads, Apart(t), DirectorySame(t) PROVE UNCHANGED Directory!storeState
  <2>1. Copying' = Copying
    BY <1>1, Framed DEF DirectorySame, Copying
  <2> QED
    BY <1>1, <2>1 DEF DirectorySame, Directory!storeState
<1>2. ASSUME NEW t \in Threads, Apart(t), Begin(t) \/ CallStep(t) \/ Return(t)
      PROVE  Directory!Next \/ UNCHANGED Directory!storeState
  <2>1. ref[t] \in Refs
    BY DEF IInv, TypeOK
  <2>2. \/ DirectorySame(t) \/ Directory!Lose(ref[t]) \/ Directory!Offer(t) \/ Directory!Place(t)
        \/ Directory!Withdraw(t)
    BY <1>2, DirectoryPut, DirectoryRest DEF Begin, CallStep
  <2> QED
    BY <1>1, <1>2, <2>1, <2>2 DEF Directory!Next
<1>3. CASE \E t \in Callers : Begin(t) \/ CallStep(t) \/ Return(t)
  BY <1>2, <1>3, Constants, StepsApart
<1>4. CASE WorkerStep
  <2>1. Evictor \in Threads /\ ref[Evictor] \in Refs /\ Apart(Evictor)
    BY <1>4, Constants, WorkerApart DEF IInv, TypeOK
  <2> QED
    BY <1>1, <1>4, <2>1, DirectoryWorker DEF Directory!Next
<1>5. CASE Mark \/ Environment \/ UNCHANGED cacheVars
  BY <1>5, DirectoryEnvironment
<1> QED
  BY <1>3, <1>4, <1>5 DEF Next

\* The directory is a lossy store of whole artifacts: after any failed call, crash
\* or power loss a final path holds all the bytes of what a Put was called with
\* under that reference, or nothing.
THEOREM DirectoryRefines == Spec => DirectoryIsStore
<1>1. Init => Directory!Init
  <2> SUFFICES ASSUME Init PROVE Directory!Init
    OBVIOUS
  <2>1. Stored = [r \in Refs |-> {}] /\ StoredSafe = Stored
    BY DEF Init, Start, Stored, StoredSafe, Whole
  <2>2. Copying = [t \in Threads |-> {}]
    BY DEF Init, Start, Copying, Offering, BeforeRename, PutPCs
  <2> QED
    BY <2>1, <2>2 DEF Directory!Init
<1> QED
  BY <1>1, DirectoryStep, StoreHolds, PTL DEF Spec, DirectoryIsStore, Directory!Spec
=============================================================================
