--------------------------- MODULE ArtifactCache ---------------------------
(***************************************************************************)
(* The local artifact cache: internal/cache/local.go (files on disk) over  *)
(* internal/cache/index.go (one SQLite table behind one connection).       *)
(*                                                                         *)
(* SQLite runs every statement on a single connection, so a statement is   *)
(* one atomic step; a cache operation is several statements and system     *)
(* calls, and the operations of different goroutines interleave between    *)
(* them.  Each step below is one statement or one system call.             *)
(*                                                                         *)
(* A cached artifact's path is a function of its reference, so the file    *)
(* system is a function from references to files.  Whether a file's bytes  *)
(* are all there is part of its value: a copy starts "partial", becomes    *)
(* "written" and, after fsync, "synced".                                   *)
(*                                                                         *)
(* Left out: the hit counter, the eviction counter and the aggregate       *)
(* queries of Stats, which nothing in the cache reads back.                *)
(***************************************************************************)
EXTENDS Integers, Sequences, FiniteSets

CONSTANTS
  Refs,         \* package references (a row and a path each)
  Contents,     \* what an upstream can deliver for a reference
  Size(_),      \* bytes of a content
  Callers,      \* goroutines that call the cache
  Evictor,      \* the eviction worker's goroutine
  MaxBytes,     \* MaxSizeGB in bytes; 0 means unlimited
  EvictBatch,   \* rows one eviction round takes (10 in the code)
  PurgeBatch,   \* rows one purge round takes (100 in the code)
  StaleAfter,   \* idle time after which an entry is stale
  MaxTime,      \* bound on the clock
  Faults,       \* which failures may happen, see FaultKinds
  NoRow, NoFile \* absence of a row, of a file

\* A failing query, a failing statement, a failing file operation, a failing
\* os.Remove, a client that cancels its purge, a process crash, an OS crash,
\* and the shutdown's Close.
FaultKinds == {"read", "write", "fs", "unlink", "cancel", "crash", "power", "close"}

ASSUME CacheAssumption ==
  /\ Refs # {}
  /\ Contents # {}
  /\ \A c \in Contents : Size(c) \in Nat
  /\ Evictor \notin Callers
  /\ MaxBytes \in Nat
  /\ EvictBatch \in Nat \ {0}
  /\ PurgeBatch \in Nat \ {0}
  /\ StaleAfter \in Nat \ {0}
  /\ MaxTime \in Nat
  /\ Faults \subseteq FaultKinds
  /\ NoRow \notin [src : Contents, clean : BOOLEAN, hit : Int, cve : Int, mal : Int]
  /\ NoFile \notin [src : Contents, bytes : {"partial", "written", "synced"}]

VARIABLES
  now,      \* the clock, in the index's unit (unix seconds)
  row,      \* the artifacts table
  file,     \* what each reference's final path holds
  tmp,      \* the ".put-*" file of each goroutine's latest Put, while it exists
  pc,       \* where each goroutine is; "idle" outside the cache
  ref,      \* the reference it works on
  arg,      \* Put's artifact and scan verdict
  ent,      \* the row index.Get returned to it
  stamp,    \* the clock as it read it for its next statement
  job,      \* on whose behalf invalidate runs: "call", "evict" or "purge"
  todo,     \* candidates left in a sweep's batch
  prog,     \* whether the batch made progress
  cutoff,   \* PurgeStale's cutoff
  signal,   \* the one-slot eviction channel holds a signal
  phase,    \* "open", "closing" (worker told to stop), "closed" (index closed)
  durable,  \* the rows an OS crash cannot roll back
  disk      \* the directory entries an OS crash cannot roll back

storeVars == <<now, row, file>>
callVars  == <<tmp, pc, ref, arg, ent, stamp>>
sweepVars == <<job, todo, prog, cutoff, signal>>
cacheVars == <<storeVars, callVars, sweepVars, phase, durable, disk>>

Threads == Callers \cup {Evictor}
Time    == 0 .. MaxTime
Row     == [src : Contents, clean : BOOLEAN, hit : Time, cve : Time, mal : Time]
File    == [src : Contents, bytes : {"partial", "written", "synced"}]
Arg     == [src : Contents, clean : BOOLEAN]

Results == {"hit", "miss", "ok", "err"}
PutPCs  == {"put_write", "put_sync", "put_rename"}
PCs     == Results \cup PutPCs \cup
           {"idle", "panic", "get_row", "get_stat", "get_heal", "get_clock", "get_touch",
            "put_create", "put_clock", "put_insert", "put_undo", "put_signal",
            "inv_row", "inv_remove", "inv_delete",
            "sweep_size", "sweep_pick", "sweep_next", "sweep_done"}

TypeOK ==
  /\ now \in Time
  /\ row \in [Refs -> Row \cup {NoRow}]
  /\ durable \in [Refs -> Row \cup {NoRow}]
  /\ file \in [Refs -> File \cup {NoFile}]
  /\ disk \in [Refs -> File \cup {NoFile}]
  /\ tmp \in [Threads -> File \cup {NoFile}]
  /\ pc \in [Threads -> PCs]
  /\ ref \in [Threads -> Refs]
  /\ arg \in [Threads -> Arg]
  /\ ent \in [Threads -> Row \cup {NoRow}]
  /\ stamp \in [Threads -> Time]
  /\ job \in [Threads -> {"call", "evict", "purge"}]
  /\ todo \in [Threads -> Seq(Refs)]
  /\ prog \in [Threads -> BOOLEAN]
  /\ cutoff \in [Threads -> Int]
  /\ signal \in BOOLEAN
  /\ phase \in {"open", "closing", "closed"}

Goto(t, l) == pc' = [pc EXCEPT ![t] = l]

\* The values of a goroutine's locals between calls.
NoRef == CHOOSE r \in Refs : TRUE
NoArg == [src |-> CHOOSE c \in Contents : TRUE, clean |-> FALSE]

\* A call ends and its locals go with it.
End(t, l) ==
  /\ Goto(t, l)
  /\ ref' = [ref EXCEPT ![t] = NoRef]
  /\ arg' = [arg EXCEPT ![t] = NoArg]
  /\ ent' = [ent EXCEPT ![t] = NoRow]
  /\ stamp' = [stamp EXCEPT ![t] = 0]
  /\ job' = [job EXCEPT ![t] = "call"]
  /\ todo' = [todo EXCEPT ![t] = <<>>]
  /\ prog' = [prog EXCEPT ![t] = FALSE]
  /\ cutoff' = [cutoff EXCEPT ![t] = 0]

\* A statement reaches the database until Close; it may fail when the fault
\* is among those the run allows, and it fails once the index is closed.
IndexWorks    == phase # "closed"
IndexFails(k) == k \in Faults \/ phase = "closed"

Rows == {r \in Refs : row[r] # NoRow}

\* SELECT COALESCE(SUM(size_bytes), 0): how many bytes the rows stand for.
StoredBytes    == UNION {{r} \X (1 .. Size(row[r].src)) : r \in Rows}
TotalSizeBytes == Cardinality(StoredBytes)
-----------------------------------------------------------------------------
(* Get *)

BeginGet(t, r) ==
  /\ pc[t] = "idle"
  /\ Goto(t, "get_row")
  /\ ref' = [ref EXCEPT ![t] = r]
  /\ UNCHANGED <<storeVars, tmp, arg, ent, stamp, sweepVars, phase, durable, disk>>

\* index.Get: an error is a miss.
GetRow(t) ==
  /\ pc[t] = "get_row"
  /\ \/ /\ IndexWorks
        /\ row[ref[t]] # NoRow
        /\ ent' = [ent EXCEPT ![t] = row[ref[t]]]
        /\ Goto(t, "get_stat")
     \/ /\ row[ref[t]] = NoRow \/ IndexFails("read")
        /\ Goto(t, "miss")
        /\ UNCHANGED ent
  /\ UNCHANGED <<storeVars, tmp, ref, arg, stamp, sweepVars, phase, durable, disk>>

\* os.Stat: any error sends the row away.
GetStat(t) ==
  /\ pc[t] = "get_stat"
  /\ \/ file[ref[t]] # NoFile /\ Goto(t, "get_clock")
     \/ (file[ref[t]] = NoFile \/ "fs" \in Faults) /\ Goto(t, "get_heal")
  /\ UNCHANGED <<storeVars, tmp, ref, arg, ent, stamp, sweepVars, phase, durable, disk>>

GetHeal(t) ==
  /\ pc[t] = "get_heal"
  /\ \/ IndexWorks /\ row' = [row EXCEPT ![ref[t]] = NoRow]
     \/ IndexFails("write") /\ UNCHANGED row
  /\ Goto(t, "miss")
  /\ UNCHANGED <<now, file, tmp, ref, arg, ent, stamp, sweepVars, phase, durable, disk>>

\* time.Now, for the statement that then waits for the connection.
ReadClock(t) ==
  /\ \/ pc[t] = "get_clock" /\ Goto(t, "get_touch")
     \/ pc[t] = "put_clock" /\ Goto(t, "put_insert")
  /\ stamp' = [stamp EXCEPT ![t] = now]
  /\ UNCHANGED <<storeVars, tmp, ref, arg, ent, sweepVars, phase, durable, disk>>

\* Mutant of GetTouch: the whole entry is written back, with the new time.
GetTouchWritesBack(t) ==
  /\ pc[t] = "get_touch"
  /\ row' = [row EXCEPT ![ref[t]] = [ent[t] EXCEPT !.hit = stamp[t]]]
  /\ Goto(t, "hit")
  /\ UNCHANGED <<now, file, tmp, ref, arg, ent, stamp, sweepVars, phase, durable, disk>>

\* IncrementHit, with the clock read before; so is the entry returned.
GetTouch(t) ==
  /\ pc[t] = "get_touch"
  /\ \/ /\ IndexWorks
        /\ row' = IF row[ref[t]] = NoRow THEN row
                  ELSE [row EXCEPT ![ref[t]].hit = stamp[t]]
     \/ IndexFails("write") /\ UNCHANGED row
  /\ Goto(t, "hit")
  /\ UNCHANGED <<now, file, tmp, ref, arg, ent, stamp, sweepVars, phase, durable, disk>>
-----------------------------------------------------------------------------
(* Put *)

BeginPut(t, r, a) ==
  /\ pc[t] = "idle"
  /\ Goto(t, "put_create")
  /\ ref' = [ref EXCEPT ![t] = r]
  /\ arg' = [arg EXCEPT ![t] = a]
  /\ UNCHANGED <<storeVars, tmp, ent, stamp, sweepVars, phase, durable, disk>>

\* MkdirAll, Open, CreateTemp.
PutCreate(t) ==
  /\ pc[t] = "put_create"
  /\ \/ /\ tmp' = [tmp EXCEPT ![t] = [src |-> arg[t].src, bytes |-> "partial"]]
        /\ Goto(t, "put_write")
     \/ "fs" \in Faults /\ Goto(t, "err") /\ UNCHANGED tmp
  /\ UNCHANGED <<storeVars, ref, arg, ent, stamp, sweepVars, phase, durable, disk>>

\* What the error paths before the rename share: os.Remove of the temp file,
\* its error ignored.
PutAbort(t) ==
  /\ "fs" \in Faults
  /\ \/ tmp' = [tmp EXCEPT ![t] = NoFile]
     \/ "unlink" \in Faults /\ UNCHANGED tmp
  /\ Goto(t, "err")

\* io.Copy
PutWrite(t) ==
  /\ pc[t] = "put_write"
  /\ \/ tmp' = [tmp EXCEPT ![t].bytes = "written"] /\ Goto(t, "put_sync")
     \/ PutAbort(t)
  /\ UNCHANGED <<storeVars, ref, arg, ent, stamp, sweepVars, phase, durable, disk>>

\* Mutant of PutSync: an error of Sync is ignored.
PutSyncIgnored(t) ==
  /\ pc[t] = "put_sync"
  /\ \E b \in {"written", "synced"} : tmp' = [tmp EXCEPT ![t].bytes = b]
  /\ Goto(t, "put_rename")
  /\ UNCHANGED <<storeVars, ref, arg, ent, stamp, sweepVars, phase, durable, disk>>

\* Sync and Close
PutSync(t) ==
  /\ pc[t] = "put_sync"
  /\ \/ tmp' = [tmp EXCEPT ![t].bytes = "synced"] /\ Goto(t, "put_rename")
     \/ PutAbort(t)
  /\ UNCHANGED <<storeVars, ref, arg, ent, stamp, sweepVars, phase, durable, disk>>

PutRename(t) ==
  /\ pc[t] = "put_rename"
  /\ \/ /\ file' = [file EXCEPT ![ref[t]] = tmp[t]]
        /\ tmp' = [tmp EXCEPT ![t] = NoFile]
        /\ Goto(t, "put_clock")
     \/ PutAbort(t) /\ UNCHANGED file
  /\ UNCHANGED <<now, row, ref, arg, ent, stamp, sweepVars, phase, durable, disk>>

\* index.Insert: an upsert that stamps stored_at into every timestamp.
PutInsert(t) ==
  /\ pc[t] = "put_insert"
  /\ \/ /\ IndexWorks
        /\ row' = [row EXCEPT ![ref[t]] = [src |-> arg[t].src, clean |-> arg[t].clean,
                                           hit |-> stamp[t], cve |-> stamp[t], mal |-> stamp[t]]]
        /\ Goto(t, "put_signal")
     \/ IndexFails("write") /\ Goto(t, "put_undo") /\ UNCHANGED row
  /\ UNCHANGED <<now, file, tmp, ref, arg, ent, stamp, sweepVars, phase, durable, disk>>

\* os.Remove(destPath) after a failed Insert.
PutUndo(t) ==
  /\ pc[t] = "put_undo"
  /\ \/ file' = [file EXCEPT ![ref[t]] = NoFile]
     \/ "unlink" \in Faults /\ UNCHANGED file
  /\ Goto(t, "err")
  /\ UNCHANGED <<now, row, tmp, ref, arg, ent, stamp, sweepVars, phase, durable, disk>>

\* Mutant of PutSignal: an unbuffered channel drops the signal while the worker
\* is busy.
PutSignalUnbuffered(t) ==
  /\ pc[t] = "put_signal"
  /\ signal' = (signal \/ pc[Evictor] = "idle")
  /\ Goto(t, "ok")
  /\ UNCHANGED <<storeVars, tmp, ref, arg, ent, stamp, job, todo, prog, cutoff, phase, durable, disk>>

\* The non-blocking send; Close closes the channel, and a send on a closed
\* channel panics even with a default branch.
PutSignal(t) ==
  /\ pc[t] = "put_signal"
  /\ \/ phase = "open" /\ signal' = TRUE /\ Goto(t, "ok")
     \/ phase # "open" /\ Goto(t, "panic") /\ UNCHANGED signal
  /\ UNCHANGED <<storeVars, tmp, ref, arg, ent, stamp, job, todo, prog, cutoff, phase, durable, disk>>
-----------------------------------------------------------------------------
(* invalidate, for Invalidate, the eviction worker and PurgeStale *)

BeginInvalidate(t, r) ==
  /\ pc[t] = "idle"
  /\ Goto(t, "inv_row")
  /\ ref' = [ref EXCEPT ![t] = r]
  /\ job' = [job EXCEPT ![t] = "call"]
  /\ UNCHANGED <<storeVars, tmp, arg, ent, stamp, todo, prog, cutoff, signal, phase, durable, disk>>

InvRow(t) ==
  /\ pc[t] = "inv_row"
  /\ \/ IndexWorks /\ row[ref[t]] # NoRow /\ Goto(t, "inv_remove")
     \/ (row[ref[t]] = NoRow \/ IndexFails("read")) /\ Goto(t, "inv_delete")
  /\ UNCHANGED <<storeVars, tmp, ref, arg, ent, stamp, sweepVars, phase, durable, disk>>

\* os.Remove, its error ignored.
InvRemove(t) ==
  /\ pc[t] = "inv_remove"
  /\ \/ file' = [file EXCEPT ![ref[t]] = NoFile]
     \/ "unlink" \in Faults /\ UNCHANGED file
  /\ Goto(t, "inv_delete")
  /\ UNCHANGED <<now, row, tmp, ref, arg, ent, stamp, sweepVars, phase, durable, disk>>

\* Where invalidate returns to: its caller, or the sweep's next candidate.
InvReturn(t, ok) ==
  IF job[t] = "call"
  THEN Goto(t, IF ok THEN "ok" ELSE "err") /\ UNCHANGED prog
  ELSE Goto(t, "sweep_next") /\ prog' = [prog EXCEPT ![t] = @ \/ ok]

InvDelete(t) ==
  /\ pc[t] = "inv_delete"
  /\ \/ IndexWorks /\ row' = [row EXCEPT ![ref[t]] = NoRow] /\ InvReturn(t, TRUE)
     \/ IndexFails("write") /\ UNCHANGED row /\ InvReturn(t, FALSE)
  /\ UNCHANGED <<now, file, tmp, ref, arg, ent, stamp, job, todo, cutoff, signal, phase, durable, disk>>
-----------------------------------------------------------------------------
(* Sweeps: evictToSize and PurgeStale *)

\* ORDER BY last_hit ASC LIMIT n over the rows in S, ties in any order.
OldestFirst(S, n) ==
  {s \in UNION {[1 .. k -> S] : k \in 0 .. n} :
     LET left == S \ {s[i] : i \in DOMAIN s} IN
     /\ \A i, j \in DOMAIN s : i < j => s[i] # s[j] /\ row[s[i]].hit <= row[s[j]].hit
     /\ Len(s) < n => left = {}
     /\ \A i \in DOMAIN s, r \in left : row[s[i]].hit <= row[r].hit}

\* The worker takes a signal; evictIfNeeded does nothing without a limit.
EvictWake ==
  /\ pc[Evictor] = "idle"
  /\ signal
  /\ signal' = FALSE
  /\ IF MaxBytes = 0 THEN UNCHANGED pc ELSE Goto(Evictor, "sweep_size")
  /\ job' = [job EXCEPT ![Evictor] = "evict"]
  /\ UNCHANGED <<storeVars, tmp, ref, arg, ent, stamp, todo, prog, cutoff, phase, durable, disk>>

\* TotalSizeBytes, before the first round and after each.  Close cancels the
\* worker's context; an error ends the sweep.
EvictSize ==
  /\ pc[Evictor] = "sweep_size"
  /\ \/ /\ phase = "open"
        /\ TotalSizeBytes > MaxBytes
        /\ Goto(Evictor, "sweep_pick")
        /\ UNCHANGED <<ref, arg, ent, stamp, job, todo, prog, cutoff>>
     \/ /\ TotalSizeBytes <= MaxBytes \/ phase # "open" \/ "read" \in Faults
        /\ End(Evictor, "sweep_done")
  /\ UNCHANGED <<storeVars, tmp, signal, phase, durable, disk>>

EvictPick ==
  /\ pc[Evictor] = "sweep_pick"
  /\ \/ /\ phase = "open"
        /\ Rows # {}
        /\ \E s \in OldestFirst(Rows, EvictBatch) : todo' = [todo EXCEPT ![Evictor] = s]
        /\ prog' = [prog EXCEPT ![Evictor] = FALSE]
        /\ Goto(Evictor, "sweep_next")
        /\ UNCHANGED <<ref, arg, ent, stamp, job, cutoff>>
     \/ /\ Rows = {} \/ phase # "open" \/ "read" \in Faults
        /\ End(Evictor, "sweep_done")
  /\ UNCHANGED <<storeVars, tmp, signal, phase, durable, disk>>

\* The end of a batch: another round after progress, else give up.
EvictRound ==
  /\ pc[Evictor] = "sweep_next"
  /\ todo[Evictor] = <<>>
  /\ \/ prog[Evictor] /\ Goto(Evictor, "sweep_size") /\ UNCHANGED <<ref, arg, ent, stamp, job, todo, prog, cutoff>>
     \/ ~prog[Evictor] /\ End(Evictor, "sweep_done")
  /\ UNCHANGED <<storeVars, tmp, signal, phase, durable, disk>>

\* evictIfNeeded returns and the worker waits on the channel again.
EvictDone ==
  /\ pc[Evictor] = "sweep_done"
  /\ Goto(Evictor, "idle")
  /\ UNCHANGED <<storeVars, tmp, ref, arg, ent, stamp, sweepVars, phase, durable, disk>>

\* The next candidate of a batch, whatever the size is by now.
SweepNext(t) ==
  /\ pc[t] = "sweep_next"
  /\ todo[t] # <<>>
  /\ ref' = [ref EXCEPT ![t] = Head(todo[t])]
  /\ todo' = [todo EXCEPT ![t] = Tail(todo[t])]
  /\ Goto(t, "inv_row")
  /\ UNCHANGED <<storeVars, tmp, arg, ent, stamp, job, prog, cutoff, signal, phase, durable, disk>>

BeginPurge(t) ==
  /\ pc[t] = "idle"
  /\ Goto(t, "sweep_pick")
  /\ job' = [job EXCEPT ![t] = "purge"]
  /\ cutoff' = [cutoff EXCEPT ![t] = now - StaleAfter]
  /\ UNCHANGED <<storeVars, tmp, ref, arg, ent, stamp, todo, prog, signal, phase, durable, disk>>

StaleRows(c) == {r \in Rows : row[r].hit < c}

PurgePick(t) ==
  /\ t # Evictor
  /\ pc[t] = "sweep_pick"
  /\ \/ /\ IndexWorks
        /\ StaleRows(cutoff[t]) # {}
        /\ \E s \in OldestFirst(StaleRows(cutoff[t]), PurgeBatch) : todo' = [todo EXCEPT ![t] = s]
        /\ prog' = [prog EXCEPT ![t] = FALSE]
        /\ Goto(t, "sweep_next")
     \/ /\ IndexWorks
        /\ StaleRows(cutoff[t]) = {}
        /\ Goto(t, "ok")
        /\ UNCHANGED <<todo, prog>>
     \/ /\ IndexFails("read") \/ "cancel" \in Faults
        /\ Goto(t, "err")
        /\ UNCHANGED <<todo, prog>>
  /\ UNCHANGED <<storeVars, tmp, ref, arg, ent, stamp, job, cutoff, signal, phase, durable, disk>>

\* Mutant of PurgeRound: a batch without progress is tried again.
PurgeRoundForever(t) ==
  /\ t # Evictor
  /\ pc[t] = "sweep_next"
  /\ todo[t] = <<>>
  /\ Goto(t, "sweep_pick")
  /\ UNCHANGED <<storeVars, tmp, ref, arg, ent, stamp, sweepVars, phase, durable, disk>>

\* The end of a batch: one without progress ends the purge with an error.
PurgeRound(t) ==
  /\ t # Evictor
  /\ pc[t] = "sweep_next"
  /\ todo[t] = <<>>
  /\ Goto(t, IF prog[t] THEN "sweep_pick" ELSE "err")
  /\ UNCHANGED <<storeVars, tmp, ref, arg, ent, stamp, sweepVars, phase, durable, disk>>
-----------------------------------------------------------------------------
(* Check timestamps, lifecycle and environment *)

\* Mutant of MarkMalwareChecked: the check also counts as a hit.
MarkMalwareCheckedHit(r, ts) ==
  row' = IF row[r] = NoRow THEN row ELSE [row EXCEPT ![r].mal = ts, ![r].hit = ts]

\* MarkCVEChecked and MarkMalwareChecked: one UPDATE each.
MarkCVEChecked(r, ts) ==
  \/ IndexWorks /\ row' = IF row[r] = NoRow THEN row ELSE [row EXCEPT ![r].cve = ts]
  \/ IndexFails("write") /\ UNCHANGED row

MarkMalwareChecked(r, ts) ==
  \/ IndexWorks /\ row' = IF row[r] = NoRow THEN row ELSE [row EXCEPT ![r].mal = ts]
  \/ IndexFails("write") /\ UNCHANGED row

\* The result goes back to the caller.
Return(t) ==
  /\ t # Evictor
  /\ pc[t] \in Results \cup {"panic"}
  /\ End(t, "idle")
  /\ UNCHANGED <<storeVars, tmp, signal, phase, durable, disk>>

\* Close cancels the worker's context and closes the channel, then waits for
\* the worker to drain it and closes the index.
Close ==
  /\ "close" \in Faults
  /\ phase = "open"
  /\ phase' = "closing"
  /\ UNCHANGED <<storeVars, callVars, sweepVars, durable, disk>>

CloseIndex ==
  /\ phase = "closing"
  /\ pc[Evictor] = "idle"
  /\ ~signal
  /\ phase' = "closed"
  /\ UNCHANGED <<storeVars, callVars, sweepVars, durable, disk>>

Tick ==
  /\ now < MaxTime
  /\ now' = now + 1
  /\ UNCHANGED <<row, file, callVars, sweepVars, phase, durable, disk>>

\* The process ends and starts again: goroutines and the channel are gone,
\* the database and the files stay, the temp files of unfinished Puts too.
Reboot ==
  /\ pc' = [t \in Threads |-> "idle"]
  /\ ref' = [t \in Threads |-> NoRef]
  /\ arg' = [t \in Threads |-> NoArg]
  /\ ent' = [t \in Threads |-> NoRow]
  /\ stamp' = [t \in Threads |-> 0]
  /\ job' = [t \in Threads |-> "call"]
  /\ todo' = [t \in Threads |-> <<>>]
  /\ prog' = [t \in Threads |-> FALSE]
  /\ cutoff' = [t \in Threads |-> 0]
  /\ signal' = FALSE
  /\ phase' = "open"
  /\ UNCHANGED now

Crash ==
  /\ "crash" \in Faults
  /\ Reboot
  /\ UNCHANGED <<row, file, tmp, durable, disk>>

Exit ==
  /\ phase = "closed"
  /\ Reboot
  /\ UNCHANGED <<row, file, tmp, durable, disk>>

\* With synchronous=NORMAL a commit reaches the disk at some later checkpoint;
\* a rename or unlink reaches it when the file system writes the directory.
Checkpoint ==
  /\ "power" \in Faults
  /\ durable' = row
  /\ UNCHANGED <<storeVars, callVars, sweepVars, phase, disk>>

SyncDir(r) ==
  /\ "power" \in Faults
  /\ disk' = [disk EXCEPT ![r] = file[r]]
  /\ UNCHANGED <<storeVars, callVars, sweepVars, phase, durable>>

\* Bytes that were never fsynced are lost with the page cache, and so may be the
\* names of temp files.
Torn(f) == IF f # NoFile /\ f.bytes = "written" THEN [f EXCEPT !.bytes = "partial"] ELSE f

PowerLoss ==
  /\ "power" \in Faults
  /\ Reboot
  /\ row' = durable
  /\ file' = [r \in Refs |-> Torn(disk[r])]
  /\ disk' = [r \in Refs |-> Torn(disk[r])]
  /\ \E lost \in SUBSET {t \in Threads : tmp[t] # NoFile} :
       tmp' = [t \in Threads |-> IF t \in lost THEN NoFile ELSE Torn(tmp[t])]
  /\ UNCHANGED durable
-----------------------------------------------------------------------------
\* NewLocalCache over the rows and files an earlier process left behind.
Start(clock, rows, files) ==
  /\ now = clock
  /\ row = rows
  /\ file = files
  /\ durable = row
  /\ disk = file
  /\ tmp = [t \in Threads |-> NoFile]
  /\ pc = [t \in Threads |-> "idle"]
  /\ ref = [t \in Threads |-> NoRef]
  /\ arg = [t \in Threads |-> NoArg]
  /\ ent = [t \in Threads |-> NoRow]
  /\ stamp = [t \in Threads |-> 0]
  /\ job = [t \in Threads |-> "call"]
  /\ todo = [t \in Threads |-> <<>>]
  /\ prog = [t \in Threads |-> FALSE]
  /\ cutoff = [t \in Threads |-> 0]
  /\ signal = FALSE
  /\ phase = "open"

Init == Start(0, [r \in Refs |-> NoRow], [r \in Refs |-> NoFile])

\* One step of a call in progress.
CallStep(t) ==
  \/ GetRow(t) \/ GetStat(t) \/ GetHeal(t) \/ ReadClock(t) \/ GetTouch(t)
  \/ PutCreate(t) \/ PutWrite(t) \/ PutSync(t) \/ PutRename(t)
  \/ PutInsert(t) \/ PutUndo(t) \/ PutSignal(t)
  \/ InvRow(t) \/ InvRemove(t) \/ InvDelete(t)
  \/ SweepNext(t) \/ PurgePick(t) \/ PurgeRound(t)

WorkerStep ==
  \/ EvictWake \/ EvictSize \/ EvictPick \/ EvictRound \/ EvictDone
  \/ SweepNext(Evictor) \/ InvRow(Evictor) \/ InvRemove(Evictor) \/ InvDelete(Evictor)

Mark ==
  /\ \E r \in Refs, ts \in 0 .. now : MarkCVEChecked(r, ts) \/ MarkMalwareChecked(r, ts)
  /\ UNCHANGED <<now, file, callVars, sweepVars, phase, durable, disk>>

Begin(t) ==
  \/ \E r \in Refs : BeginGet(t, r) \/ BeginInvalidate(t, r)
  \/ \E r \in Refs, a \in Arg : BeginPut(t, r, a)
  \/ BeginPurge(t)

Environment ==
  \/ Tick \/ Close \/ CloseIndex \/ Crash \/ Exit
  \/ Checkpoint \/ (\E r \in Refs : SyncDir(r)) \/ PowerLoss

Next ==
  \/ \E t \in Callers : Begin(t) \/ CallStep(t) \/ Return(t)
  \/ WorkerStep
  \/ Mark
  \/ Environment

Spec == Init /\ [][Next]_cacheVars

\* The runtime schedules every runnable goroutine; callers need not call.
\* A statement that can fail may fail every time.
Fairness == (\A t \in Callers : WF_cacheVars(CallStep(t))) /\ WF_cacheVars(WorkerStep)
FairSpec == Spec /\ Fairness
-----------------------------------------------------------------------------
(* Properties *)

\* Put's promise: "a crash never leaves a half-written file under the final
\* name".  No final path holds a partial file, whatever Put was doing when the
\* process crashed, the power failed or a file operation returned an error.
NoTornFile == \A r \in Refs : file[r] # NoFile => file[r].bytes # "partial"

Purging(t) == job[t] = "purge" /\ pc[t] \notin Results

\* PurgeStale ends: it either empties the stale set of its fixed cutoff or
\* gives up on a batch it cannot delete, even if every DELETE may fail.
PurgeTerminates == \A t \in Callers : Purging(t) ~> ~Purging(t)

\* The calls whose statement will write a time before c.
Late(c) == {t \in Callers : pc[t] \in {"get_touch", "put_insert"} /\ stamp[t] < c}

\* While a purge runs, next to nothing becomes stale for it: only a Put or a hit
\* that read the clock before the purge's fixed cutoff, and has waited for the
\* connection ever since, can add a candidate, and no call becomes one of these.
\* Each round so has fewer candidates to ask for than the one before, but for
\* those few.
PurgeShrinks ==
  [][\A t \in Callers : Purging(t) /\ Purging(t)' =>
       /\ StaleRows(cutoff[t])' \ StaleRows(cutoff[t]) \subseteq {ref[u] : u \in Late(cutoff[t]) \ Late(cutoff[t])'}
       /\ Late(cutoff[t])' \subseteq Late(cutoff[t])]_cacheVars

PutActive == \E t \in Callers : pc[t] \in PutPCs \cup {"put_create", "put_clock", "put_insert", "put_signal"}

\* The coalescing one-slot signal loses no eviction: once Puts stop, the
\* indexed size returns to MaxBytes and stays there.
EvictionConverges == <>[]~PutActive => <>[](TotalSizeBytes <= MaxBytes)

\* Failures after which evictToSize gives up, and ends of the process.
Disturbed == Faults \cap {"read", "write", "crash", "power", "close"} # {}

\* A cache over its limit is never left to itself: a Put is about to signal, the
\* signal waits in the channel, or the worker has not yet measured what it leaves.
\* A send that finds the slot taken is therefore not missed (Put's select with a
\* default branch).
NoLostEviction ==
  MaxBytes # 0 /\ TotalSizeBytes > MaxBytes /\ ~Disturbed =>
    \/ signal
    \/ \E t \in Callers : pc[t] = "put_signal"
    \/ pc[Evictor] \notin {"idle", "sweep_done"}
=============================================================================
