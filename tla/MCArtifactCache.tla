-------------------------- MODULE MCArtifactCache --------------------------
(***************************************************************************)
(* Instances of ArtifactCache for TLC.                                     *)
(*                                                                         *)
(* Faults that end the process or reach the disk concern one call at a     *)
(* time, and so do temp files left behind.  Calls that run beside a purge, *)
(* and the worker, meet it in the index, which such faults only empty.     *)
(***************************************************************************)
EXTENDS CacheStore

CONSTANTS t1, t2

\* Every content takes one unit of the size limit, or two.
UnitSize(c) == 1
TwoSize(c)  == 2

Fresh == durable = [r \in Refs |-> NoRow] /\ disk = [r \in Refs |-> NoFile]

\* No re-check has stamped the row of an entry.
Unmarked == \A r \in Rows : row[r].cve = row[r].mal

Left == {t \in Threads : tmp[t] # NoFile /\ pc[t] \notin PutPCs}

\* One call, or one next to a purge, or a purge next to the worker.
Alone  == pc[t2] = "idle" /\ (pc[Evictor] = "idle" \/ phase # "open")
Beside == /\ Fresh /\ phase = "open" /\ Left = {}
          /\ pc[t1] = "idle" \/ job[t1] = "purge"
          /\ pc[t2] = "idle" \/ pc[Evictor] = "idle"
          /\ job[t2] # "purge"

Focus == ((Alone /\ (Fresh \/ Unmarked)) \/ (Beside /\ Unmarked)) /\ (Left # {} => Fresh /\ now = 0)

\* Nothing but time happens at 1: an entry is fresh or stale, never in between.
FocusStep == Focus' /\ (now = 1 => now' = 2)
=============================================================================
