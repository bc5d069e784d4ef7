---------------------------- MODULE MalwareScan ----------------------------
(***************************************************************************)
(* The malware gate's engines (internal/scanner): LimitedScanner around    *)
(* MultiScanner around clients of clamd and of ICAP servers.               *)
(*                                                                         *)
(* A scan waits for a slot or for its context to end, runs every engine at *)
(* once on the file and waits for all of them.  A client watches its       *)
(* context while it dials; once it streams, only the reply or the deadline *)
(* on the connection ends it.  Whose reply says what of a file is any of   *)
(* the replies the protocols know.                                         *)
(***************************************************************************)
EXTENDS Naturals, FiniteSets

CONSTANTS
  Scans,       \* goroutines that scan a file
  Clamd,       \* engines spoken to over INSTREAM
  Icap,        \* engines spoken to over ICAP
  Limit        \* malware.max_concurrent_scans

Engines == Clamd \cup Icap

ASSUME ScanAssumption ==
  /\ Clamd \cap Icap = {} /\ Engines # {} /\ IsFiniteSet(Engines) /\ IsFiniteSet(Scans)
  /\ Limit \in Nat \ {0}

VARIABLES
  slots,     \* the semaphore: scans that hold a slot
  scan,      \* per scan: "idle", "queue", "running", or what it returned
  alive,     \* the caller's context is not done
  hit,       \* MultiScanner has cancelled its engines' context
  engine,    \* per scan and engine: where the client is, or its outcome
  reply      \* history: what the engine answered

scanVars == <<slots, scan, alive, hit, engine, reply>>

Outcomes == {"clean", "detection", "incomplete", "error"}
Busy     == {"dial", "stream"}
Replies  == {"none", "ok", "found", "limits", "other"}

Fresh(x) == [c \in Scans |-> [e \in Engines |-> x]]

ScanInit ==
  /\ slots = {}
  /\ scan = [c \in Scans |-> "idle"]
  /\ alive = [c \in Scans |-> TRUE]
  /\ hit = [c \in Scans |-> FALSE]
  /\ engine = Fresh("off")
  /\ reply = Fresh("none")

----------------------------------------------------------------------------
(* The slot (LimitedScanner). *)

Submit(c) ==
  /\ scan[c] \in {"idle"} \cup Outcomes
  /\ scan' = [scan EXCEPT ![c] = "queue"]
  /\ alive' = [alive EXCEPT ![c] = TRUE]
  /\ hit' = [hit EXCEPT ![c] = FALSE]
  /\ engine' = [engine EXCEPT ![c] = [e \in Engines |-> "off"]]
  /\ reply' = [reply EXCEPT ![c] = [e \in Engines |-> "none"]]
  /\ UNCHANGED slots

\* A slot is free: every engine's client starts.
Acquire(c) ==
  /\ scan[c] = "queue" /\ Cardinality(slots) < Limit
  /\ slots' = slots \cup {c}
  /\ scan' = [scan EXCEPT ![c] = "running"]
  /\ engine' = [engine EXCEPT ![c] = [e \in Engines |-> "dial"]]
  /\ UNCHANGED <<alive, hit, reply>>

GiveUp(c) ==
  /\ scan[c] = "queue" /\ ~alive[c]
  /\ scan' = [scan EXCEPT ![c] = "error"]
  /\ UNCHANGED <<slots, alive, hit, engine, reply>>

\* The client of the proxy went away, or the request's time is up.
Cancel(c) ==
  /\ scan[c] \in {"queue", "running"} /\ alive[c]
  /\ alive' = [alive EXCEPT ![c] = FALSE]
  /\ UNCHANGED <<slots, scan, hit, engine, reply>>

----------------------------------------------------------------------------
(* One engine. *)

\* What the client makes of a reply: parseClamAVResponse, parseICAPResponse.
\* An engine that gave up on a file says so in clamd's protocol only.
Parsed(e, r) ==
  CASE r = "ok"                     -> "clean"
    [] r = "found"                  -> "detection"
    [] r = "limits" /\ e \in Clamd  -> "incomplete"
    [] OTHER                        -> "error"

Dialled(c, e) ==
  /\ engine[c][e] = "dial" /\ alive[c] /\ ~hit[c]
  /\ engine' = [engine EXCEPT ![c][e] = "stream"]
  /\ UNCHANGED <<slots, scan, alive, hit, reply>>

\* The file cannot be read, the engine is away or the context is done.
NotDialled(c, e) ==
  /\ engine[c][e] = "dial"
  /\ engine' = [engine EXCEPT ![c][e] = "error"]
  /\ UNCHANGED <<slots, scan, alive, hit, reply>>

\* The reply is in.  A detection cancels the other engines' context.
Replied(c, e, r) ==
  /\ engine[c][e] = "stream"
  /\ reply' = [reply EXCEPT ![c][e] = r]
  /\ engine' = [engine EXCEPT ![c][e] = Parsed(e, r)]
  /\ hit' = [hit EXCEPT ![c] = @ \/ Parsed(e, r) = "detection"]
  /\ UNCHANGED <<slots, scan, alive>>

\* A write or a read fails, at the latest when the deadline passes.
Broken(c, e) ==
  /\ engine[c][e] = "stream"
  /\ engine' = [engine EXCEPT ![c][e] = "error"]
  /\ UNCHANGED <<slots, scan, alive, hit, reply>>

----------------------------------------------------------------------------
(* The verdict (MultiScanner). *)

Said(c) == {engine[c][e] : e \in Engines}

\* Mutant of Verdict: errors are looked at first, as they come first in Go.
ErrorFirst(c) ==
  IF "error" \in Said(c) THEN "error"
  ELSE IF "detection" \in Said(c) THEN "detection"
  ELSE IF "incomplete" \in Said(c) THEN "incomplete" ELSE "clean"

\* Detections, then errors, then scans that were given up, else clean.
Verdict(c) ==
  IF "detection" \in Said(c) THEN "detection"
  ELSE IF "error" \in Said(c) THEN "error"
  ELSE IF "incomplete" \in Said(c) THEN "incomplete" ELSE "clean"

\* Mutant of Finished: a detection is returned without waiting for the rest.
FinishedOnHit(c) ==
  scan[c] = "running" /\ (hit[c] \/ Said(c) \cap Busy = {})

\* wg.Wait has returned.
Finished(c) == scan[c] = "running" /\ Said(c) \cap Busy = {}

\* Mutant of Return: the slot is given back by a scan that succeeds.
ReturnKeeps(c) ==
  /\ Finished(c)
  /\ scan' = [scan EXCEPT ![c] = Verdict(c)]
  /\ slots' = IF Verdict(c) = "error" THEN slots ELSE slots \ {c}
  /\ UNCHANGED <<alive, hit, engine, reply>>

\* Scan returns, and with it the slot.
Return(c) ==
  /\ Finished(c)
  /\ scan' = [scan EXCEPT ![c] = Verdict(c)]
  /\ slots' = slots \ {c}
  /\ UNCHANGED <<alive, hit, engine, reply>>

EngineStep(c, e) ==
  \/ Dialled(c, e) \/ NotDialled(c, e) \/ Broken(c, e)
  \/ \E r \in Replies \ {"none"} : Replied(c, e, r)

ScanStep(c) == Acquire(c) \/ GiveUp(c) \/ Return(c) \/ \E e \in Engines : EngineStep(c, e)

ScanNext == \E c \in Scans : Submit(c) \/ Cancel(c) \/ ScanStep(c)

----------------------------------------------------------------------------
(* Properties. *)

ScanTypeOK ==
  /\ slots \subseteq Scans
  /\ scan \in [Scans -> {"idle", "queue", "running"} \cup Outcomes]
  /\ alive \in [Scans -> BOOLEAN] /\ hit \in [Scans -> BOOLEAN]
  /\ engine \in [Scans -> [Engines -> {"off"} \cup Busy \cup Outcomes]]
  /\ reply \in [Scans -> [Engines -> Replies]]

\* Fail closed, whatever fails and in whichever order the engines end: a scan
\* that returned clean has every engine's word that the file is, and one that
\* an engine reported malware to says malware, not an engine's failure or a
\* cancellation that the detection itself caused (MultiScanner.Scan).
FailClosed ==
  \A c \in Scans :
    /\ scan[c] = "clean" => \A e \in Engines : reply[c][e] = "ok"
    /\ scan[c] \in Outcomes /\ (\E e \in Engines : reply[c][e] = "found") => scan[c] = "detection"

\* No engine is asked for more than the limit at once, and nobody reads a file
\* whose scan has returned: its owner may remove it (LimitedScanner's reason).
EnginesBounded ==
  /\ \A e \in Engines : Cardinality({c \in Scans : engine[c][e] \in Busy}) <= Limit
  /\ \A c \in Scans : scan[c] # "running" => Said(c) \cap Busy = {}

\* A scan that asked for a slot gets an answer: the slots are given back on
\* every path and no engine holds one beyond its deadline.
ScanEnds == \A c \in Scans : (scan[c] = "queue") ~> (scan[c] \in Outcomes)
=============================================================================
