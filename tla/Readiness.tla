----------------------------- MODULE Readiness ------------------------------
(***************************************************************************)
(* The health monitor (internal/health) and /ready (cmd/jo-ei/ready.go),   *)
(* composed with the vulnerability lookups, whose last outcome the monitor *)
(* shows, and with the malware scans.                                      *)
(*                                                                         *)
(* The monitor probes the socket engines one after the other, at start and *)
(* whenever its ticker fires; /ready asks the database and looks at the    *)
(* monitor's samples, and one evaluation answers everybody for a while.    *)
(* Time is counted in ages, which stop at Notice.                          *)
(***************************************************************************)
EXTENDS VulnLookup, MalwareScan, Integers, Sequences

CONSTANTS
  Probed,         \* sequence of the actively probed engines
  Interval,       \* health.probe_interval_seconds
  MaxProbe,       \* maxProbeTimeout
  ReadyTTL,       \* readinessCacheTTL
  ReadyTimeout    \* readinessTimeout

Active == {Probed[i] : i \in DOMAIN Probed}

ASSUME ReadyAssumption ==
  /\ Probed \in Seq(Active) /\ Len(Probed) > 0
  /\ {Interval, MaxProbe, ReadyTTL, ReadyTimeout} \subseteq Nat \ {0}

VARIABLES
  up,        \* environment: which engines can be reached
  gone,      \* how long an engine has been out of reach, from the start on
  db,        \* environment: the database answers
  sample,    \* Monitor: the last probe of each engine: "unknown", "ok", "down"
  loop,      \* the probe loop: index of the probe that runs (0: none), its time
  ticker,    \* time to the next tick (0: not started), and whether one is pending
  eval,      \* /ready: the evaluation that runs (-1: none), its time
  ready      \* its cached answer: what is failing, and its age

monitorVars == <<sample, loop, ticker>>
readyVars   == <<up, gone, db, monitorVars, eval, ready>>
vars        == <<scanVars, lookVars, readyVars>>

ProbeTimeout == IF Interval < MaxProbe THEN Interval ELSE MaxProbe

\* The longest that an outage can go unnoticed: a tick, a pass of probes that
\* each take their time, and the life of an answer.
Pass   == Len(Probed) * ProbeTimeout
Notice == Interval + Pass + ReadyTTL

Unasked == [failing |-> {"database"}, age |-> ReadyTTL]

ReadyInit ==
  /\ up \in [Active -> BOOLEAN]
  /\ gone = [e \in Active |-> 0]
  /\ db \in BOOLEAN
  /\ sample = [e \in Active |-> "unknown"]
  /\ loop = [at |-> 1, time |-> 0]
  /\ ticker = [next |-> 0, due |-> FALSE]
  /\ eval = -1
  /\ ready = Unasked

----------------------------------------------------------------------------
(* The probe loop. *)

\* A slow answer is shown as a warning, which counts as ok for /ready.
Classify(ok) == IF ok THEN "ok" ELSE "down"

\* The next engine's probe follows, and the ticker after the last; it is
\* started by the first pass.
Advance(last) ==
  /\ loop' = [at |-> IF loop.at < last THEN loop.at + 1 ELSE 0, time |-> 0]
  /\ ticker' = IF loop.at = last /\ ticker.next = 0 THEN [ticker EXCEPT !.next = Interval] ELSE ticker

\* Mutant of Probe: a probe that fails is not recorded.
ProbeKeeps ==
  /\ loop.at > 0
  /\ LET e == Probed[loop.at] IN sample' = [sample EXCEPT ![e] = IF up[e] THEN Classify(TRUE) ELSE @]
  /\ Advance(Len(Probed))
  /\ UNCHANGED <<up, gone, db, eval, ready>>

\* A probe ends: PONG or a 2xx from an engine that can be reached, else an
\* error.
Probe ==
  /\ loop.at > 0
  /\ LET e == Probed[loop.at] IN sample' = [sample EXCEPT ![e] = Classify(up[e])]
  /\ Advance(Len(Probed))
  /\ UNCHANGED <<up, gone, db, eval, ready>>

Wake ==
  /\ loop.at = 0 /\ ticker.due
  /\ ticker' = [ticker EXCEPT !.due = FALSE]
  /\ loop' = [at |-> 1, time |-> 0]
  /\ UNCHANGED <<up, gone, db, sample, eval, ready>>

----------------------------------------------------------------------------
(* /ready. *)

\* Snapshot: the active engines' samples, and osv.dev's last outcome.
Status(e) == IF e \in Active THEN sample[e] ELSE osv

\* Mutant of Failing: osv.dev counts like the others.
FailingAll == {e \in Active \cup {"osv"} : Status(e) = "down"}

\* The engines that fail readiness: the passive one does not.
Failing == {e \in Active : Status(e) = "down"}

\* A probe of /ready finds no answer that is young enough; others wait for its.
Ask ==
  /\ eval = -1 /\ ready.age >= ReadyTTL
  /\ eval' = 0
  /\ UNCHANGED <<up, gone, db, monitorVars, ready>>

Evaluated(database) ==
  /\ eval >= 0
  /\ eval' = -1
  /\ ready' = [failing |-> Failing \cup database, age |-> 0]
  /\ UNCHANGED <<up, gone, db, monitorVars>>

DatabaseAnswers == db /\ Evaluated({})

\* No answer in time, an error, or the client whose probe it is has left.
DatabaseFails == Evaluated({"database"})

----------------------------------------------------------------------------
(* The environment and time. *)

Change(e) ==
  /\ up' = [up EXCEPT ![e] = ~@]
  /\ gone' = [gone EXCEPT ![e] = 0]
  /\ UNCHANGED <<db, monitorVars, eval, ready>>

DatabaseChange ==
  /\ db' = ~db
  /\ UNCHANGED <<up, gone, monitorVars, eval, ready>>

ReadyTick ==
  /\ loop.at > 0 => loop.time < ProbeTimeout
  /\ loop.at = 0 => ~ticker.due
  /\ eval < ReadyTimeout
  /\ gone' = [e \in Active |-> IF up[e] THEN 0 ELSE IF gone[e] = Notice THEN Notice ELSE gone[e] + 1]
  /\ loop' = IF loop.at > 0 THEN [loop EXCEPT !.time = @ + 1] ELSE loop
  /\ ticker' = CASE ticker.next = 0 -> ticker
                  [] ticker.next = 1 -> [next |-> Interval, due |-> TRUE]
                  [] OTHER           -> [ticker EXCEPT !.next = @ - 1]
  /\ eval' = IF eval = -1 THEN -1 ELSE eval + 1
  /\ ready' = [ready EXCEPT !.age = IF @ >= ReadyTTL THEN @ ELSE @ + 1]
  /\ UNCHANGED <<up, db, sample>>

Tick == LookTick /\ ReadyTick /\ UNCHANGED scanVars

ReadyNext ==
  \/ Probe \/ Wake \/ Ask \/ DatabaseAnswers \/ DatabaseFails
  \/ DatabaseChange \/ \E e \in Active : Change(e)

Init == ScanInit /\ LookInit /\ ReadyInit

ScanAlone  == UNCHANGED <<lookVars, readyVars>>
LookAlone  == UNCHANGED <<scanVars, readyVars>>
ReadyAlone == UNCHANGED <<scanVars, lookVars>>

Next ==
  \/ ScanNext /\ ScanAlone
  \/ LookNext /\ LookAlone
  \/ ReadyNext /\ ReadyAlone
  \/ Tick

\* Time passes and goroutines run: a client of an engine dials and streams
\* under deadlines, and the queue for slots is first in, first out (a Go
\* channel).  Somebody polls /ready, and not every poll is given up before the
\* database answers it.
Fairness ==
  /\ \A c \in Scans :
       /\ SF_vars(Acquire(c) /\ ScanAlone)
       /\ WF_vars(Return(c) /\ ScanAlone)
       /\ \A e \in Engines : WF_vars(EngineStep(c, e) /\ ScanAlone)
  /\ \A l \in Lookups : WF_vars((Receive(l) \/ Fail(l)) /\ LookAlone)
  /\ WF_vars(Tick)
  /\ WF_vars((Probe \/ Wake) /\ ReadyAlone)
  /\ WF_vars((Ask \/ DatabaseAnswers \/ DatabaseFails) /\ ReadyAlone)
  /\ SF_vars(DatabaseAnswers /\ ReadyAlone)

Spec == Init /\ [][Next]_vars /\ Fairness

----------------------------------------------------------------------------
(* Properties. *)

TypeOK ==
  /\ ScanTypeOK /\ LookTypeOK
  /\ up \in [Active -> BOOLEAN] /\ db \in BOOLEAN
  /\ gone \in [Active -> 0 .. Notice]
  /\ sample \in [Active -> {"unknown", "ok", "down"}]
  /\ loop.at \in 0 .. Len(Probed) /\ loop.time \in 0 .. ProbeTimeout
  /\ ticker.next \in 0 .. Interval /\ ticker.due \in BOOLEAN
  /\ eval \in -1 .. ReadyTimeout
  /\ ready.failing \subseteq Active \cup {"database", "osv"} /\ ready.age \in 0 .. ReadyTTL

Answering == ready.age < ReadyTTL

\* An engine that has been out of reach for an interval, a pass of probes and
\* the life of an answer is known to be: no poll of /ready is answered 200 then,
\* whatever the order of probes, missed ticks and cached answers (probeAll's
\* sequential passes, the ticker's single pending tick, readinessCacheTTL).
OutageNoticed ==
  \A e \in Active : Answering /\ gone[e] >= Notice => ready.failing # {}

Healthy == db /\ \A e \in Active : up[e]

\* Once the engines and the database stay within reach, /ready says so again
\* and again, though osv.dev's last lookup failed and nobody looks up anything
\* since: a passive sample must not keep the instance out of rotation.
ReadyRecovers == <>[]Healthy => []<>(Answering /\ ready.failing = {})
=============================================================================
