---------------------------- MODULE MCReadiness ----------------------------
(***************************************************************************)
(* An instance of Readiness for TLC.  The three parts share the clock and  *)
(* osv.dev's sample only, so that one at a time moves: the engines scan,   *)
(* packages are looked up, or /ready is polled, with lookups that fail.    *)
(* The database is away in the first two: nothing is asked of /ready.  One *)
(* engine at a time is out of reach.                                       *)
(***************************************************************************)
EXTENDS Readiness

CONSTANTS clam, icap

MCProbed == <<clam, icap>>

NoScan == scanVars = <<{}, [c \in Scans |-> "idle"], [c \in Scans |-> TRUE],
                       [c \in Scans |-> FALSE], Fresh("off"), Fresh("none")>>

Unpolled == ~db /\ ready = Unasked /\ eval = -1 /\ \A e \in Active : up[e]

NoLookup == look = [l \in Lookups |-> Quiet] /\ got = [l \in Lookups |-> 0]

ScanSide  == Unpolled /\ osv = "unknown" /\ NoLookup /\ loop = [at |-> 1, time |-> 0]
LookSide  == NoScan /\ Unpolled
ReadySide == NoScan /\ NoLookup /\ (\A p \in Packages : cve[p] = Absent) /\ osv # "ok"
               /\ \E e \in Active : \A f \in Active \ {e} : up[f]

Focus == ScanSide \/ LookSide \/ ReadySide

\* Fairness, of what the part at hand may do.
MCFairness ==
  /\ \A c \in Scans :
       /\ SF_vars(Acquire(c) /\ ScanAlone /\ Focus')
       /\ WF_vars(Return(c) /\ ScanAlone /\ Focus')
       /\ \A e \in Engines : WF_vars(EngineStep(c, e) /\ ScanAlone /\ Focus')
  /\ \A l \in Lookups : WF_vars((Receive(l) \/ Fail(l)) /\ LookAlone /\ Focus')
  /\ WF_vars(Tick /\ Focus')
  /\ WF_vars((Probe \/ Wake) /\ ReadyAlone /\ Focus')
  /\ WF_vars((Ask \/ DatabaseAnswers \/ DatabaseFails) /\ ReadyAlone /\ Focus')
  /\ SF_vars(DatabaseAnswers /\ ReadyAlone /\ Focus')

FocusStep == Focus'

MCSpec == Init /\ [][Next]_vars /\ MCFairness
=============================================================================
