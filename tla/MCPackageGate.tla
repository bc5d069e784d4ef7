--------------------------- MODULE MCPackageGate ---------------------------
(* Instances of PackageGate for TLC. *)
EXTENDS PackageGate, TLC

\* Every content takes one unit of the size limit.
UnitSize(c) == 1

\* A restart over a cache filled at time 0, just when every re-check is overdue:
\* a state PackageGate reaches through a crash, taken as the start to keep the
\* instances of the re-check protocol small.
WarmClock  == 1 + (IF CVETTL > MalTTL THEN CVETTL ELSE MalTTL)
OldContent == CHOOSE c \in Contents : TRUE
WarmInit ==
  /\ Cache!Start(WarmClock,
                 [r \in Refs |-> [src |-> OldContent, clean |-> TRUE, hit |-> 0, cve |-> 0, mal |-> 0]],
                 [r \in Refs |-> [src |-> OldContent, bytes |-> "synced"]])
  /\ Idle(Refs \X {OldContent})

\* A temp file a crash left behind, which nothing reads.
Left == {t \in Requests : tmp[t] # NoFile /\ pc[t] \notin Cache!PutPCs}

\* The console's purge, and what a crash within a Put leaves, meet one request at a
\* time: two requests meet each other, and the worker, without them.
Focus ==
  /\ Cardinality(Left) <= 1
  /\ Left # {} \/ (\E k \in Consoles : pc[k] # "idle") =>
       \E q \in Requests : \A p \in Requests \ {q} : hpc[p] = "idle"

FocusStep == Focus'

\* The clock matters to what a re-check scans and stamps: it moves while one runs.
TimedStep == now' # now => \E r \in Refs : flight[r] # Nobody

WarmSpec     == WarmInit /\ [][Next]_vars
WarmFairSpec == WarmSpec /\ Fairness

RequestSymmetry == Permutations(Requests)
=============================================================================
