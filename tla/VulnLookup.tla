----------------------------- MODULE VulnLookup -----------------------------
(***************************************************************************)
(* The vulnerability scanner (scanner/osv.go): one query per package to    *)
(* osv.dev behind a cache in memory, and the health sample of the last     *)
(* query.                                                                  *)
(*                                                                         *)
(* Two queries for one package may run at the same time and their answers  *)
(* may arrive in either order; the later arrival is what the cache keeps.  *)
(* Time is counted in ages: the age of an answer is the time since osv.dev *)
(* made it, and ages stop at Never, which is older than any bound.         *)
(***************************************************************************)
EXTENDS Naturals

CONSTANTS
  Lookups,    \* goroutines that check a package
  Packages,   \* cache keys (PackageRef.Key)
  TTL,        \* cve.cache_ttl
  Patience    \* osvTimeout

ASSUME LookupAssumption == TTL \in Nat \ {0} /\ Patience \in Nat \ {0}

VARIABLES
  cve,       \* the cache: age of the answer, time left to the entry
  look,      \* per lookup: [at, pkg, age, since]
  got,       \* per lookup: the age of the answer it last returned
  osv        \* the passive sample: "unknown", "ok", "down"

lookVars == <<cve, look, got, osv>>

Oldest == TTL + Patience
Never  == Oldest + 1
Older(n) == IF n = Never THEN n ELSE n + 1

Absent == [age |-> Never, left |-> 0]
Quiet  == [at |-> "idle"]

LookInit ==
  /\ cve = [p \in Packages |-> Absent]
  /\ look = [l \in Lookups |-> Quiet]
  /\ got = [l \in Lookups |-> 0]
  /\ osv = "unknown"

\* The entry is there and has not expired.
Cached(p) == cve[p].left > 0

Look(l, p) ==
  /\ look[l] = Quiet
  /\ IF Cached(p)
     THEN got' = [got EXCEPT ![l] = cve[p].age] /\ UNCHANGED look
     ELSE look' = [look EXCEPT ![l] = [at |-> "sent", pkg |-> p, age |-> Never, since |-> 0]] /\ UNCHANGED got
  /\ UNCHANGED <<cve, osv>>

\* osv.dev makes its answer (external).
Answer(l) ==
  /\ look[l].at = "sent"
  /\ look' = [look EXCEPT ![l] = [@ EXCEPT !.at = "answered", !.age = 0]]
  /\ UNCHANGED <<cve, got, osv>>

\* The answer arrives: it replaces whatever the cache holds by then.
Receive(l) ==
  /\ look[l].at = "answered"
  /\ cve' = [cve EXCEPT ![look[l].pkg] = [age |-> look[l].age, left |-> TTL]]
  /\ got' = [got EXCEPT ![l] = look[l].age]
  /\ osv' = "ok"
  /\ look' = [look EXCEPT ![l] = Quiet]

\* Mutant of Fail: a failed query is cached like an answer.
FailCached(l) ==
  /\ look[l].at \in {"sent", "answered"}
  /\ cve' = [cve EXCEPT ![look[l].pkg] = [age |-> look[l].age, left |-> TTL]]
  /\ osv' = "down"
  /\ look' = [look EXCEPT ![l] = Quiet]
  /\ UNCHANGED got

\* A refused connection, another status, a body that does not decode, the
\* timeout or the end of the caller's context: an error, and a bad sample.
Fail(l) ==
  /\ look[l].at \in {"sent", "answered"}
  /\ osv' = "down"
  /\ look' = [look EXCEPT ![l] = Quiet]
  /\ UNCHANGED <<cve, got>>

\* The janitor removes what has expired.
Janitor ==
  /\ cve' = [p \in Packages |-> IF cve[p].left = 0 THEN Absent ELSE cve[p]]
  /\ UNCHANGED <<look, got, osv>>

\* A query lasts at most Patience.
MayPass == \A l \in Lookups : look[l] # Quiet => look[l].since < Patience

LookTick ==
  /\ MayPass
  /\ cve' = [p \in Packages |-> [age |-> Older(cve[p].age), left |-> IF cve[p].left = 0 THEN 0 ELSE cve[p].left - 1]]
  /\ look' = [l \in Lookups |->
       IF look[l] = Quiet THEN Quiet
       ELSE [look[l] EXCEPT !.since = @ + 1, !.age = Older(@)]]
  /\ UNCHANGED <<got, osv>>

LookNext ==
  \/ \E l \in Lookups : Answer(l) \/ Receive(l) \/ Fail(l) \/ \E p \in Packages : Look(l, p)
  \/ Janitor

----------------------------------------------------------------------------
(* Properties. *)

LookTypeOK ==
  /\ cve \in [Packages -> [age : 0 .. Never, left : 0 .. TTL]]
  /\ \A l \in Lookups :
       look[l] = Quiet \/ look[l] \in [at : {"sent", "answered"}, pkg : Packages, age : 0 .. Never, since : 0 .. Patience]
  /\ got \in [Lookups -> 0 .. Never]
  /\ osv \in {"unknown", "ok", "down"}

\* No caller is told what osv.dev knew longer ago than the cache's lifetime and
\* one query's timeout, though an answer that was overtaken replaces a newer
\* one and starts a lifetime of its own (Scan's unlocked query), and no caller
\* is told what osv.dev never said.
AnswersFresh == \A l \in Lookups : got[l] <= Oldest
=============================================================================
