------------------------------ MODULE EventLog ------------------------------
(***************************************************************************)
(* The telemetry tables (internal/telemetry): the event log, the counters  *)
(* and the tallies per day, written together for every outcome of a        *)
(* request, pruned by age and read by the console a page at a time.        *)
(*                                                                         *)
(* The database has one connection.  A transaction holds it from Begin to  *)
(* Commit, so that its statements are steps on a working copy; every other *)
(* call is one statement.  An event carries the time of the outcome, taken *)
(* before it is recorded: rows need not arrive in the order of their time. *)
(* A day is a tick of the clock.  Names and details of packages are left   *)
(* out, and with them the text filter and the quarantine view.             *)
(***************************************************************************)
EXTENDS Integers, Sequences, FiniteSets

CONSTANTS
  Recorders,      \* request goroutines, which record their outcome
  Kinds,          \* outcomes: [verdict, gate, denied]
  EventDays,      \* retention of events, in ticks
  MetricDays,     \* retention of tallies
  Limit,          \* rows of a page
  MaxEvents,      \* bound on the events recorded
  MaxNow,         \* bound on the clock
  Nobody, NoEvent

Verdicts == {"PASS", "CACHE", "BLOCK", "ERROR"}
Gates    == {"cache", "supply", "cve", "malware"}
Days     == 1 .. MaxNow

ASSUME LogAssumption ==
  /\ Kinds \subseteq [verdict : Verdicts, gate : Gates \cup {"image_scan"}, denied : BOOLEAN]
  /\ Limit \in Nat \ {0} /\ EventDays \in Nat /\ MetricDays \in Nat
  /\ MaxEvents \in Nat /\ MaxNow \in Nat \ {0}
  /\ Nobody \notin Recorders /\ NoEvent \notin [ts : Nat, id : Nat]

VARIABLES
  now,
  log,       \* events: rowid -> [ts, kind]
  counters,  \* the row of cumulative counters
  daily,     \* daily_metrics: day -> tallies
  conn,      \* who holds the connection
  work,      \* the transaction's view of the three tables
  rec,       \* per recorder: where it is and its event
  prune,     \* the prune loop
  walk,      \* a console user paging through the log
  booked     \* history: every committed event

tableVars == <<log, counters, daily>>
logVars   == <<now, tableVars, conn, work, rec, prune, walk, booked>>

Resting == [at |-> "idle"]

----------------------------------------------------------------------------
(* Tallies. *)

Pipeline == <<"supply", "cve", "malware">>

PipelineIndex(g) == IF \E i \in 1 .. 3 : Pipeline[i] = g THEN CHOOSE i \in 1 .. 3 : Pipeline[i] = g ELSE 0

Through(i) == {Pipeline[k] : k \in 1 .. i}

Tally ==
  ({"all"} \X {"requests", "hits", "blocked", "errors"})
    \cup ({"blocked_by"} \X {"supply", "cve", "malware", "denylist"})
    \cup ({"pass", "block"} \X Gates)

Empty == [t \in Tally |-> 0]

\* The gates that an outcome implies were passed.
Cleared(k) ==
  LET i == PipelineIndex(k.gate) IN
  CASE k.verdict = "CACHE" -> {"cache"}
    [] k.verdict = "PASS"  -> Through(IF i = 0 THEN 3 ELSE i)
    [] k.verdict = "BLOCK" -> Through(i - 1)
    [] OTHER               -> {}

\* The counters that one event raises (aggregate.record).
Raised(k) ==
  {<<"all", "requests">>}
    \cup (CASE k.verdict = "CACHE" -> {<<"all", "hits">>}
            [] k.verdict = "ERROR" -> {<<"all", "errors">>}
            [] k.verdict = "BLOCK" -> {<<"all", "blocked">>, <<"block", k.gate>>,
                                       <<"blocked_by", IF k.denied THEN "denylist" ELSE k.gate>>} \cap Tally
            [] OTHER -> {})
    \cup {<<"pass", g>> : g \in Cleared(k)}

Plus(tallies, k) == [t \in Tally |-> tallies[t] + IF t \in Raised(k) THEN 1 ELSE 0]

----------------------------------------------------------------------------
(* RecordEvent: one transaction. *)

LogInit ==
  /\ now = 1
  /\ log = [i \in {} |-> NoEvent]
  /\ counters = Empty
  /\ daily = [d \in {} |-> Empty]
  /\ conn = Nobody
  /\ work = Resting
  /\ rec = [r \in Recorders |-> Resting]
  /\ prune = "wait"
  /\ walk = [at |-> "idle"]
  /\ booked = <<>>

Underway == {r \in Recorders : rec[r] # Resting}

\* Requests at work, before their outcome is known.
Busy == {r \in Recorders : rec[r].at = "busy"}

\* A request comes in and is worked on: fetched, scanned, put into the cache.
Accept(r) ==
  /\ rec[r] = Resting /\ Len(booked) + Cardinality(Underway) < MaxEvents
  /\ rec' = [rec EXCEPT ![r] = [at |-> "busy"]]
  /\ UNCHANGED <<now, tableVars, conn, work, prune, walk, booked>>

\* It ends without an event: not a gated one, or one nobody waited for.
Unrecorded(r) ==
  /\ rec[r].at = "busy"
  /\ rec' = [rec EXCEPT ![r] = Resting]
  /\ UNCHANGED <<now, tableVars, conn, work, prune, walk, booked>>

\* It has its outcome, stamped with the time.
Outcome(r, k) ==
  /\ rec[r].at = "busy"
  /\ rec' = [rec EXCEPT ![r] = [at |-> "begin", ev |-> [ts |-> now, kind |-> k]]]
  /\ UNCHANGED <<now, tableVars, conn, work, prune, walk, booked>>

Begin(r) ==
  /\ rec[r].at = "begin" /\ conn = Nobody
  /\ conn' = r
  /\ work' = [log |-> log, counters |-> counters, daily |-> daily]
  /\ rec' = [rec EXCEPT ![r].at = "insert"]
  /\ UNCHANGED <<now, tableVars, prune, walk, booked>>

\* AUTOINCREMENT: a rowid is never used twice, even after a prune.
NextId == Len(booked) + 1

Insert(r) ==
  /\ rec[r].at = "insert"
  /\ work' = [work EXCEPT !.log = [i \in DOMAIN @ \cup {NextId} |-> IF i = NextId THEN rec[r].ev ELSE @[i]]]
  /\ rec' = [rec EXCEPT ![r].at = "count"]
  /\ UNCHANGED <<now, tableVars, conn, prune, walk, booked>>

Count(r) ==
  /\ rec[r].at = "count"
  /\ work' = [work EXCEPT !.counters = Plus(@, rec[r].ev.kind)]
  /\ rec' = [rec EXCEPT ![r].at = "day"]
  /\ UNCHANGED <<now, tableVars, conn, prune, walk, booked>>

\* The row of the event's own day, which may be over by now.
CountDay(r) ==
  /\ rec[r].at = "day"
  /\ LET ev == rec[r].ev
         was == work.daily
         old == IF ev.ts \in DOMAIN was THEN was[ev.ts] ELSE Empty
     IN work' = [work EXCEPT !.daily = [d \in DOMAIN was \cup {ev.ts} |->
                                          IF d = ev.ts THEN Plus(old, ev.kind) ELSE was[d]]]
  /\ rec' = [rec EXCEPT ![r].at = "commit"]
  /\ UNCHANGED <<now, tableVars, conn, prune, walk, booked>>

Release(r, next) ==
  /\ conn' = Nobody
  /\ work' = Resting
  /\ rec' = [rec EXCEPT ![r] = next]

Commit(r) ==
  /\ rec[r].at = "commit"
  /\ log' = work.log /\ counters' = work.counters /\ daily' = work.daily
  /\ booked' = Append(booked, rec[r].ev)
  /\ Release(r, [at |-> "publish", ev |-> rec[r].ev])
  /\ UNCHANGED <<now, prune, walk>>

\* Mutant of Abort: the tallies are written through, outside the transaction.
AbortLeaves(r) ==
  /\ rec[r].at \in {"insert", "count", "day", "commit"}
  /\ counters' = work.counters /\ daily' = work.daily
  /\ Release(r, [at |-> "publish", ev |-> rec[r].ev])
  /\ UNCHANGED <<now, log, prune, walk, booked>>

\* Any statement or the commit fails: rolled back, logged, and the request goes
\* on; the event is published all the same.
Abort(r) ==
  /\ rec[r].at \in {"insert", "count", "day", "commit"}
  /\ Release(r, [at |-> "publish", ev |-> rec[r].ev])
  /\ UNCHANGED <<now, tableVars, prune, walk, booked>>

\* Begin fails: nothing to roll back.
BeginFails(r) ==
  /\ rec[r].at = "begin"
  /\ rec' = [rec EXCEPT ![r].at = "publish"]
  /\ UNCHANGED <<now, tableVars, conn, work, prune, walk, booked>>

----------------------------------------------------------------------------
(* The prune loop: two statements. *)

Wake ==
  /\ prune = "wait"
  /\ prune' = "events"
  /\ UNCHANGED <<now, tableVars, conn, work, rec, walk, booked>>

PruneEvents ==
  /\ prune = "events" /\ conn = Nobody
  /\ log' = [i \in {j \in DOMAIN log : log[j].ts >= now - EventDays} |-> log[i]]
  /\ prune' = "days"
  /\ walk' = IF walk.at = "pages" THEN [walk EXCEPT !.owed = @ \cap DOMAIN log'] ELSE walk
  /\ UNCHANGED <<now, counters, daily, conn, work, rec, booked>>

PruneDays ==
  /\ prune = "days" /\ conn = Nobody
  /\ daily' = [d \in {e \in DOMAIN daily : e >= now - MetricDays} |-> daily[d]]
  /\ prune' = "wait"
  /\ UNCHANGED <<now, log, counters, conn, work, rec, walk, booked>>

\* The database refuses one of the statements; the next hour tries again.
PruneFails ==
  /\ prune \in {"events", "days"}
  /\ prune' = "wait"
  /\ UNCHANGED <<now, tableVars, conn, work, rec, walk, booked>>

----------------------------------------------------------------------------
(* Reading (Page, console requests): newest first, by time and rowid. *)

Newer(a, b) == log[a].ts > log[b].ts \/ (log[a].ts = log[b].ts /\ a > b)

Matching(verdict) == {i \in DOMAIN log : verdict \in {"", log[i].kind.verdict}}

\* Mutant of Beyond: the cursor holds a time only.
BeyondTime(i, cursor) == cursor = NoEvent \/ log[i].ts < cursor.ts

\* The keyset condition: strictly older than the last row shown.
Beyond(i, cursor) ==
  cursor = NoEvent \/ log[i].ts < cursor.ts \/ (log[i].ts = cursor.ts /\ i < cursor.id)

\* The first Limit of the rows.
PageOf(rows) == {i \in rows : Cardinality({j \in rows : Newer(j, i)}) < Limit}

\* The user opens the list, possibly for one verdict.
StartWalk(verdict) ==
  /\ walk.at = "idle"
  /\ walk' = [at |-> "pages", verdict |-> verdict, cursor |-> NoEvent, owed |-> Matching(verdict), seen |-> <<>>]
  /\ UNCHANGED <<now, tableVars, conn, work, rec, prune, booked>>

\* Rows of a page, newest first.
InOrder(rows) == CHOOSE s \in [1 .. Cardinality(rows) -> rows] :
                   \A i, j \in DOMAIN s : i < j => Newer(s[i], s[j])

\* One page.  One row more is asked for: it says whether there is a next one.
NextPage ==
  /\ walk.at = "pages" /\ conn = Nobody
  /\ LET rows  == {i \in Matching(walk.verdict) : Beyond(i, walk.cursor)}
         shown == InOrder(PageOf(rows))
         last  == shown[Len(shown)]
     IN walk' = [walk EXCEPT
          !.seen   = @ \o shown,
          !.at     = IF Cardinality(rows) > Limit THEN "pages" ELSE "end",
          !.cursor = IF Cardinality(rows) > Limit THEN [ts |-> log[last].ts, id |-> last] ELSE NoEvent]
  /\ UNCHANGED <<now, tableVars, conn, work, rec, prune, booked>>

\* The read fails and is shown as an empty last page, or the user goes away.
EndWalk ==
  /\ walk.at \in {"pages", "end"}
  /\ walk' = [at |-> "idle"]
  /\ UNCHANGED <<now, tableVars, conn, work, rec, prune, booked>>

Tick ==
  /\ now < MaxNow
  /\ now' = now + 1
  /\ UNCHANGED <<tableVars, conn, work, rec, prune, walk, booked>>

\* What a recorder does on its own, its outcome known.
WriteStep(r) ==
  Begin(r) \/ BeginFails(r) \/ Insert(r) \/ Count(r) \/ CountDay(r) \/ Commit(r) \/ Abort(r)

PruneStep == Wake \/ PruneEvents \/ PruneDays \/ PruneFails

WalkStep == (\E v \in {""} \cup Verdicts : StartWalk(v)) \/ NextPage \/ EndWalk

----------------------------------------------------------------------------
(* Properties. *)

LogTypeOK ==
  /\ now \in 1 .. MaxNow
  /\ DOMAIN log \subseteq 1 .. Len(booked)
  /\ \A i \in DOMAIN log : log[i] \in [ts : Days, kind : Kinds]
  /\ DOMAIN daily \subseteq Days
  /\ conn \in Recorders \cup {Nobody}
  /\ conn # Nobody => rec[conn].at \in {"insert", "count", "day", "commit"}
  /\ prune \in {"wait", "events", "days", "ended"}
  /\ walk.at \in {"idle", "pages", "end"}

Booked(t, S) == Cardinality({i \in S : t \in Raised(booked[i].kind)})

\* Whatever statements fail and whenever the log is pruned, the counters are
\* the tally of every event committed since there is a log, and the row of a day
\* that is not up for pruning that of the day's events (RecordEvent's transaction).
TalliesAgree ==
  \A t \in Tally :
    /\ counters[t] = Booked(t, DOMAIN booked)
    /\ \A d \in (now - MetricDays) .. MaxNow :
         (IF d \in DOMAIN daily THEN daily[d][t] ELSE 0) = Booked(t, {i \in DOMAIN booked : booked[i].ts = d})

\* A walk through the pages shows no row twice, in order, and ends having shown
\* every row that was there all along, whatever was recorded or pruned between
\* two pages (the keyset cursor of Page).
WalkComplete ==
  walk.at # "idle" =>
    /\ \A i, j \in DOMAIN walk.seen : i < j =>
         \/ booked[walk.seen[i]].ts > booked[walk.seen[j]].ts
         \/ booked[walk.seen[i]].ts = booked[walk.seen[j]].ts /\ walk.seen[i] > walk.seen[j]
    /\ walk.at = "end" => walk.owed \subseteq {walk.seen[i] : i \in DOMAIN walk.seen}
=============================================================================
