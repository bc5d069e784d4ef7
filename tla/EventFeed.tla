----------------------------- MODULE EventFeed -----------------------------
(***************************************************************************)
(* The live feed (broadcaster.go, the console's event stream) over the     *)
(* event log, and the end of the process: on a signal the servers drain,   *)
(* the streams are ended so as not to hold the drain, the prune loop is    *)
(* stopped and the database is closed last; a main server that fails skips *)
(* the drain (serve.go, app.go).                                           *)
(*                                                                         *)
(* A stream's session is rechecked at every heartbeat (see Accounts); here *)
(* a stream whose session ended, whose client left or whose write missed   *)
(* its deadline just leaves.                                               *)
(***************************************************************************)
EXTENDS EventLog

CONSTANTS
  Streams,      \* console tabs
  Detached,     \* recorders that outlive their request (recordWhenDone)
  Buffer        \* subscriberBuffer

ASSUME FeedAssumption == Detached \subseteq Recorders /\ Buffer \in Nat \ {0}

VARIABLES
  stream,    \* where each handler is: "idle", "asked", "open"
  chan,      \* its channel: what it holds, and whether it is open
  subs,      \* Broadcaster.subs
  closed,    \* Broadcaster.closed
  phase,     \* of the process: "serving", "draining", "closing", "closed"
  hook,      \* the shutdown hook is still to run
  cut,       \* why handlers were not waited for: "none", "deadline" or "failed"
  due,       \* history: what an unbounded channel would hold
  lossy      \* history: streams that were full when an event came

feedVars == <<stream, chan, subs, closed, phase, hook, cut, due, lossy>>
vars     == <<logVars, feedVars>>

NoChan == [open |-> FALSE, buf |-> <<>>]

FeedInit ==
  /\ stream = [s \in Streams |-> "idle"]
  /\ chan = [s \in Streams |-> NoChan]
  /\ subs = {}
  /\ closed = FALSE
  /\ phase = "serving"
  /\ hook = FALSE
  /\ cut = "none"
  /\ due = [s \in Streams |-> <<>>]
  /\ lossy = {}

----------------------------------------------------------------------------
(* Streams and the broadcaster. *)

\* A server that failed was not shut down: its open connections go on.
Taking == phase = "serving" \/ cut = "failed"

Connect(s) ==
  /\ Taking /\ stream[s] = "idle"
  /\ stream' = [stream EXCEPT ![s] = "asked"]
  /\ UNCHANGED <<chan, subs, closed, phase, hook, cut, due, lossy>>

\* Mutant of Subscribe: a subscription after Close is an ordinary one.
SubscribeAlways(s) ==
  /\ stream[s] = "asked"
  /\ stream' = [stream EXCEPT ![s] = "open"]
  /\ chan' = [chan EXCEPT ![s] = [open |-> TRUE, buf |-> <<>>]]
  /\ subs' = subs \cup {s}
  /\ due' = [due EXCEPT ![s] = <<>>]
  /\ lossy' = lossy \ {s}
  /\ UNCHANGED <<closed, phase, hook, cut>>

\* A broadcaster that was closed returns a closed channel.
Subscribe(s) ==
  /\ stream[s] = "asked"
  /\ stream' = [stream EXCEPT ![s] = "open"]
  /\ chan' = [chan EXCEPT ![s] = [open |-> ~closed, buf |-> <<>>]]
  /\ subs' = IF closed THEN subs ELSE subs \cup {s}
  /\ due' = [due EXCEPT ![s] = <<>>]
  /\ lossy' = lossy \ {s}
  /\ UNCHANGED <<closed, phase, hook, cut>>

Roomy(s) == Len(chan[s].buf) < Buffer

\* Mutant of Publish: one full channel keeps the event from the others.
PublishAll(r) ==
  /\ rec[r].at = "publish"
  /\ chan' = [s \in Streams |->
       IF s \in subs /\ \A t \in subs : Roomy(t) THEN [chan[s] EXCEPT !.buf = Append(@, rec[r].ev)] ELSE chan[s]]
  /\ due' = [s \in Streams |-> IF s \in subs THEN Append(due[s], rec[r].ev) ELSE due[s]]
  /\ lossy' = lossy \cup {s \in subs : ~Roomy(s)}
  /\ rec' = [rec EXCEPT ![r] = Resting]
  /\ UNCHANGED <<stream, subs, closed, phase, hook, cut>>

\* Hub.Record, after the store: every subscriber with room gets the event.
Publish(r) ==
  /\ rec[r].at = "publish"
  /\ chan' = [s \in Streams |->
       IF s \in subs /\ Roomy(s) THEN [chan[s] EXCEPT !.buf = Append(@, rec[r].ev)] ELSE chan[s]]
  /\ due' = [s \in Streams |->
       IF s \in subs /\ s \notin lossy /\ Roomy(s) THEN Append(due[s], rec[r].ev) ELSE due[s]]
  /\ lossy' = lossy \cup {s \in subs : ~Roomy(s)}
  /\ rec' = [rec EXCEPT ![r] = Resting]
  /\ UNCHANGED <<stream, subs, closed, phase, hook, cut>>

\* The handler takes an event off its channel and writes it out.
Deliver(s) ==
  /\ stream[s] = "open" /\ chan[s].buf # <<>>
  /\ chan' = [chan EXCEPT ![s].buf = Tail(@)]
  /\ due' = [due EXCEPT ![s] = IF @ = <<>> THEN @ ELSE Tail(@)]
  /\ UNCHANGED <<stream, subs, closed, phase, hook, cut, lossy>>

\* A closed channel, once empty, ends the stream.
StreamEnds(s) ==
  /\ stream[s] = "open" /\ chan[s] = NoChan
  /\ stream' = [stream EXCEPT ![s] = "idle"]
  /\ UNCHANGED <<chan, subs, closed, phase, hook, cut, due, lossy>>

\* The client is gone, too slow or no longer allowed: cancel closes the channel
\* unless Close has done so.
Leave(s) ==
  /\ stream[s] = "open"
  /\ stream' = [stream EXCEPT ![s] = "idle"]
  /\ chan' = [chan EXCEPT ![s] = NoChan]
  /\ subs' = subs \ {s}
  /\ due' = [due EXCEPT ![s] = <<>>]
  /\ lossy' = lossy \ {s}
  /\ UNCHANGED <<closed, phase, hook, cut>>

----------------------------------------------------------------------------
(* The end of the process. *)

\* The signal, or the metrics server failed: listeners close, the hook starts on
\* its own goroutine.
Stop ==
  /\ phase = "serving"
  /\ phase' = "draining" /\ hook' = TRUE
  /\ UNCHANGED <<stream, chan, subs, closed, cut, due, lossy>>

\* The main server failed: serveWith returns, and the closers run without a
\* shutdown, a hook or a drain.
ServeFails ==
  /\ phase = "serving"
  /\ phase' = "closing" /\ cut' = "failed"
  /\ UNCHANGED <<stream, chan, subs, closed, hook, due, lossy>>

\* Broadcaster.Close.
CloseFeed ==
  /\ hook
  /\ closed' = TRUE /\ hook' = FALSE
  /\ subs' = {}
  /\ chan' = [s \in Streams |-> [chan[s] EXCEPT !.open = FALSE]]
  /\ UNCHANGED <<stream, phase, cut, due, lossy>>

Handling == {s \in Streams : stream[s] # "idle"} \cup (Underway \ Detached)

\* Mutant of Drained: the streams are waited for, the requests at work are not.
DrainedStreams ==
  /\ phase = "draining" /\ \A s \in Streams : stream[s] = "idle"
  /\ phase' = "closing"
  /\ UNCHANGED <<stream, chan, subs, closed, hook, cut, due, lossy>>

\* Shutdown returns once no handler runs.
Drained ==
  /\ phase = "draining" /\ Handling = {}
  /\ phase' = "closing"
  /\ UNCHANGED <<stream, chan, subs, closed, hook, cut, due, lossy>>

\* The drain deadline: connections are closed under their handlers.
Deadline ==
  /\ phase = "draining"
  /\ phase' = "closing" /\ cut' = "deadline"
  /\ UNCHANGED <<stream, chan, subs, closed, hook, due, lossy>>

\* Store.Close has cancelled the prune and the loop sees it.
EndPrune ==
  /\ phase = "closing" /\ prune = "wait"
  /\ prune' = "ended"
  /\ UNCHANGED <<now, tableVars, conn, work, rec, walk, booked, feedVars>>

\* The closers run last-in first-out: the store, which waits for its loop,
\* then the cache, then the database.  A transaction that has the connection
\* keeps it.
CloseDB ==
  /\ phase = "closing" /\ prune = "ended"
  /\ phase' = "closed"
  /\ UNCHANGED <<stream, chan, subs, closed, hook, cut, due, lossy>>

----------------------------------------------------------------------------

\* A new request, and a statement, take a process that serves and a database
\* that is open; a record that finds it closed fails and is published.
LogNext ==
  \/ \E r \in Recorders :
       \/ Taking /\ Accept(r)
       \/ Unrecorded(r) \/ \E k \in Kinds : Outcome(r, k)
       \/ WriteStep(r) /\ (phase = "closed" => conn = r \/ rec'[r].at = "publish")
  \/ PruneStep
  \/ Taking /\ phase # "closed" /\ WalkStep
  \/ Tick

FeedNext ==
  \/ \E s \in Streams : Connect(s) \/ Subscribe(s) \/ Deliver(s) \/ StreamEnds(s) \/ Leave(s)
  \/ Stop \/ ServeFails \/ CloseFeed \/ Drained \/ Deadline \/ CloseDB

PublishNext ==
  /\ \E r \in Recorders : Publish(r)
  /\ UNCHANGED <<now, tableVars, conn, work, prune, walk, booked>>

Init == LogInit /\ FeedInit

Next ==
  \/ LogNext /\ UNCHANGED feedVars
  \/ FeedNext /\ UNCHANGED logVars
  \/ PublishNext
  \/ EndPrune

\* Goroutines run; a write that stalls misses its deadline.  That a request's work
\* ends, the drain deadline passes or a client leaves is not counted on.
RecorderRuns(r) ==
  \/ WriteStep(r) /\ UNCHANGED feedVars
  \/ Publish(r) /\ UNCHANGED <<now, tableVars, conn, work, prune, walk, booked>>

StreamRuns(s) == (Subscribe(s) \/ Deliver(s) \/ StreamEnds(s)) /\ UNCHANGED logVars

Fairness ==
  /\ \A r \in Recorders : WF_vars(RecorderRuns(r))
  /\ \A s \in Streams : WF_vars(StreamRuns(s))
  /\ WF_vars((CloseFeed \/ Drained \/ CloseDB) /\ UNCHANGED logVars)
  /\ WF_vars((PruneEvents \/ PruneDays \/ PruneFails) /\ UNCHANGED feedVars)
  /\ SF_vars(EndPrune)

Spec == Init /\ [][Next]_vars /\ Fairness

----------------------------------------------------------------------------
(* Properties. *)

\* Types, and no channel in the map is closed: sending on it, or closing it
\* again, would panic.
TypeOK ==
  /\ LogTypeOK
  /\ stream \in [Streams -> {"idle", "asked", "open"}]
  /\ phase \in {"serving", "draining", "closing", "closed"}
  /\ \A s \in Streams : Len(chan[s].buf) <= Buffer
  /\ \A s \in subs : chan[s].open /\ stream[s] = "open"

\* A subscriber that always had room has been sent every event published since
\* it subscribed: only the slow one loses events (Publish).
FeedComplete == \A s \in subs \ lossy : chan[s].buf = due[s]

\* The closers run when no handler is left, whether it streams, fetches, fills the
\* cache or records, unless the drain deadline passed or the main server failed;
\* and the database is closed after the prune loop has ended (run, app.close).
OrderlyClose ==
  /\ phase \in {"closing", "closed"} => cut # "none" \/ Handling = {}
  /\ phase = "closed" => prune = "ended"

\* A request whose work goes on holds the drain.
HeldUp == phase = "draining" /\ Busy \ Detached # {}

\* Open console tabs do not hold the shutdown until its deadline, not even one
\* that connected just before it: their streams end, and the process ends, unless
\* it drains a request that goes on for ever.
ShutdownEnds == <>[]HeldUp \/ (phase \in {"draining", "closing"} ~> phase = "closed")
=============================================================================
