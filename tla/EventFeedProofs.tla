-------------------------- MODULE EventFeedProofs --------------------------
(***************************************************************************)
(* The event log, its tallies, its pages and the live feed, proved for any *)
(* number of recorders, streams and events, any retention and page size.   *)
(*                                                                         *)
(* Recording says who holds the connection, Viewing what its transaction  *)
(* sees; Tables that log, counters and days are what was booked; Paging    *)
(* where a reader is and that what it is owed lies ahead; Feeding what a   *)
(* stream's channel holds; Ending what is over when the database closes.   *)
(***************************************************************************)
EXTENDS EventFeed, FiniteSetTheorems, SequenceTheorems, TLAPS

Event   == [ts : Days, kind : Kinds]
Working == {"insert", "count", "day", "commit"}
Stages  == {"begin", "publish"} \cup Working
AtWork  == [at |-> "busy"]
Records == {Resting, AtWork} \cup [at : Stages, ev : Event]

-----------------------------------------------------------------------------
(* Recorders and the connection *)

Recording ==
  /\ now \in Days
  /\ rec \in [Recorders -> Records]
  /\ conn \in Recorders \cup {Nobody}
  /\ \A r \in Recorders : rec[r].at \in Working <=> conn = r

LEMMA StageOf ==
  ASSUME Recording, NEW r \in Recorders
  PROVE  /\ rec[r] = Resting <=> rec[r].at = "idle"
         /\ rec[r].at \notin {"idle", "busy"} =>
              rec[r] \in [at : Stages, ev : Event] /\ rec[r].at \in Stages /\ rec[r].ev \in Event
<1>1. rec[r] \in Records
  BY DEF Recording
<1>2. Resting.at = "idle" /\ AtWork.at = "busy" /\ "idle" \notin Stages /\ "busy" # "idle"
  BY DEF Resting, AtWork, Stages, Working
<1> QED
  BY <1>1, <1>2 DEF Records

LEMMA RecordingSame ==
  ASSUME Recording, UNCHANGED <<rec, conn>>, now' \in Days PROVE Recording'
BY DEF Recording

\* A recorder goes to stage l.
LEMMA Advance ==
  ASSUME Recording, NEW r \in Recorders, rec[r].at \notin {"idle", "busy"}, NEW l \in Stages
  PROVE  /\ [rec EXCEPT ![r].at = l] = [rec EXCEPT ![r] = [at |-> l, ev |-> rec[r].ev]]
         /\ [at |-> l, ev |-> rec[r].ev] \in [at : Stages, ev : Event]
<1>1. rec[r] \in [at : Stages, ev : Event]
  BY StageOf
<1>2. [rec[r] EXCEPT !.at = l] = [at |-> l, ev |-> rec[r].ev]
  BY <1>1
<1> QED
  BY <1>1, <1>2

LEMMA RecordingMove ==
  ASSUME Recording, NEW r \in Recorders, NEW s \in Records,
         rec' = [rec EXCEPT ![r] = s], UNCHANGED now,
         s.at \in Working => conn \in {r, Nobody} /\ conn' = r,
         s.at \notin Working => conn' = IF conn = r THEN Nobody ELSE conn
  PROVE  Recording'
<1>1. rec'[r] = s /\ \A q \in Recorders : q # r => rec'[q] = rec[q]
  BY DEF Recording
<1>2. rec' \in [Recorders -> Records] /\ now' \in Days
  BY DEF Recording
<1>3. Nobody \notin Recorders
  BY LogAssumption
<1>4. conn' \in Recorders \cup {Nobody}
  BY DEF Recording
<1>5. \A q \in Recorders : rec'[q].at \in Working <=> conn' = q
  BY <1>1, <1>3 DEF Recording
<1> QED
  BY <1>2, <1>4, <1>5 DEF Recording

\* What a recorder's step does to rec.
Steps(r) ==
  \E s \in Records : rec' = [rec EXCEPT ![r] = s]

LEMMA RecordingStep ==
  ASSUME Recording, NEW r \in Recorders,
         \/ Accept(r) \/ Unrecorded(r) \/ \E k \in Kinds : Outcome(r, k)
         \/ WriteStep(r)
         \/ Publish(r) /\ UNCHANGED <<now, conn>>
  PROVE  Recording' /\ Steps(r)
<1> USE DEF Stages, Working, Records
<1>0. (rec[r].at \in Working <=> conn = r) /\ Nobody \notin Recorders
  BY LogAssumption DEF Recording
<1>1. ASSUME NEW k \in Kinds, Outcome(r, k) PROVE Recording' /\ Steps(r)
  <2>1. now \in Days /\ rec[r].at = "busy"
    BY <1>1 DEF Recording, Outcome
  <2>2. [ts |-> now, kind |-> k] \in Event
    BY <2>1 DEF Event
  <2>3. PICK s \in [at : Stages, ev : Event] : s = [at |-> "begin", ev |-> [ts |-> now, kind |-> k]]
    BY <2>2
  <2>4. rec' = [rec EXCEPT ![r] = s] /\ s.at = "begin" /\ conn' = conn /\ now' = now
    BY <1>1, <2>3 DEF Outcome
  <2>5. conn # r
    BY <1>0, <2>1
  <2> QED
    BY <2>4, <2>5, RecordingMove DEF Steps
<1>2. ASSUME NEW l \in Stages, rec[r].at \notin {"idle", "busy"}, rec' = [rec EXCEPT ![r].at = l], UNCHANGED now,
             l \in Working => conn \in {r, Nobody} /\ conn' = r,
             l \notin Working => conn' = IF conn = r THEN Nobody ELSE conn
      PROVE  Recording' /\ Steps(r)
  <2>1. PICK s \in [at : Stages, ev : Event] : s = [at |-> l, ev |-> rec[r].ev]
    BY <1>2, Advance
  <2>2. rec' = [rec EXCEPT ![r] = s] /\ s.at = l
    BY <1>2, <2>1, Advance
  <2> QED
    BY <1>2, <2>2, RecordingMove DEF Steps
<1>3. CASE Begin(r)
  BY <1>2, <1>3 DEF Begin
<1>4. CASE BeginFails(r)
  BY <1>0, <1>2, <1>4 DEF BeginFails
<1>5. CASE Insert(r) \/ Count(r) \/ CountDay(r)
  <2>1. conn = r /\ conn' = conn /\ now' = now
    BY <1>0, <1>5 DEF Insert, Count, CountDay
  <2>2. rec[r].at \notin {"idle", "busy"} /\ \E l \in {"count", "day", "commit"} : rec' = [rec EXCEPT ![r].at = l]
    BY <1>5 DEF Insert, Count, CountDay
  <2> QED
    BY <1>2, <2>1, <2>2
<1>6. CASE Commit(r) \/ Abort(r)
  <2>1. conn = r /\ conn' = Nobody /\ now' = now /\ rec[r].at \notin {"idle", "busy"}
    BY <1>0, <1>6 DEF Commit, Abort, Release
  <2>2. rec' = [rec EXCEPT ![r] = [at |-> "publish", ev |-> rec[r].ev]]
    BY <1>6 DEF Commit, Abort, Release
  <2>3. PICK s \in [at : Stages, ev : Event] : s = [at |-> "publish", ev |-> rec[r].ev]
    BY <2>1, Advance
  <2>4. s.at = "publish"
    BY <2>3
  <2> QED
    BY <2>1, <2>2, <2>3, <2>4, RecordingMove DEF Steps
<1>7. CASE Publish(r) /\ UNCHANGED <<now, conn>>
  <2>1. rec' = [rec EXCEPT ![r] = Resting] /\ Resting.at = "idle" /\ conn # r
    BY <1>0, <1>7 DEF Publish, Resting
  <2> QED
    BY <1>7, <2>1, RecordingMove DEF Steps
<1>8. CASE Accept(r) \/ Unrecorded(r)
  <2>1. PICK s \in {Resting, AtWork} : rec' = [rec EXCEPT ![r] = s]
    BY <1>8 DEF Accept, Unrecorded, AtWork
  <2>2. conn' = conn /\ now' = now /\ rec[r].at \notin Working
    BY <1>8 DEF Accept, Unrecorded, Resting
  <2>3. s.at \notin Working
    BY <2>1 DEF Resting, AtWork
  <2> QED
    BY <1>0, <2>1, <2>2, <2>3, RecordingMove DEF Steps
<1> QED
  BY <1>1, <1>3, <1>4, <1>5, <1>6, <1>7, <1>8 DEF WriteStep
-----------------------------------------------------------------------------
(* The feed *)

Channel == [open : BOOLEAN, buf : Seq(Event)]

FeedType ==
  /\ stream \in [Streams -> {"idle", "asked", "open"}]
  /\ chan \in [Streams -> Channel]
  /\ due \in [Streams -> Seq(Event)]
  /\ subs \subseteq Streams
  /\ closed \in BOOLEAN

\* What is true of each stream: its channel is within its buffer, and that of a
\* subscriber is open and, if it never was full, holds all that is due.
Fed(s) ==
  /\ Len(chan[s].buf) <= Buffer
  /\ s \in subs => chan[s].open /\ stream[s] = "open"
  /\ s \in subs \ lossy => chan[s].buf = due[s]

Feeding == FeedType /\ \A s \in Streams : Fed(s)

LEMMA NewBuffer ==
  \A c \in Channel, b \in Seq(Event) :
    /\ [c EXCEPT !.buf = b] \in Channel /\ [c EXCEPT !.buf = b].buf = b
    /\ [c EXCEPT !.buf = b].open = c.open
BY DEF Channel

LEMMA FeedingSame == ASSUME Feeding, UNCHANGED <<stream, chan, due, subs, closed, lossy>> PROVE Feeding'
BY DEF Feeding, FeedType, Fed

\* A step of stream s leaves the others alone.
LEMMA FeedingOne ==
  ASSUME Feeding, NEW s \in Streams, NEW l \in {"idle", "asked", "open"}, NEW c \in Channel, NEW d \in Seq(Event),
         stream' = [stream EXCEPT ![s] = l], chan' = [chan EXCEPT ![s] = c], due' = [due EXCEPT ![s] = d],
         subs' \subseteq subs \cup {s}, subs' \ (lossy' \cup {s}) \subseteq subs \ lossy, closed' = closed,
         Len(c.buf) <= Buffer,
         s \in subs' => c.open /\ l = "open",
         s \in subs' \ lossy' => c.buf = d
  PROVE  Feeding'
<1>1. FeedType'
  BY DEF Feeding, FeedType
<1>2. stream'[s] = l /\ chan'[s] = c /\ due'[s] = d
  BY DEF Feeding, FeedType
<1>3. \A t \in Streams : t # s => stream'[t] = stream[t] /\ chan'[t] = chan[t] /\ due'[t] = due[t]
  BY DEF Feeding, FeedType
<1>4. Fed(s)'
  BY <1>2 DEF Fed
<1>5. ASSUME NEW t \in Streams, t # s PROVE Fed(t)'
  BY <1>3, <1>5 DEF Fed, Feeding
<1> QED
  BY <1>1, <1>4, <1>5 DEF Feeding

LEMMA FeedingStream ==
  ASSUME Feeding, NEW s \in Streams,
         Connect(s) \/ Subscribe(s) \/ Deliver(s) \/ StreamEnds(s) \/ Leave(s)
  PROVE  Feeding'
<1>0. /\ stream \in [Streams -> {"idle", "asked", "open"}] /\ chan \in [Streams -> Channel]
      /\ due \in [Streams -> Seq(Event)] /\ subs \subseteq Streams /\ closed \in BOOLEAN
      /\ Fed(s)
  BY DEF Feeding, FeedType
<1>1. <<>> \in Seq(Event) /\ Len(<<>>) = 0 /\ Buffer \in Nat
  BY EmptySeq, FeedAssumption
<1>2. NoChan \in Channel /\ NoChan.buf = <<>> /\ NoChan.open = FALSE
  BY <1>1 DEF NoChan, Channel
<1>3. \A o \in BOOLEAN : /\ [open |-> o, buf |-> <<>>] \in Channel
                         /\ [open |-> o, buf |-> <<>>].buf = <<>> /\ [open |-> o, buf |-> <<>>].open = o
  BY <1>1 DEF Channel
<1>4. /\ stream = [stream EXCEPT ![s] = stream[s]] /\ chan = [chan EXCEPT ![s] = chan[s]]
      /\ due = [due EXCEPT ![s] = due[s]]
      /\ stream[s] \in {"idle", "asked", "open"} /\ chan[s] \in Channel /\ due[s] \in Seq(Event)
  BY <1>0
<1>5. CASE Connect(s)
  <2>1. stream[s] = "idle" /\ stream' = [stream EXCEPT ![s] = "asked"] /\ UNCHANGED <<chan, due, subs, closed, lossy>>
    BY <1>5 DEF Connect
  <2>2. s \notin subs
    BY <1>0, <2>1 DEF Fed
  <2>3. Len(chan[s].buf) <= Buffer
    BY <1>0 DEF Fed
  <2> QED
    BY <1>4, <2>1, <2>2, <2>3, FeedingOne
<1>6. CASE Subscribe(s)
  <2>1. PICK c \in Channel : c = [open |-> ~closed, buf |-> <<>>] /\ c.buf = <<>> /\ c.open = ~closed
    BY <1>0, <1>3
  <2>2. /\ stream' = [stream EXCEPT ![s] = "open"] /\ chan' = [chan EXCEPT ![s] = c]
        /\ due' = [due EXCEPT ![s] = <<>>] /\ lossy' = lossy \ {s} /\ closed' = closed
        /\ subs' = IF closed THEN subs ELSE subs \cup {s}
    BY <1>6, <2>1 DEF Subscribe
  <2>3. s \notin subs
    BY <1>0, <1>6 DEF Fed, Subscribe
  <2>4. s \in subs' => c.open
    BY <2>1, <2>2, <2>3
  <2>5. Len(c.buf) <= Buffer
    BY <1>1, <2>1
  <2> QED
    BY <1>1, <2>1, <2>2, <2>4, <2>5, FeedingOne
<1>7. CASE Deliver(s)
  <2>1. chan[s] \in Channel /\ chan[s].buf \in Seq(Event) /\ chan[s].buf # <<>> /\ stream[s] = "open"
    BY <1>4, <1>7 DEF Deliver, Channel
  <2>2. Tail(chan[s].buf) \in Seq(Event) /\ Len(Tail(chan[s].buf)) = Len(chan[s].buf) - 1 /\ Len(chan[s].buf) \in Nat
    BY <2>1, HeadTailProperties, LenProperties
  <2>3. PICK b \in Seq(Event) : b = Tail(chan[s].buf)
    BY <2>2
  <2>4. PICK c \in Channel : c = [chan[s] EXCEPT !.buf = b] /\ c.buf = b /\ c.open = chan[s].open
    BY <2>1, NewBuffer
  <2>5. PICK d \in Seq(Event) : d = (IF due[s] = <<>> THEN due[s] ELSE Tail(due[s]))
    BY <1>4, HeadTailProperties
  <2>6. /\ stream' = [stream EXCEPT ![s] = stream[s]] /\ chan' = [chan EXCEPT ![s] = c]
        /\ due' = [due EXCEPT ![s] = d] /\ UNCHANGED <<subs, closed, lossy>>
    BY <1>4, <1>7, <2>3, <2>4, <2>5 DEF Deliver
  <2>7. Len(c.buf) <= Buffer
    BY <1>0, <1>1, <2>2, <2>3, <2>4 DEF Fed
  <2>8. s \in subs \ lossy => c.buf = d
    BY <1>0, <2>1, <2>3, <2>4, <2>5 DEF Fed
  <2>9. s \in subs => c.open /\ stream[s] = "open"
    BY <1>0, <2>4 DEF Fed
  <2> QED
    BY <1>4, <2>6, <2>7, <2>8, <2>9, FeedingOne
<1>8. CASE StreamEnds(s)
  <2>1. chan[s] = NoChan /\ stream' = [stream EXCEPT ![s] = "idle"] /\ UNCHANGED <<chan, due, subs, closed, lossy>>
    BY <1>8 DEF StreamEnds
  <2>2. s \notin subs
    BY <1>0, <1>2, <2>1 DEF Fed
  <2>3. Len(chan[s].buf) <= Buffer
    BY <1>0 DEF Fed
  <2> QED
    BY <1>4, <2>1, <2>2, <2>3, FeedingOne
<1>9. CASE Leave(s)
  <2>1. /\ stream' = [stream EXCEPT ![s] = "idle"] /\ chan' = [chan EXCEPT ![s] = NoChan]
        /\ due' = [due EXCEPT ![s] = <<>>] /\ lossy' = lossy \ {s} /\ subs' = subs \ {s} /\ closed' = closed
    BY <1>9 DEF Leave
  <2>2. Len(NoChan.buf) <= Buffer
    BY <1>1, <1>2
  <2> QED
    BY <1>1, <1>2, <2>1, <2>2, FeedingOne
<1> QED
  BY <1>5, <1>6, <1>7, <1>8, <1>9

\* One publication reaches every stream with room.
LEMMA FeedingPublish == ASSUME Feeding, Recording, NEW r \in Recorders, Publish(r) PROVE Feeding'
<1>1. PICK e \in Event : e = rec[r].ev
  <2>1. rec[r].at = "publish"
    BY DEF Publish
  <2> QED
    BY <2>1, StageOf
<1>2. /\ stream' = stream /\ subs' = subs /\ closed' = closed
      /\ lossy' = lossy \cup {s \in subs : ~Roomy(s)}
      /\ chan' = [s \in Streams |->
           IF s \in subs /\ Roomy(s) THEN [chan[s] EXCEPT !.buf = Append(@, e)] ELSE chan[s]]
      /\ due' = [s \in Streams |->
           IF s \in subs /\ s \notin lossy /\ Roomy(s) THEN Append(due[s], e) ELSE due[s]]
  BY <1>1 DEF Publish
<1>3. ASSUME NEW s \in Streams
      PROVE  chan'[s] \in Channel /\ due'[s] \in Seq(Event) /\ Fed(s)'
  <2>1. chan[s] \in Channel /\ chan[s].buf \in Seq(Event) /\ due[s] \in Seq(Event) /\ Fed(s)
    BY DEF Feeding, FeedType, Channel
  <2>2. CASE s \in subs /\ Roomy(s)
    <3>1. PICK b \in Seq(Event) : b = Append(chan[s].buf, e) /\ Len(b) = Len(chan[s].buf) + 1
      BY <2>1, AppendProperties
    <3>2. PICK c \in Channel : c = [chan[s] EXCEPT !.buf = b] /\ c.buf = b /\ c.open = chan[s].open
      BY <2>1, NewBuffer
    <3>3. chan'[s] = c
      BY <1>2, <2>2, <3>1, <3>2
    <3>4. Len(chan[s].buf) \in Nat /\ Len(chan[s].buf) < Buffer /\ Buffer \in Nat
      BY <2>1, <2>2, LenProperties, FeedAssumption DEF Roomy
    <3>5. Len(c.buf) <= Buffer
      BY <3>1, <3>2, <3>4
    <3>6. due'[s] \in Seq(Event) /\ (s \notin lossy => due'[s] = Append(due[s], e))
      BY <1>2, <2>1, <2>2, AppendProperties
    <3>7. s \notin lossy => due'[s] = b
      BY <2>1, <2>2, <3>1, <3>6 DEF Fed
    <3>8. s \in subs' => chan'[s].open /\ stream'[s] = "open"
      BY <1>2, <2>1, <3>2, <3>3 DEF Fed
    <3> QED
      BY <1>2, <3>2, <3>3, <3>5, <3>6, <3>7, <3>8 DEF Fed
  <2>3. CASE ~(s \in subs /\ Roomy(s))
    <3>1. chan'[s] = chan[s] /\ due'[s] = due[s]
      BY <1>2, <2>3
    <3>2. s \in subs' \ lossy' => s \in subs \ lossy
      BY <1>2
    <3>3. s \in subs => s \in lossy'
      BY <1>2, <2>3
    <3> QED
      BY <1>2, <2>1, <3>1, <3>2, <3>3 DEF Fed
  <2> QED
    BY <2>2, <2>3
<1>4. chan' \in [Streams -> Channel] /\ due' \in [Streams -> Seq(Event)]
  BY <1>2, <1>3
<1> QED
  BY <1>2, <1>3, <1>4 DEF Feeding, FeedType

LEMMA FeedingClose == ASSUME Feeding, CloseFeed PROVE Feeding'
<1>1. ASSUME NEW s \in Streams PROVE chan'[s] \in Channel /\ chan'[s].buf = chan[s].buf
  <2>1. chan[s] \in Channel
    BY DEF Feeding, FeedType
  <2>2. [chan[s] EXCEPT !.open = FALSE] \in Channel /\ [chan[s] EXCEPT !.open = FALSE].buf = chan[s].buf
    BY <2>1 DEF Channel
  <2> QED
    BY <2>2 DEF CloseFeed
<1>2. chan' \in [Streams -> Channel]
  BY <1>1 DEF CloseFeed
<1>3. subs' = {} /\ UNCHANGED <<stream, due, lossy>> /\ closed' = TRUE
  BY DEF CloseFeed
<1>4. \A s \in Streams : Fed(s)'
  BY <1>1, <1>3 DEF Feeding, Fed
<1> QED
  BY <1>2, <1>3, <1>4 DEF Feeding, FeedType
-----------------------------------------------------------------------------
(* The end of the process *)

Phases == {"serving", "draining", "closing", "closed"}

\* Nothing new starts once the listeners are closed, unless the server failed, so
\* what Drained saw holds.
Ending ==
  /\ phase \in Phases
  /\ prune \in {"wait", "events", "days", "ended"}
  /\ phase \in {"closing", "closed"} => cut # "none" \/ Handling = {}
  /\ phase = "closed" => prune = "ended"

LEMMA EndingSame ==
  ASSUME Ending, UNCHANGED <<phase, cut>>, prune' \in {"wait", "events", "days", "ended"},
         prune = "ended" => prune' = "ended", Handling' \subseteq Handling
  PROVE  Ending'
BY DEF Ending

\* A recorder that goes on was under way.
LEMMA HandlingSteps ==
  ASSUME Recording, NEW r \in Recorders, rec[r].at # "idle", Steps(r), UNCHANGED stream
  PROVE  Handling' \subseteq Handling
<1>1. \A q \in Recorders : q # r => rec'[q] = rec[q]
  BY DEF Steps, Recording
<1>2. rec[r] # Resting
  BY StageOf
<1> QED
  BY <1>1, <1>2 DEF Handling, Underway

LEMMA EndingNext == ASSUME Recording, Feeding, Ending, [Next]_vars PROVE Ending'
<1> USE DEF Phases
<1>1. CASE LogNext /\ UNCHANGED feedVars
  <2>0. UNCHANGED <<phase, cut, stream>>
    BY <1>1 DEF feedVars
  <2>1. ASSUME NEW r \in Recorders, Taking, Accept(r) PROVE Ending'
    BY <2>0, <2>1 DEF Taking, Accept, Ending
  <2>2. ASSUME NEW r \in Recorders, Unrecorded(r) \/ (\E k \in Kinds : Outcome(r, k)) \/ WriteStep(r) PROVE Ending'
    <3>1. rec[r].at # "idle" /\ prune' = prune
      BY <2>2 DEF Unrecorded, Outcome, WriteStep, Begin, BeginFails, Insert, Count, CountDay, Commit, Abort
    <3>2. Handling' \subseteq Handling
      BY <2>0, <2>2, <3>1, RecordingStep, HandlingSteps
    <3> QED
      BY <2>0, <3>1, <3>2, EndingSame DEF Ending
  <2>3. CASE PruneStep
    <3>1. rec' = rec /\ prune # "ended" /\ prune' \in {"wait", "events", "days"}
      BY <2>3 DEF PruneStep, Wake, PruneEvents, PruneDays, PruneFails
    <3>2. Handling' = Handling
      BY <2>0, <3>1 DEF Handling, Underway
    <3> QED
      BY <2>0, <3>1, <3>2, EndingSame
  <2>4. CASE WalkStep \/ Tick
    <3>1. rec' = rec /\ prune' = prune
      BY <2>4 DEF WalkStep, StartWalk, NextPage, EndWalk, Tick
    <3>2. Handling' = Handling
      BY <2>0, <3>1 DEF Handling, Underway
    <3> QED
      BY <2>0, <3>1, <3>2, EndingSame DEF Ending
  <2> QED
    BY <1>1, <2>1, <2>2, <2>3, <2>4 DEF LogNext
<1>2. CASE FeedNext /\ UNCHANGED logVars
  <2>0. prune' = prune /\ rec' = rec /\ conn' = conn
    BY <1>2 DEF logVars
  <2>1. ASSUME NEW s \in Streams, Connect(s) PROVE Ending'
    BY <2>0, <2>1 DEF Connect, Taking, Ending
  <2>2. ASSUME NEW s \in Streams, Subscribe(s) \/ Deliver(s) \/ StreamEnds(s) \/ Leave(s) PROVE Ending'
    <3>1. stream[s] # "idle" /\ (\E l : stream' = [stream EXCEPT ![s] = l]) /\ UNCHANGED <<phase, cut>>
      <4>1. stream = [stream EXCEPT ![s] = stream[s]]
        BY DEF Feeding, FeedType
      <4> QED
        BY <2>2, <4>1 DEF Subscribe, Deliver, StreamEnds, Leave
    <3>2. \A t \in Streams : t # s => stream'[t] = stream[t]
      BY <3>1 DEF Feeding, FeedType
    <3>3. Handling' \subseteq Handling
      BY <2>0, <3>1, <3>2 DEF Handling, Underway
    <3> QED
      BY <2>0, <3>1, <3>3, EndingSame DEF Ending
  <2>3. CASE Stop
    BY <2>0, <2>3 DEF Stop, Ending
  <2>4. CASE CloseFeed
    <3>1. Handling' = Handling /\ UNCHANGED <<phase, cut>>
      BY <2>0, <2>4 DEF CloseFeed, Handling, Underway
    <3> QED
      BY <2>0, <3>1, EndingSame DEF Ending
  <2>5. CASE ServeFails \/ Drained \/ Deadline \/ CloseDB
    <3>1. Handling' = Handling
      BY <2>0, <2>5 DEF ServeFails, Drained, Deadline, CloseDB, Handling, Underway
    <3> QED
      BY <2>0, <2>5, <3>1 DEF ServeFails, Drained, Deadline, CloseDB, Ending
  <2> QED
    BY <1>2, <2>1, <2>2, <2>3, <2>4, <2>5 DEF FeedNext
<1>3. CASE PublishNext
  <2>1. PICK r \in Recorders : Publish(r)
    BY <1>3 DEF PublishNext
  <2>2. UNCHANGED <<now, conn, prune, phase, cut, stream>> /\ rec[r].at = "publish"
    BY <1>3, <2>1 DEF PublishNext, Publish
  <2>3. Handling' \subseteq Handling
    BY <2>1, <2>2, RecordingStep, HandlingSteps
  <2> QED
    BY <2>2, <2>3, EndingSame DEF Ending
<1>4. CASE EndPrune \/ UNCHANGED vars
  <2>1. UNCHANGED <<rec, stream, phase, cut>> /\ prune' \in {prune, "ended"}
    BY <1>4 DEF EndPrune, vars, logVars, feedVars
  <2>2. Handling' = Handling
    BY <2>1 DEF Handling, Underway
  <2> QED
    BY <2>1, <2>2, EndingSame DEF Ending
<1> QED
  BY <1>1, <1>2, <1>3, <1>4 DEF Next
-----------------------------------------------------------------------------
(* The tables, and what an open transaction sees of them *)

On(d)          == {i \in DOMAIN booked : booked[i].ts = d}
DayCount(d, t) == IF d \in DOMAIN daily THEN daily[d][t] ELSE 0

LogTable ==
  /\ booked \in Seq(Event)
  /\ DOMAIN log \subseteq 1 .. Len(booked)
  /\ log = [i \in DOMAIN log |-> booked[i]]

CounterTable == counters = [t \in Tally |-> Booked(t, DOMAIN booked)]

\* Rows older than the retention may be gone, and come back with a late event.
DayTable ==
  /\ DOMAIN daily \subseteq Days
  /\ daily = [d \in DOMAIN daily |-> daily[d]]
  /\ \A t \in Tally, d \in Int : d >= now - MetricDays => DayCount(d, t) = Booked(t, On(d))

Tables == LogTable /\ CounterTable /\ DayTable

LogWith(ev) == [i \in DOMAIN log \cup {NextId} |-> IF i = NextId THEN ev ELSE log[i]]
DayRow(d)   == IF d \in DOMAIN daily THEN daily[d] ELSE Empty
DaysWith(ev) ==
  [d \in DOMAIN daily \cup {ev.ts} |-> IF d = ev.ts THEN Plus(DayRow(ev.ts), ev.kind) ELSE daily[d]]

\* The transaction's statements so far, over the tables as they are.
View(at, ev) ==
  [log      |-> IF at = "insert" THEN log ELSE LogWith(ev),
   counters |-> IF at \in {"insert", "count"} THEN counters ELSE Plus(counters, ev.kind),
   daily    |-> IF at = "commit" THEN DaysWith(ev) ELSE daily]

Viewing == \A r \in Recorders : rec[r].at \in Working => work = View(rec[r].at, rec[r].ev)

LEMMA BookedNat ==
  ASSUME booked \in Seq(Event), NEW t, NEW S \in SUBSET (DOMAIN booked)
  PROVE  Booked(t, S) \in Nat
<1>1. IsFiniteSet(1 .. Len(booked)) /\ DOMAIN booked = 1 .. Len(booked)
  BY FS_Interval, LenProperties
<1>2. IsFiniteSet({i \in S : t \in Raised(booked[i].kind)})
  BY <1>1, FS_Subset
<1> QED
  BY <1>2, FS_CardinalityType DEF Booked

LEMMA OneMore ==
  ASSUME NEW n \in Nat, NEW A \in SUBSET (1 .. n)
  PROVE  Cardinality(A \cup {n + 1}) = Cardinality(A) + 1
<1>1. IsFiniteSet(1 .. n)
  BY FS_Interval
<1>2. IsFiniteSet(A)
  BY <1>1, FS_Subset
<1>3. n + 1 \notin A
  OBVIOUS
<1> QED
  BY <1>2, <1>3, FS_AddElement

\* An event more is one more in the tallies it raises, of its own day alone.
LEMMA BookedAppend ==
  ASSUME booked \in Seq(Event), NEW e \in Event, booked' = Append(booked, e), NEW t
  PROVE  /\ Booked(t, DOMAIN booked)' = Booked(t, DOMAIN booked) + (IF t \in Raised(e.kind) THEN 1 ELSE 0)
         /\ \A d : Booked(t, On(d))' = Booked(t, On(d)) + (IF d = e.ts /\ t \in Raised(e.kind) THEN 1 ELSE 0)
<1>1. PICK n \in Nat : n = Len(booked) /\ DOMAIN booked = 1 .. n
  BY LenProperties
<1>2. /\ DOMAIN booked' = 1 .. (n + 1) /\ booked'[n + 1] = e
      /\ \A i \in 1 .. n : booked'[i] = booked[i]
  BY <1>1, AppendProperties, LenProperties
<1>3. ASSUME NEW A \in SUBSET (1 .. n), NEW B, B = A \/ B = A \cup {n + 1}
      PROVE  Cardinality(B) = Cardinality(A) + (IF B = A THEN 0 ELSE 1)
  <2>1. CASE B = A
    <3>1. IsFiniteSet(1 .. n)
      BY FS_Interval
    <3>2. Cardinality(A) \in Nat
      BY <3>1, FS_Subset, FS_CardinalityType
    <3> QED
      BY <2>1, <3>2
  <2>2. CASE B # A
    BY <1>3, <2>2, OneMore
  <2> QED
    BY <2>1, <2>2
<1>4. Booked(t, DOMAIN booked)' = Booked(t, DOMAIN booked) + (IF t \in Raised(e.kind) THEN 1 ELSE 0)
  <2>1. PICK A \in SUBSET (1 .. n) : A = {i \in 1 .. n : t \in Raised(booked[i].kind)}
    OBVIOUS
  <2>2. PICK B : B = {i \in 1 .. (n + 1) : t \in Raised(booked'[i].kind)}
    OBVIOUS
  <2>3. B = IF t \in Raised(e.kind) THEN A \cup {n + 1} ELSE A
    BY <1>2, <2>1, <2>2
  <2>4. n + 1 \notin A
    OBVIOUS
  <2>5. Cardinality(B) = Cardinality(A) + (IF t \in Raised(e.kind) THEN 1 ELSE 0)
    BY <1>3, <2>3, <2>4
  <2> QED
    BY <1>1, <1>2, <2>1, <2>2, <2>5 DEF Booked
<1>5. ASSUME NEW d
      PROVE  Booked(t, On(d))' = Booked(t, On(d)) + (IF d = e.ts /\ t \in Raised(e.kind) THEN 1 ELSE 0)
  <2>1. PICK A \in SUBSET (1 .. n) : A = {i \in On(d) : t \in Raised(booked[i].kind)}
    BY <1>1 DEF On
  <2>2. PICK B : B = {i \in On(d)' : t \in Raised(booked'[i].kind)}
    OBVIOUS
  <2>3. B = IF d = e.ts /\ t \in Raised(e.kind) THEN A \cup {n + 1} ELSE A
    BY <1>1, <1>2, <2>1, <2>2 DEF On
  <2>4. n + 1 \notin A
    OBVIOUS
  <2>5. Cardinality(B) = Cardinality(A) + (IF d = e.ts /\ t \in Raised(e.kind) THEN 1 ELSE 0)
    BY <1>3, <2>3, <2>4
  <2> QED
    BY <2>1, <2>2, <2>5 DEF Booked
<1> QED
  BY <1>4, <1>5

LEMMA TablesSame ==
  ASSUME Tables, UNCHANGED <<tableVars, booked>>, now \in Days, now' \in Days, now <= now'
  PROVE  Tables'
<1>1. LogTable' /\ CounterTable'
  BY DEF Tables, LogTable, CounterTable, Booked, tableVars
<1>2. \A t, d : Booked(t, On(d))' = Booked(t, On(d)) /\ DayCount(d, t)' = DayCount(d, t)
  BY DEF Booked, On, DayCount, tableVars
<1>3. \A d \in Int : d >= now' - MetricDays => d >= now - MetricDays
  <2>1. PICK a \in Int, b \in Int, m \in Int : a = now /\ b = now' /\ m = MetricDays
    BY LogAssumption DEF Days
  <2>2. a <= b
    BY <2>1
  <2>3. \A d \in Int : d >= b - m => d >= a - m
    BY <2>2
  <2> QED
    BY <2>1, <2>3
<1>4. DayTable'
  BY <1>2, <1>3 DEF Tables, DayTable, tableVars
<1> QED
  BY <1>1, <1>4 DEF Tables

LEMMA TablesPrune == ASSUME Tables, now \in Days, PruneEvents \/ PruneDays PROVE Tables'
<1>0. UNCHANGED <<now, counters, booked>>
  BY DEF PruneEvents, PruneDays
<1>1. CounterTable'
  BY <1>0 DEF Tables, CounterTable, Booked
<1>2. \A t, d : Booked(t, On(d))' = Booked(t, On(d))
  BY <1>0 DEF Booked, On
<1>3. CASE PruneEvents
  <2>1. LogTable'
    BY <1>0, <1>3 DEF Tables, LogTable, PruneEvents
  <2>2. daily' = daily
    BY <1>3 DEF PruneEvents
  <2>3. DayTable'
    BY <1>0, <1>2, <2>2 DEF Tables, DayTable, DayCount
  <2> QED
    BY <1>1, <2>1, <2>3 DEF Tables
<1>4. CASE PruneDays
  <2>1. daily' = [d \in {e \in DOMAIN daily : e >= now - MetricDays} |-> daily[d]] /\ log' = log
    BY <1>4 DEF PruneDays
  <2>2. LogTable'
    BY <1>0, <2>1 DEF Tables, LogTable
  <2>3. \A t, d : d >= now - MetricDays => DayCount(d, t)' = DayCount(d, t)
    BY <2>1 DEF DayCount
  <2>4. DOMAIN daily' \subseteq Days /\ daily' = [d \in DOMAIN daily' |-> daily'[d]]
    BY <2>1 DEF Tables, DayTable
  <2>5. DayTable'
    BY <1>0, <1>2, <2>3, <2>4 DEF Tables, DayTable
  <2> QED
    BY <1>1, <2>2, <2>5 DEF Tables
<1> QED
  BY <1>3, <1>4

\* A commit makes the three tables those of one event more.
LEMMA TablesCommit == ASSUME Recording, Tables, Viewing, NEW r \in Recorders, Commit(r) PROVE Tables'
<1>1. PICK e \in Event : e = rec[r].ev
  BY StageOf DEF Commit
<1>2. work = View("commit", e)
  BY <1>1 DEF Viewing, Working, Commit
<1>3. /\ log' = LogWith(e) /\ counters' = Plus(counters, e.kind) /\ daily' = DaysWith(e)
      /\ booked' = Append(booked, e) /\ now' = now
  BY <1>1, <1>2 DEF Commit, View
<1>4. e.ts \in Days /\ booked \in Seq(Event)
  BY DEF Event, Tables, LogTable
<1>5. LogTable'
  <2>1. PICK n \in Nat : n = Len(booked) /\ NextId = n + 1
    BY <1>4, LenProperties DEF NextId
  <2>2. /\ booked' \in Seq(Event) /\ Len(booked') = n + 1 /\ booked'[n + 1] = e
        /\ \A i \in 1 .. n : booked'[i] = booked[i]
    BY <1>3, <1>4, <2>1, AppendProperties
  <2>3. DOMAIN log' = DOMAIN log \cup {n + 1} /\ DOMAIN log \subseteq 1 .. n
    BY <1>3, <2>1 DEF LogWith, Tables, LogTable
  <2>4. log' = [i \in DOMAIN log \cup {n + 1} |-> IF i = n + 1 THEN e ELSE log[i]]
    BY <1>3, <2>1 DEF LogWith
  <2>5. \A i \in DOMAIN log : log[i] = booked[i]
    BY DEF Tables, LogTable
  <2>6. \A i \in DOMAIN log \cup {n + 1} : (IF i = n + 1 THEN e ELSE log[i]) = booked'[i]
    BY <2>2, <2>3, <2>5
  <2>7. log' = [i \in DOMAIN log' |-> booked'[i]]
    BY <2>3, <2>4, <2>6
  <2>8. DOMAIN log' \subseteq 1 .. Len(booked')
    BY <2>2, <2>3
  <2> QED
    BY <2>2, <2>7, <2>8 DEF LogTable
<1>6. CounterTable'
  <2>1. counters' = [t \in Tally |-> Booked(t, DOMAIN booked) + (IF t \in Raised(e.kind) THEN 1 ELSE 0)]
    BY <1>3 DEF Plus, Tables, CounterTable
  <2>2. \A t \in Tally : Booked(t, DOMAIN booked)' = Booked(t, DOMAIN booked) + (IF t \in Raised(e.kind) THEN 1 ELSE 0)
    BY <1>3, <1>4, BookedAppend
  <2> QED
    BY <2>1, <2>2 DEF CounterTable
<1>7. DayTable'
  <2>1. DOMAIN daily' = DOMAIN daily \cup {e.ts} /\ daily' = [d \in DOMAIN daily' |-> daily'[d]]
    BY <1>3 DEF DaysWith
  <2>2. \A d \in DOMAIN daily : d # e.ts => daily'[d] = daily[d]
    BY <1>3 DEF DaysWith
  <2>3. \A t \in Tally : daily'[e.ts][t] = DayRow(e.ts)[t] + (IF t \in Raised(e.kind) THEN 1 ELSE 0)
    BY <1>3 DEF DaysWith, Plus
  <2>4. \A t \in Tally : DayRow(e.ts)[t] = DayCount(e.ts, t)
    BY DEF DayRow, DayCount, Empty
  <2>5. ASSUME NEW t \in Tally, NEW d \in Int, d >= now' - MetricDays
        PROVE  DayCount(d, t)' = Booked(t, On(d))'
    <3>1. DayCount(d, t) = Booked(t, On(d))
      BY <1>3, <2>5 DEF Tables, DayTable
    <3>2. Booked(t, On(d))' = Booked(t, On(d)) + (IF d = e.ts /\ t \in Raised(e.kind) THEN 1 ELSE 0)
      BY <1>3, <1>4, BookedAppend
    <3>3. Booked(t, On(d)) \in Nat
      BY <1>4, BookedNat DEF On
    <3>4. CASE d = e.ts
      <4>1. DayCount(d, t)' = DayCount(d, t) + (IF t \in Raised(e.kind) THEN 1 ELSE 0)
        BY <2>1, <2>3, <2>4, <3>4 DEF DayCount
      <4> QED
        BY <3>1, <3>2, <3>4, <4>1
    <3>5. CASE d # e.ts
      <4>1. DayCount(d, t)' = DayCount(d, t)
        BY <2>1, <2>2, <3>5 DEF DayCount
      <4> QED
        BY <3>1, <3>2, <3>3, <3>5, <4>1
    <3> QED
      BY <3>4, <3>5
  <2>6. DOMAIN daily' \subseteq Days
    BY <1>4, <2>1 DEF Tables, DayTable
  <2> QED
    BY <2>1, <2>5, <2>6 DEF DayTable
<1> QED
  BY <1>5, <1>6, <1>7 DEF Tables

\* A transaction sees its own statements and nobody else's.
LEMMA ViewingSame ==
  ASSUME Viewing, UNCHANGED <<tableVars, booked, work>>,
         \A r \in Recorders : rec'[r].at \in Working => rec'[r] = rec[r]
  PROVE  Viewing'
<1>1. \A at, ev : View(at, ev)' = View(at, ev)
  BY DEF View, LogWith, DaysWith, DayRow, NextId, tableVars
<1> QED
  BY <1>1 DEF Viewing

LEMMA ViewingNone == ASSUME Recording', conn' = Nobody PROVE Viewing'
BY LogAssumption DEF Recording, Viewing

LEMMA ViewingStatement ==
  ASSUME Recording, Viewing, NEW r \in Recorders, Begin(r) \/ Insert(r) \/ Count(r) \/ CountDay(r)
  PROVE  Viewing'
<1>0. UNCHANGED <<tableVars, booked>> /\ rec[r].at \notin {"idle", "busy"}
  BY DEF Begin, Insert, Count, CountDay
<1>1. \A at, ev : View(at, ev)' = View(at, ev)
  BY <1>0 DEF View, LogWith, DaysWith, DayRow, NextId, tableVars
<1>2. Recording'
  BY RecordingStep DEF WriteStep
<1>3. conn' = r
  BY DEF Begin, Insert, Count, CountDay, Recording, Working
<1>4. \A q \in Recorders : rec'[q].at \in Working => q = r
  BY <1>2, <1>3 DEF Recording
<1>5. PICK e \in Event : e = rec[r].ev
  BY <1>0, StageOf
<1>6. ASSUME NEW l \in Stages, rec' = [rec EXCEPT ![r].at = l], work' = View(l, e) PROVE Viewing'
  <2>1. rec' = [rec EXCEPT ![r] = [at |-> l, ev |-> e]]
    BY <1>0, <1>5, <1>6, Advance
  <2>2. rec'[r].at = l /\ rec'[r].ev = e
    BY <2>1 DEF Recording
  <2> QED
    BY <1>1, <1>4, <1>6, <2>2 DEF Viewing
<1>7. \A l \in Working : rec[r].at = l => work = View(l, e)
  BY <1>5 DEF Viewing
<1>8. ASSUME NEW a, NEW b, NEW c, NEW x, work = [log |-> a, counters |-> b, daily |-> c]
      PROVE  /\ [work EXCEPT !.log = x] = [log |-> x, counters |-> b, daily |-> c]
             /\ [work EXCEPT !.counters = x] = [log |-> a, counters |-> x, daily |-> c]
             /\ [work EXCEPT !.daily = x] = [log |-> a, counters |-> b, daily |-> x]
  BY <1>8
<1>9. CASE Begin(r)
  <2>1. work' = View("insert", e) /\ rec' = [rec EXCEPT ![r].at = "insert"]
    BY <1>9 DEF Begin, View
  <2> QED
    BY <1>6, <2>1 DEF Stages, Working
<1>10. CASE Insert(r)
  <2>1. work = View("insert", e) /\ View("insert", e) = [log |-> log, counters |-> counters, daily |-> daily]
    BY <1>7, <1>10 DEF Insert, Working, View
  <2>2. work' = [work EXCEPT !.log = LogWith(e)] /\ rec' = [rec EXCEPT ![r].at = "count"]
    BY <1>5, <1>10, <2>1 DEF Insert, LogWith
  <2>3. work' = View("count", e)
    BY <1>8, <2>1, <2>2 DEF View
  <2> QED
    BY <1>6, <2>2, <2>3 DEF Stages, Working
<1>11. CASE Count(r)
  <2>1. work = View("count", e) /\ View("count", e) = [log |-> LogWith(e), counters |-> counters, daily |-> daily]
    BY <1>7, <1>11 DEF Count, Working, View
  <2>2. work' = [work EXCEPT !.counters = Plus(counters, e.kind)] /\ rec' = [rec EXCEPT ![r].at = "day"]
    BY <1>5, <1>11, <2>1 DEF Count
  <2>3. work' = View("day", e)
    BY <1>8, <2>1, <2>2 DEF View
  <2> QED
    BY <1>6, <2>2, <2>3 DEF Stages, Working
<1>12. CASE CountDay(r)
  <2>1. /\ work = View("day", e)
        /\ View("day", e) = [log |-> LogWith(e), counters |-> Plus(counters, e.kind), daily |-> daily]
    BY <1>7, <1>12 DEF CountDay, Working, View
  <2>2. work' = [work EXCEPT !.daily = DaysWith(e)] /\ rec' = [rec EXCEPT ![r].at = "commit"]
    BY <1>5, <1>12, <2>1 DEF CountDay, DaysWith, DayRow
  <2>3. work' = View("commit", e)
    BY <1>8, <2>1, <2>2 DEF View
  <2> QED
    BY <1>6, <2>2, <2>3 DEF Stages, Working
<1> QED
  BY <1>9, <1>10, <1>11, <1>12
-----------------------------------------------------------------------------
(* Rows in order *)

LEMMA LeastNumber ==
  ASSUME NEW T \in SUBSET Nat, T # {}
  PROVE  \E n \in T : \A k \in T : n <= k
<1>1. PICK R : R = OpToRel(<, Nat)
  OBVIOUS
<1>2. IsWellFoundedOn(R, Nat)
  BY <1>1, NatLessThanWellFounded
<1>3. PICK n \in T : \A k \in T : <<k, n>> \notin R
  BY <1>2, WFMin
<1>4. \A k \in T : k < n => <<k, n>> \in R
  BY <1>1 DEF OpToRel
<1>5. ASSUME NEW k \in T PROVE n <= k
  <2>1. k \in Nat /\ n \in Nat
    OBVIOUS
  <2>2. ~(k < n)
    BY <1>3, <1>4
  <2> QED
    BY <2>1, <2>2
<1> QED
  BY <1>5

\* Later time first, then larger number, for any assignment of times.
Ahead(times, i, j) == times[i] > times[j] \/ (times[i] = times[j] /\ i > j)

Ordering(times, S) ==
  {s \in [1 .. Cardinality(S) -> S] : \A i, j \in 1 .. Cardinality(S) : i < j => Ahead(times, s[i], s[j])}

LEMMA Oldest ==
  ASSUME NEW S \in SUBSET Nat, S # {}, NEW times, \A i \in S : times[i] \in Nat
  PROVE  \E m \in S : \A i \in S \ {m} : Ahead(times, i, m)
<1>1. PICK a \in {times[i] : i \in S} : \A b \in {times[i] : i \in S} : a <= b
  BY LeastNumber
<1>2. PICK m \in {i \in S : times[i] = a} : \A j \in {i \in S : times[i] = a} : m <= j
  BY <1>1, LeastNumber
<1>3. ASSUME NEW i \in S \ {m} PROVE Ahead(times, i, m)
  <2>1. times[i] \in Nat /\ times[m] = a /\ a \in Nat /\ a <= times[i]
    BY <1>1, <1>2
  <2>2. i \in Nat /\ m \in Nat /\ (times[i] = a => m <= i) /\ i # m
    BY <1>2
  <2> QED
    BY <2>1, <2>2 DEF Ahead
<1> QED
  BY <1>2, <1>3

\* Every finite set of rows has an order, built from its oldest row up.
LEMMA Orderable ==
  ASSUME NEW S \in SUBSET Nat, IsFiniteSet(S), NEW times, \A i \in S : times[i] \in Nat
  PROVE  Ordering(times, S) # {}
<1> DEFINE Bad == {n \in Nat : \E T \in SUBSET S : Cardinality(T) = n /\ Ordering(times, T) = {}}
<1>1. SUFFICES ASSUME Ordering(times, S) = {} PROVE FALSE
  OBVIOUS
<1>2. Cardinality(S) \in Bad
  BY <1>1, FS_CardinalityType
<1>3. PICK n \in Bad : \A k \in Bad : n <= k
  BY <1>2, LeastNumber
<1>4. PICK T \in SUBSET S : Cardinality(T) = n /\ Ordering(times, T) = {}
  BY <1>3
<1>5. IsFiniteSet(T) /\ n \in Nat
  BY <1>3, FS_Subset
<1>6. CASE T = {}
  <2>1. n = 0
    BY <1>4, <1>6, FS_EmptySet
  <2>2. [i \in 1 .. 0 |-> i] \in [1 .. 0 -> T] /\ \A i, j \in 1 .. 0 : FALSE
    BY <1>6
  <2>3. [i \in 1 .. 0 |-> i] \in Ordering(times, T)
    BY <1>4, <2>1, <2>2 DEF Ordering
  <2> QED
    BY <1>4, <2>3
<1>7. CASE T # {}
  <2>1. PICK m \in T : \A i \in T \ {m} : Ahead(times, i, m)
    BY <1>7, Oldest
  <2>2. PICK U \in SUBSET S : U = T \ {m}
    OBVIOUS
  <2>3. IsFiniteSet(U) /\ Cardinality(U) = n - 1
    BY <1>4, <1>5, <2>1, <2>2, FS_RemoveElement
  <2>4. n - 1 \in Nat
    BY <2>3, FS_CardinalityType
  <2>5. n - 1 \notin Bad
    <3>1. ~(n <= n - 1)
      BY <1>5
    <3> QED
      BY <1>3, <3>1
  <2>6. PICK u \in Ordering(times, U) : TRUE
    BY <2>3, <2>4, <2>5
  <2>7. u \in [1 .. n - 1 -> U] /\ \A i, j \in 1 .. n - 1 : i < j => Ahead(times, u[i], u[j])
    BY <2>3, <2>6 DEF Ordering
  <2>8. PICK s : s = [i \in 1 .. n |-> IF i = n THEN m ELSE u[i]]
    OBVIOUS
  <2>9. \A i \in 1 .. n : i # n => i \in 1 .. n - 1
    BY <1>5
  <2>10. s \in [1 .. n -> T]
    BY <2>2, <2>7, <2>8, <2>9
  <2>11. ASSUME NEW i \in 1 .. n, NEW j \in 1 .. n, i < j PROVE Ahead(times, s[i], s[j])
    <3>1. i # n /\ i \in 1 .. n - 1 /\ s[i] = u[i]
      BY <1>5, <2>8, <2>9, <2>11
    <3>2. u[i] \in T \ {m}
      BY <2>2, <2>7, <3>1
    <3>3. CASE j = n
      BY <2>1, <2>8, <3>1, <3>2, <3>3
    <3>4. CASE j # n
      BY <2>7, <2>8, <2>9, <2>11, <3>1, <3>4
    <3> QED
      BY <3>3, <3>4
  <2>12. s \in Ordering(times, T)
    BY <1>4, <2>10, <2>11 DEF Ordering
  <2> QED
    BY <1>4, <2>12
<1> QED
  BY <1>6, <1>7

\* An order leaves no row out.
LEMMA OrderingOnto ==
  ASSUME NEW S \in SUBSET Nat, IsFiniteSet(S), NEW times, \A i \in S : times[i] \in Nat,
         NEW s \in Ordering(times, S)
  PROVE  \A x \in S : \E i \in 1 .. Cardinality(S) : s[i] = x
<1>1. PICK n \in Nat : n = Cardinality(S)
  BY FS_CardinalityType
<1>2. s \in [1 .. n -> S] /\ \A i, j \in 1 .. n : i < j => Ahead(times, s[i], s[j])
  BY <1>1 DEF Ordering
<1>3. \A i \in S : ~Ahead(times, i, i)
  BY DEF Ahead
<1>4. ASSUME NEW i \in 1 .. n, NEW j \in 1 .. n, s[i] = s[j] PROVE i = j
  <2>1. s[i] \in S
    BY <1>2
  <2>2. ~(i < j) /\ ~(j < i)
    BY <1>2, <1>3, <1>4, <2>1
  <2> QED
    BY <2>2
<1>5. s \in Injection(1 .. n, S)
  BY <1>2, <1>4 DEF Injection, IsInjective
<1>6. Cardinality(1 .. n) = n
  BY FS_Interval
<1>7. s \in Surjection(1 .. n, S)
  BY <1>1, <1>5, <1>6, FS_Injection
<1> QED
  BY <1>1, <1>7 DEF Surjection
\* The order of the pages, in terms of what was booked: it outlives the row.
Before(a, b) == booked[a].ts > booked[b].ts \/ (booked[a].ts = booked[b].ts /\ a > b)

LEMMA RowFacts ==
  ASSUME LogTable
  PROVE  /\ \A i \in 1 .. Len(booked) : booked[i].ts \in Nat /\ i \in Nat
         /\ \A i \in DOMAIN log : i \in 1 .. Len(booked) /\ log[i] = booked[i] /\ log[i].ts \in Nat /\ i \in Nat
<1>1. \A i \in 1 .. Len(booked) : booked[i] \in Event
  BY ElementOfSeq DEF LogTable
<1>2. Len(booked) \in Nat /\ \A e \in Event : e.ts \in Nat
  BY LenProperties DEF LogTable, Event, Days
<1>3. \A i \in DOMAIN log : i \in 1 .. Len(booked) /\ log[i] = booked[i]
  BY DEF LogTable
<1> QED
  BY <1>1, <1>2, <1>3

LEMMA NewerIsBefore ==
  ASSUME LogTable PROVE \A a, b \in DOMAIN log : Newer(a, b) <=> Before(a, b)
BY RowFacts DEF Newer, Before

LEMMA BeforeOrder ==
  ASSUME LogTable
  PROVE  \A a, b, c \in 1 .. Len(booked) :
           /\ ~Before(a, a)
           /\ Before(a, b) => ~Before(b, a)
           /\ a # b => Before(a, b) \/ Before(b, a)
           /\ Before(a, b) /\ Before(b, c) => Before(a, c)
<1> SUFFICES ASSUME NEW a \in 1 .. Len(booked), NEW b \in 1 .. Len(booked), NEW c \in 1 .. Len(booked)
             PROVE  /\ ~Before(a, a)
                    /\ Before(a, b) => ~Before(b, a)
                    /\ a # b => Before(a, b) \/ Before(b, a)
                    /\ Before(a, b) /\ Before(b, c) => Before(a, c)
  OBVIOUS
<1>1. PICK x \in Nat, y \in Nat, z \in Nat : x = booked[a].ts /\ y = booked[b].ts /\ z = booked[c].ts
  BY RowFacts
<1>2. a \in Nat /\ b \in Nat /\ c \in Nat
  BY RowFacts
<1> QED
  BY <1>1, <1>2 DEF Before

LEMMA RowsFinite ==
  ASSUME LogTable, NEW rows \in SUBSET (DOMAIN log)
  PROVE  IsFiniteSet(rows) /\ rows \in SUBSET Nat /\ rows \in SUBSET (1 .. Len(booked)) /\ Cardinality(rows) \in Nat
<1>1. IsFiniteSet(1 .. Len(booked))
  BY FS_Interval, LenProperties DEF LogTable
<1>2. rows \in SUBSET (1 .. Len(booked)) /\ rows \in SUBSET Nat
  BY RowFacts
<1>3. IsFiniteSet(rows)
  BY <1>1, <1>2, FS_Subset
<1> QED
  BY <1>2, <1>3, FS_CardinalityType

\* ORDER BY: the rows of a page, each once, newest first.
LEMMA InOrderSorts ==
  ASSUME LogTable, NEW rows \in SUBSET (DOMAIN log), NEW n \in Nat, n = Cardinality(rows),
         NEW s, s = InOrder(rows)
  PROVE  /\ s \in [1 .. n -> rows]
         /\ \A i, j \in 1 .. n : i < j => Before(s[i], s[j])
         /\ \A x \in rows : \E i \in 1 .. n : s[i] = x
<1>1. PICK times : times = [i \in DOMAIN log |-> log[i].ts]
  OBVIOUS
<1>2. IsFiniteSet(rows) /\ rows \in SUBSET Nat
  BY RowsFinite
<1>3. \A i \in rows : times[i] \in Nat
  BY <1>1, RowFacts
<1>4. \A a, b \in DOMAIN log : Newer(a, b) <=> Ahead(times, a, b)
  BY <1>1 DEF Newer, Ahead
<1>5. \E u \in [1 .. n -> rows] : \A i, j \in DOMAIN u : i < j => Newer(u[i], u[j])
  <2>1. PICK u \in Ordering(times, rows) : TRUE
    BY <1>2, <1>3, Orderable
  <2>2. u \in [1 .. n -> rows] /\ \A i, j \in 1 .. n : i < j => Ahead(times, u[i], u[j])
    BY <2>1 DEF Ordering
  <2> QED
    BY <1>4, <2>2
<1>6. s \in [1 .. n -> rows] /\ \A i, j \in 1 .. n : i < j => Newer(s[i], s[j])
  BY <1>5 DEF InOrder
<1>7. s \in Ordering(times, rows)
  BY <1>4, <1>6 DEF Ordering
<1>8. \A x \in rows : \E i \in 1 .. n : s[i] = x
  BY <1>2, <1>3, <1>7, OrderingOnto
<1>9. \A i, j \in 1 .. n : i < j => Before(s[i], s[j])
  BY <1>6, NewerIsBefore
<1> QED
  BY <1>6, <1>8, <1>9

\* LIMIT: a page is the newest of the rows.
LEMMA PageCuts ==
  ASSUME LogTable, NEW rows \in SUBSET (DOMAIN log)
  PROVE  /\ PageOf(rows) \in SUBSET rows
         /\ \A p \in PageOf(rows), i \in rows \ PageOf(rows) : Before(p, i)
         /\ Cardinality(rows) <= Limit => PageOf(rows) = rows
         /\ rows # {} => PageOf(rows) # {}
<1> DEFINE Above(i) == {j \in rows : Newer(j, i)}
<1>1. IsFiniteSet(rows) /\ rows \in SUBSET (1 .. Len(booked)) /\ Cardinality(rows) \in Nat /\ Limit \in Nat \ {0}
  BY RowsFinite, LogAssumption
<1>2. \A i \in rows : IsFiniteSet(Above(i)) /\ Cardinality(Above(i)) \in Nat
  BY <1>1, FS_Subset, FS_CardinalityType
<1>3. PageOf(rows) = {i \in rows : Cardinality(Above(i)) < Limit}
  BY DEF PageOf
<1>4. \A a, b \in rows : Newer(a, b) <=> Before(a, b)
  BY NewerIsBefore
<1> HIDE DEF Above
<1>5. ASSUME NEW p \in PageOf(rows), NEW i \in rows \ PageOf(rows) PROVE Before(p, i)
  <2>1. p # i /\ p \in rows /\ i \in rows
    BY <1>3, <1>5
  <2>2. ASSUME Before(i, p) PROVE FALSE
    <3>1. Above(i) \in SUBSET Above(p)
      BY <1>1, <1>4, <2>1, <2>2, BeforeOrder DEF Above
    <3>2. Cardinality(Above(i)) <= Cardinality(Above(p))
      BY <1>2, <2>1, <3>1, FS_Subset
    <3>3. Cardinality(Above(p)) < Limit
      BY <1>3, <1>5
    <3>4. Cardinality(Above(i)) \in Nat /\ Cardinality(Above(p)) \in Nat
      BY <1>2, <2>1
    <3>5. Cardinality(Above(i)) < Limit
      BY <1>1, <3>2, <3>3, <3>4
    <3> QED
      BY <1>3, <2>1, <3>5
  <2> QED
    BY <1>1, <2>1, <2>2, BeforeOrder
<1>6. ASSUME Cardinality(rows) <= Limit, NEW i \in rows PROVE i \in PageOf(rows)
  <2>1. IsFiniteSet(rows \ {i}) /\ Cardinality(rows \ {i}) = Cardinality(rows) - 1
    BY <1>1, <1>6, FS_RemoveElement
  <2>2. Above(i) \in SUBSET (rows \ {i})
    BY <1>1, <1>4, <1>6, BeforeOrder DEF Above
  <2>3. Cardinality(Above(i)) <= Cardinality(rows) - 1
    BY <2>1, <2>2, FS_Subset
  <2>4. Cardinality(Above(i)) \in Nat
    BY <1>2, <1>6
  <2>5. Cardinality(Above(i)) < Limit
    BY <1>1, <1>6, <2>3, <2>4
  <2> QED
    BY <1>3, <1>6, <2>5
<1>7. ASSUME rows # {} PROVE PageOf(rows) # {}
  <2>1. PICK n, s : n \in Nat /\ n = Cardinality(rows) /\ s = InOrder(rows)
    BY <1>1
  <2>2. /\ s \in [1 .. n -> rows]
        /\ \A i, j \in 1 .. n : i < j => Before(s[i], s[j])
        /\ \A x \in rows : \E i \in 1 .. n : s[i] = x
    BY <2>1, InOrderSorts
  <2>3. 1 \in 1 .. n /\ s[1] \in rows
    BY <1>7, <2>1, <2>2
  <2>4. \A x \in rows : x # s[1] => Before(s[1], x)
    <3> SUFFICES ASSUME NEW x \in rows, x # s[1] PROVE Before(s[1], x)
      OBVIOUS
    <3>1. PICK i \in 1 .. n : s[i] = x
      BY <2>2
    <3>2. 1 < i
      BY <3>1
    <3> QED
      BY <2>2, <2>3, <3>1, <3>2
  <2>5. Above(s[1]) = {}
    BY <1>1, <1>4, <2>3, <2>4, BeforeOrder DEF Above
  <2>6. Cardinality(Above(s[1])) < Limit
    BY <1>1, <2>5, FS_EmptySet
  <2> QED
    BY <1>3, <2>3, <2>6
<1> QED
  BY <1>3, <1>5, <1>6, <1>7
-----------------------------------------------------------------------------
(* A reader's walk through the pages *)

Cursors == [ts : Nat, id : Nat]
Reader  == [at : {"pages", "end"}, verdict : {""} \cup Verdicts, cursor : Cursors \cup {NoEvent},
            owed : SUBSET Nat, seen : Seq(Nat)]

Among(seen) == {seen[i] : i \in DOMAIN seen}

\* What was shown is in order.
Sorted(seen) ==
  /\ \A i \in DOMAIN seen : seen[i] \in 1 .. Len(booked)
  /\ \A i, j \in DOMAIN seen : i < j => Before(seen[i], seen[j])

\* The cursor is the last row shown, whether or not it is still there,
AtLast(cursor, seen) ==
  /\ cursor = NoEvent => seen = <<>>
  /\ cursor # NoEvent => /\ seen # <<>>
                         /\ cursor.id = seen[Len(seen)]
                         /\ cursor.ts = booked[cursor.id].ts

\* and what is still owed lies beyond it.
Owing(owed, verdict, cursor, seen) ==
  /\ owed \subseteq Matching(verdict)
  /\ \A i \in owed : Beyond(i, cursor) \/ i \in Among(seen)

PagingRead(w) ==
  /\ w \in Reader
  /\ Sorted(w.seen)
  /\ w.at = "end" => w.owed \subseteq Among(w.seen)
  /\ w.at = "pages" => AtLast(w.cursor, w.seen) /\ Owing(w.owed, w.verdict, w.cursor, w.seen)

Paging == walk = [at |-> "idle"] \/ PagingRead(walk)

LEMMA WalkPlaces ==
  ASSUME Paging
  PROVE  /\ walk.at \in {"idle", "pages", "end"}
         /\ walk.at # "idle" => PagingRead(walk)
<1>1. CASE walk = [at |-> "idle"]
  BY <1>1
<1>2. CASE PagingRead(walk)
  <2>1. \A w \in Reader : w.at \in {"pages", "end"}
    BY DEF Reader
  <2>2. walk.at \in {"pages", "end"}
    BY <1>2, <2>1 DEF PagingRead
  <2> QED
    BY <1>2, <2>2
<1> QED
  BY <1>1, <1>2 DEF Paging

LEMMA LastShown == ASSUME NEW q \in Seq(Nat), q # <<>> PROVE Len(q) \in DOMAIN q
<1>1. PICK n \in Nat : n = Len(q) /\ DOMAIN q = 1 .. n
  BY LenProperties
<1>2. n # 0
  BY <1>1, EmptySeq
<1> QED
  BY <1>1, <1>2

\* Rows that come, or go and are no longer owed, change nothing a reader has.
LEMMA PagingKeeps ==
  ASSUME Paging, LogTable, LogTable', NEW more \in Seq(Event), booked' = booked \o more,
         \/ walk' = walk /\ DOMAIN log \subseteq DOMAIN log'
         \/ walk.at # "pages" /\ walk' = walk
         \/ walk.at = "pages" /\ walk' = [walk EXCEPT !.owed = @ \cap DOMAIN log']
  PROVE  Paging'
<1>0. booked \in Seq(Event) /\ Len(booked) \in Nat
  BY LenProperties DEF LogTable
<1>1. /\ \A i \in 1 .. Len(booked) : booked'[i] = booked[i] /\ i \in 1 .. Len(booked')
      /\ \A i \in DOMAIN log : i \in 1 .. Len(booked) /\ log[i] = booked[i]
      /\ \A i \in DOMAIN log' : log'[i] = booked'[i]
  <2>1. \A i \in 1 .. Len(booked) : booked'[i] = booked[i]
    BY <1>0, ConcatProperties, LenProperties
  <2>2. Len(booked') = Len(booked) + Len(more) /\ Len(more) \in Nat
    BY <1>0, ConcatProperties, LenProperties
  <2>3. \A i \in 1 .. Len(booked) : i \in 1 .. Len(booked')
    BY <1>0, <2>2
  <2> QED
    BY <2>1, <2>3 DEF LogTable
<1>2. \A a, b \in 1 .. Len(booked) : Before(a, b)' <=> Before(a, b)
  BY <1>1 DEF Before
<1>3. CASE walk = [at |-> "idle"]
  BY <1>3 DEF Paging
<1>4. CASE PagingRead(walk)
  <2>1. PICK at \in {"pages", "end"}, v \in {""} \cup Verdicts, c \in Cursors \cup {NoEvent},
             o \in SUBSET Nat, q \in Seq(Nat) :
          walk = [at |-> at, verdict |-> v, cursor |-> c, owed |-> o, seen |-> q]
    BY <1>4 DEF PagingRead, Reader
  <2>2. /\ Sorted(q)
        /\ at = "end" => o \subseteq Among(q)
        /\ at = "pages" => AtLast(c, q) /\ Owing(o, v, c, q)
    BY <1>4, <2>1 DEF PagingRead
  <2>3. PICK o2 \in SUBSET Nat :
          /\ walk' = [at |-> at, verdict |-> v, cursor |-> c, owed |-> o2, seen |-> q]
          /\ o2 \subseteq o
          /\ at = "pages" => o2 \subseteq DOMAIN log'
    <3>1. CASE walk' = walk /\ DOMAIN log \subseteq DOMAIN log'
      BY <2>1, <2>2, <3>1 DEF Owing, Matching
    <3>2. CASE walk.at # "pages" /\ walk' = walk
      BY <2>1, <3>2
    <3>3. CASE walk.at = "pages" /\ walk' = [walk EXCEPT !.owed = @ \cap DOMAIN log']
      <4>1. PICK o2 \in SUBSET Nat : o2 = o \cap DOMAIN log'
        OBVIOUS
      <4>2. walk' = [at |-> at, verdict |-> v, cursor |-> c, owed |-> o2, seen |-> q]
        BY <2>1, <3>3, <4>1
      <4> QED
        BY <4>1, <4>2
    <3> QED
      BY <3>1, <3>2, <3>3
  <2>4. Sorted(q)'
    BY <1>1, <1>2, <2>2 DEF Sorted
  <2>5. at = "end" => o2 \subseteq Among(q)
    BY <2>2, <2>3
  <2>6. AtLast(c, q) => AtLast(c, q)'
    <3>1. q # <<>> => Len(q) \in DOMAIN q
      BY LastShown
    <3>2. q # <<>> => q[Len(q)] \in 1 .. Len(booked)
      BY <2>2, <3>1 DEF Sorted
    <3> QED
      BY <1>1, <3>2 DEF AtLast
  <2>7. at = "pages" /\ Owing(o, v, c, q) => Owing(o2, v, c, q)'
    <3> SUFFICES ASSUME at = "pages", Owing(o, v, c, q), NEW i \in o2
                 PROVE  i \in Matching(v)' /\ (Beyond(i, c)' \/ i \in Among(q))
      BY DEF Owing, Among
    <3>1. i \in Matching(v) /\ (Beyond(i, c) \/ i \in Among(q)) /\ i \in DOMAIN log /\ i \in DOMAIN log'
      BY <2>3 DEF Owing, Matching
    <3>2. log'[i] = log[i]
      BY <1>1, <3>1
    <3> QED
      BY <3>1, <3>2 DEF Matching, Beyond
  <2>8. [at |-> at, verdict |-> v, cursor |-> c, owed |-> o2, seen |-> q] \in Reader
    BY DEF Reader
  <2>9. PICK w \in Reader : w = [at |-> at, verdict |-> v, cursor |-> c, owed |-> o2, seen |-> q]
    BY <2>8
  <2>10. w.at = at /\ w.verdict = v /\ w.cursor = c /\ w.owed = o2 /\ w.seen = q
    BY <2>9
  <2>11. PagingRead(w)'
    BY <2>2, <2>4, <2>5, <2>6, <2>7, <2>10 DEF PagingRead, Among
  <2> QED
    BY <2>3, <2>9, <2>11 DEF Paging
<1> QED
  BY <1>3, <1>4 DEF Paging


LEMMA NoPlace == 1 .. 0 = {}
OBVIOUS

LEMMA PagingStart == ASSUME Paging, LogTable, NEW v \in {""} \cup Verdicts, StartWalk(v) PROVE Paging'
<1>1. UNCHANGED <<log, booked>>
  BY DEF StartWalk, tableVars
<1>2. Matching(v) \in SUBSET Nat
  BY RowFacts DEF Matching
<1>3. PICK o \in SUBSET Nat : o = Matching(v)
  BY <1>2
<1>4. <<>> \in Seq(Nat)
  BY EmptySeq
<1>5. PICK q \in Seq(Nat) : q = <<>>
  BY <1>4
<1>6. DOMAIN q = {}
  <2>1. Len(q) = 0
    BY <1>5, EmptySeq
  <2>2. DOMAIN q = 1 .. Len(q)
    BY LenProperties
  <2>3. 1 .. 0 = {}
    BY NoPlace
  <2> QED
    BY <2>1, <2>2, <2>3
<1>7. [at |-> "pages", verdict |-> v, cursor |-> NoEvent, owed |-> o, seen |-> q] \in Reader
  BY DEF Reader
<1>8. PICK w \in Reader : w = [at |-> "pages", verdict |-> v, cursor |-> NoEvent, owed |-> o, seen |-> q]
  BY <1>7
<1>9. w.at = "pages" /\ w.verdict = v /\ w.cursor = NoEvent /\ w.owed = o /\ w.seen = q
  BY <1>8
<1>10. walk' = w
  BY <1>3, <1>5, <1>8 DEF StartWalk
<1>11. Sorted(q)'
  BY <1>6 DEF Sorted
<1>12. AtLast(NoEvent, q)'
  BY <1>5 DEF AtLast
<1>13. Owing(o, v, NoEvent, q)'
  BY <1>1, <1>3 DEF Owing, Matching, Beyond
<1>14. PagingRead(w)'
  BY <1>9, <1>11, <1>12, <1>13 DEF PagingRead
<1> QED
  BY <1>10, <1>14 DEF Paging

LEMMA ListLength == ASSUME NEW m \in Nat, NEW s \in [1 .. m -> Nat] PROVE s \in Seq(Nat) /\ Len(s) = m
<1>1. s \in Seq(Nat)
  OBVIOUS
<1> QED
  BY <1>1, LenProperties

\* What is shown, a page further: r is q and the m rows of s.
Splices(r, q, n, s, m) ==
  /\ r = q \o s /\ n = Len(q) /\ DOMAIN q = 1 .. n
  /\ Len(r) = n + m /\ DOMAIN r = 1 .. (n + m)
  /\ \A i \in 1 .. n : i \in 1 .. (n + m) /\ r[i] = q[i]
  /\ \A i \in 1 .. m : n + i \in 1 .. (n + m) /\ r[n + i] = s[i]
  /\ \A k \in 1 .. (n + m) : k \in 1 .. n \/ \E i \in 1 .. m : k = n + i

LEMMA Spliced ==
  ASSUME NEW q \in Seq(Nat), NEW m \in Nat, NEW s \in [1 .. m -> Nat]
  PROVE  \E n \in Nat, r \in Seq(Nat) : Splices(r, q, n, s, m)
<1>1. s \in Seq(Nat)
  BY ListLength
<1>2. Len(s) = m
  BY ListLength
<1>3. Len(q) \in Nat /\ DOMAIN q = 1 .. Len(q)
  BY LenProperties
<1>4. PICK n \in Nat : n = Len(q)
  BY <1>3
<1>5. /\ q \o s \in Seq(Nat)
      /\ Len(q \o s) = n + m
      /\ \A i \in 1 .. (n + m) : (q \o s)[i] = IF i <= n THEN q[i] ELSE s[i - n]
  BY <1>1, <1>2, <1>4, ConcatProperties
<1>6. PICK r \in Seq(Nat) : r = q \o s
  BY <1>5
<1>7. Len(r) = n + m /\ DOMAIN r = 1 .. (n + m)
  BY <1>5, <1>6, LenProperties
<1>8. \A i \in 1 .. (n + m) : r[i] = IF i <= n THEN q[i] ELSE s[i - n]
  BY <1>5, <1>6
<1>9. \A i \in 1 .. n : i \in 1 .. (n + m) /\ i <= n
  OBVIOUS
<1>10. \A i \in 1 .. m : n + i \in 1 .. (n + m) /\ ~(n + i <= n) /\ (n + i) - n = i
  OBVIOUS
<1>11. \A k \in 1 .. (n + m) : k \in 1 .. n \/ \E i \in 1 .. m : k = n + i
  <2> SUFFICES ASSUME NEW k \in 1 .. (n + m), k \notin 1 .. n PROVE \E i \in 1 .. m : k = n + i
    OBVIOUS
  <2>1. k - n \in 1 .. m /\ k = n + (k - n)
    OBVIOUS
  <2> QED
    BY <2>1
<1>12. \A i \in 1 .. n : i \in 1 .. (n + m) /\ r[i] = q[i]
  BY <1>8, <1>9
<1>13. \A i \in 1 .. m : n + i \in 1 .. (n + m) /\ r[n + i] = s[i]
  BY <1>8, <1>10
<1>14. Splices(r, q, n, s, m)
  BY <1>3, <1>4, <1>6, <1>7, <1>11, <1>12, <1>13 DEF Splices
<1> QED
  BY <1>14

\* Beyond the cursor is behind everything shown.
LEMMA PageFollows ==
  ASSUME LogTable, NEW q \in Seq(Nat), NEW c \in Cursors \cup {NoEvent}, Sorted(q), AtLast(c, q),
         NEW i \in DOMAIN q, NEW x \in DOMAIN log, Beyond(x, c)
  PROVE  Before(q[i], x)
<1>1. q # <<>> /\ i \in Nat
  BY LenProperties
<1>2. PICK n \in Nat : n = Len(q) /\ DOMAIN q = 1 .. n
  BY LenProperties
<1>3. n \in DOMAIN q
  BY <1>1, <1>2, LastShown
<1>4. c # NoEvent /\ c.id = q[n] /\ c.ts = booked[q[n]].ts
  BY <1>1, <1>2 DEF AtLast
<1>5. q[n] \in 1 .. Len(booked) /\ q[i] \in 1 .. Len(booked) /\ x \in 1 .. Len(booked)
  BY <1>3, RowFacts DEF Sorted
<1>6. log[x].ts = booked[x].ts
  BY RowFacts
<1>7. booked[q[n]].ts \in Nat /\ booked[x].ts \in Nat /\ q[n] \in Nat /\ x \in Nat
  BY <1>5, RowFacts
<1>8. booked[x].ts < booked[q[n]].ts \/ (booked[x].ts = booked[q[n]].ts /\ x < q[n])
  BY <1>4, <1>6 DEF Beyond
<1>9. Before(q[n], x)
  BY <1>7, <1>8 DEF Before
<1>10. CASE i = n
  BY <1>9, <1>10
<1>11. CASE i # n
  <2>1. i < n
    BY <1>2, <1>11
  <2>2. Before(q[i], q[n])
    BY <1>3, <2>1 DEF Sorted
  <2> QED
    BY <1>5, <1>9, <2>2, BeforeOrder
<1> QED
  BY <1>10, <1>11

\* A page that follows, in order, keeps the order.
LEMMA SortedOn ==
  ASSUME NEW q \in Seq(Nat), Sorted(q), NEW m \in Nat, NEW page \in SUBSET Nat, page \subseteq 1 .. Len(booked),
         NEW s \in [1 .. m -> page], \A i, j \in 1 .. m : i < j => Before(s[i], s[j]),
         \A x \in page : \E i \in 1 .. m : s[i] = x,
         \A i \in DOMAIN q : \A x \in page : Before(q[i], x)
  PROVE  /\ q \o s \in Seq(Nat) /\ Sorted(q \o s)
         /\ Among(q) \subseteq Among(q \o s) /\ page \subseteq Among(q \o s)
         /\ m # 0 => q \o s # <<>> /\ (q \o s)[Len(q \o s)] = s[m]
<1>1. s \in [1 .. m -> Nat]
  OBVIOUS
<1>2. PICK n \in Nat, r \in Seq(Nat) : Splices(r, q, n, s, m)
  BY <1>1, Spliced
<1>3. /\ DOMAIN q = 1 .. n /\ DOMAIN r = 1 .. (n + m)
      /\ \A i \in 1 .. n : i \in 1 .. (n + m) /\ r[i] = q[i]
      /\ \A i \in 1 .. m : n + i \in 1 .. (n + m) /\ r[n + i] = s[i]
      /\ \A k \in 1 .. (n + m) : k \in 1 .. n \/ \E i \in 1 .. m : k = n + i
  BY <1>2 DEF Splices
<1>4. ASSUME NEW k \in 1 .. (n + m) PROVE r[k] \in 1 .. Len(booked)
  <2>1. CASE k \in 1 .. n
    <3>1. q[k] \in 1 .. Len(booked)
      BY <1>3, <2>1 DEF Sorted
    <3> QED
      BY <1>3, <2>1, <3>1
  <2>2. CASE k \notin 1 .. n
    <3>1. PICK i \in 1 .. m : k = n + i
      BY <1>3, <1>4, <2>2
    <3>2. r[k] = s[i] /\ s[i] \in page
      BY <1>3, <3>1
    <3> QED
      BY <3>2
  <2> QED
    BY <2>1, <2>2
<1>5. ASSUME NEW k \in 1 .. (n + m), NEW l \in 1 .. (n + m), k < l PROVE Before(r[k], r[l])
  <2>1. CASE k \in 1 .. n /\ l \in 1 .. n
    BY <1>3, <1>5, <2>1 DEF Sorted
  <2>2. CASE k \in 1 .. n /\ l \notin 1 .. n
    <3>1. PICK i \in 1 .. m : l = n + i
      BY <1>3, <2>2
    <3>2. r[l] \in page
      BY <1>3, <3>1
    <3> QED
      BY <1>3, <2>2, <3>2
  <2>3. CASE k \notin 1 .. n
    <3>1. l \notin 1 .. n
      BY <1>5, <2>3
    <3>2. PICK i \in 1 .. m : k = n + i
      BY <1>3, <2>3
    <3>3. PICK j \in 1 .. m : l = n + j
      BY <1>3, <3>1
    <3>4. i < j
      BY <1>5, <3>2, <3>3
    <3>5. r[k] = s[i] /\ r[l] = s[j]
      BY <1>3, <3>2, <3>3
    <3> QED
      BY <3>4, <3>5
  <2> QED
    BY <2>1, <2>2, <2>3
<1>6. Sorted(r)
  BY <1>3, <1>4, <1>5 DEF Sorted
<1>7. Among(q) \subseteq Among(r)
  BY <1>3 DEF Among
<1>8. page \subseteq Among(r)
  <2> SUFFICES ASSUME NEW x \in page PROVE x \in Among(r)
    OBVIOUS
  <2>1. PICK i \in 1 .. m : s[i] = x
    OBVIOUS
  <2>2. n + i \in DOMAIN r /\ r[n + i] = x
    BY <1>3, <2>1
  <2> QED
    BY <2>2 DEF Among
<1>9. ASSUME m # 0 PROVE r # <<>> /\ r[Len(r)] = s[m]
  <2>1. m \in 1 .. m
    BY <1>9
  <2>2. n + m \in DOMAIN r /\ r[n + m] = s[m]
    BY <1>3, <2>1
  <2>3. r # <<>>
    BY <2>2
  <2> QED
    BY <1>2, <2>2, <2>3 DEF Splices
<1>10. r = q \o s
  BY <1>2 DEF Splices
<1> QED
  BY <1>6, <1>7, <1>8, <1>9, <1>10


\* The page of the rows asked for, as it is shown.
Shows(s, m, page) ==
  /\ s = InOrder(page) /\ Len(s) = m
  /\ s \in [1 .. m -> page]
  /\ \A i, j \in 1 .. m : i < j => Before(s[i], s[j])
  /\ \A x \in page : \E i \in 1 .. m : s[i] = x
  /\ page # {} => m # 0 /\ s[m] \in page

LEMMA PageShown ==
  ASSUME LogTable, NEW page \in SUBSET (DOMAIN log) PROVE \E m \in Nat : \E s : Shows(s, m, page)
<1>1. Cardinality(page) \in Nat /\ page \in SUBSET Nat
  BY RowsFinite
<1>2. PICK m \in Nat : m = Cardinality(page)
  BY <1>1
<1>3. PICK s : s = InOrder(page)
  OBVIOUS
<1>4. /\ s \in [1 .. m -> page]
      /\ \A i, j \in 1 .. m : i < j => Before(s[i], s[j])
      /\ \A x \in page : \E i \in 1 .. m : s[i] = x
  BY <1>2, <1>3, InOrderSorts
<1>5. s \in [1 .. m -> Nat]
  BY <1>1, <1>4
<1>6. Len(s) = m
  BY <1>5, ListLength
<1>7. ASSUME page # {} PROVE m # 0 /\ s[m] \in page
  <2>1. PICK i \in 1 .. m : TRUE
    BY <1>4, <1>7
  <2>2. m # 0 /\ m \in 1 .. m
    BY <2>1
  <2> QED
    BY <1>4, <2>2
<1>8. Shows(s, m, page)
  BY <1>3, <1>4, <1>6, <1>7 DEF Shows
<1> QED
  BY <1>8

LEMMA Turned ==
  ASSUME NEW at, NEW v, NEW c, NEW o, NEW q, NEW at2, NEW c2, NEW q2, NEW w,
         w = [at |-> at, verdict |-> v, cursor |-> c, owed |-> o, seen |-> q]
  PROVE  [w EXCEPT !.seen = q2, !.at = at2, !.cursor = c2]
           = [at |-> at2, verdict |-> v, cursor |-> c2, owed |-> o, seen |-> q2]
<1>1. PICK w1 : w1 = [w EXCEPT !.seen = q2]
  OBVIOUS
<1>2. w1 = [at |-> at, verdict |-> v, cursor |-> c, owed |-> o, seen |-> q2]
  BY <1>1
<1>3. PICK w2 : w2 = [w1 EXCEPT !.at = at2]
  OBVIOUS
<1>4. w2 = [at |-> at2, verdict |-> v, cursor |-> c, owed |-> o, seen |-> q2]
  BY <1>2, <1>3
<1>5. PICK w3 : w3 = [w2 EXCEPT !.cursor = c2]
  OBVIOUS
<1>6. w3 = [at |-> at2, verdict |-> v, cursor |-> c2, owed |-> o, seen |-> q2]
  BY <1>4, <1>5
<1>7. w3 = [w EXCEPT !.seen = q2, !.at = at2, !.cursor = c2]
  BY <1>1, <1>3, <1>5
<1> QED
  BY <1>6, <1>7

LEMMA Sizes == ASSUME NEW a \in Nat, NEW b \in Nat PROVE (~(a > b) => a <= b) /\ (a > b => a # 0)
OBVIOUS

\* The next page goes on where the cursor points.
LEMMA PagingPage == ASSUME Paging, LogTable, NextPage PROVE Paging'
<1>0. walk.at = "pages" /\ UNCHANGED <<log, booked>>
  BY DEF NextPage, tableVars
<1>1. PagingRead(walk)
  BY <1>0, WalkPlaces
<1>2. PICK at \in {"pages", "end"}, v \in {""} \cup Verdicts, c \in Cursors \cup {NoEvent},
           o \in SUBSET Nat, q \in Seq(Nat) :
        walk = [at |-> at, verdict |-> v, cursor |-> c, owed |-> o, seen |-> q]
  BY <1>1 DEF PagingRead, Reader
<1>3. at = "pages" /\ Sorted(q) /\ AtLast(c, q) /\ Owing(o, v, c, q)
  BY <1>0, <1>1, <1>2 DEF PagingRead
<1>4. {i \in Matching(v) : Beyond(i, c)} \in SUBSET (DOMAIN log)
  BY DEF Matching
<1>5. PICK rows \in SUBSET (DOMAIN log) : rows = {i \in Matching(v) : Beyond(i, c)}
  BY <1>4
<1>6. /\ PageOf(rows) \in SUBSET rows
      /\ \A p \in PageOf(rows), i \in rows \ PageOf(rows) : Before(p, i)
      /\ Cardinality(rows) <= Limit => PageOf(rows) = rows
      /\ rows # {} => PageOf(rows) # {}
  BY PageCuts
<1>7. PICK page \in SUBSET rows : page = PageOf(rows)
  BY <1>6
<1>8. page \in SUBSET (DOMAIN log) /\ Cardinality(rows) \in Nat /\ Limit \in Nat
  BY RowsFinite, LogAssumption
<1>9. page \in SUBSET Nat /\ page \subseteq 1 .. Len(booked)
  BY <1>8, RowsFinite
<1>10. PICK m, s : m \in Nat /\ Shows(s, m, page)
  BY <1>8, PageShown
<1>11. PICK size \in Nat : size = Cardinality(rows)
  BY <1>8
<1>12. /\ s \in [1 .. m -> page]
       /\ \A i, j \in 1 .. m : i < j => Before(s[i], s[j])
       /\ \A x \in page : \E i \in 1 .. m : s[i] = x
  BY <1>10 DEF Shows
<1>13. \A i \in DOMAIN q : \A x \in page : Before(q[i], x)
  BY <1>3, <1>5, PageFollows
<1>14. /\ q \o s \in Seq(Nat) /\ Sorted(q \o s)
       /\ Among(q) \subseteq Among(q \o s) /\ page \subseteq Among(q \o s)
       /\ m # 0 => q \o s # <<>> /\ (q \o s)[Len(q \o s)] = s[m]
  BY <1>3, <1>9, <1>10, <1>12, <1>13, SortedOn
<1>15. PICK q2 \in Seq(Nat) : q2 = q \o s
  BY <1>14
<1>16. Sorted(q2) /\ Among(q) \subseteq Among(q2) /\ page \subseteq Among(q2)
  BY <1>14, <1>15
<1>17. Sorted(q2)'
  BY <1>0, <1>16 DEF Sorted, Before
<1>18. \A i \in o : i \in Among(q2) \/ i \in rows
  BY <1>3, <1>5, <1>16 DEF Owing
<1>19. s = InOrder(page) /\ Len(s) = m
  BY <1>10 DEF Shows
<1>20. PICK at2, d2 : /\ at2 = IF size > Limit THEN "pages" ELSE "end"
                     /\ d2 = IF size > Limit THEN [ts |-> log[s[m]].ts, id |-> s[m]] ELSE NoEvent
  OBVIOUS
<1>21. walk' = [at |-> at2, verdict |-> v, cursor |-> d2, owed |-> o, seen |-> q2]
  <2>1. walk.verdict = v /\ walk.cursor = c /\ walk.seen = q
    BY <1>2
  <2>2. walk' = [walk EXCEPT !.seen = q2, !.at = at2, !.cursor = d2]
    BY <1>5, <1>7, <1>11, <1>15, <1>19, <1>20, <2>1 DEF NextPage
  <2> QED
    BY <1>2, <2>2, Turned
<1>22. CASE ~(size > Limit)
  <2>1. [at |-> "end", verdict |-> v, cursor |-> NoEvent, owed |-> o, seen |-> q2] \in Reader
    BY DEF Reader
  <2>2. PICK w \in Reader : w = [at |-> "end", verdict |-> v, cursor |-> NoEvent, owed |-> o, seen |-> q2]
    BY <2>1
  <2>3. w.at = "end" /\ w.owed = o /\ w.seen = q2
    BY <2>2
  <2>4. walk' = w
    <3>1. at2 = "end" /\ d2 = NoEvent
      BY <1>20, <1>22
    <3> QED
      BY <1>21, <2>2, <3>1
  <2>5. size <= Limit
    BY <1>8, <1>22, Sizes, Zenon
  <2>6. page = rows
    BY <1>6, <1>7, <1>11, <2>5
  <2>7. o \subseteq Among(q2)
    BY <1>16, <1>18, <2>6
  <2>8. PagingRead(w)'
    BY <1>17, <2>3, <2>7 DEF PagingRead, Among
  <2> QED
    BY <2>4, <2>8 DEF Paging
<1>23. CASE size > Limit
  <2>1. rows # {}
    <3>0. Limit \in Nat
      BY LogAssumption
    <3>1. size # 0
      BY <1>23, <3>0, Sizes, Zenon
    <3> QED
      BY <1>11, <3>1, FS_EmptySet
  <2>2. page # {}
    BY <1>6, <1>7, <2>1
  <2>3. m # 0 /\ s[m] \in page
    BY <1>10, <2>2 DEF Shows
  <2>4. PICK last \in page : last = s[m]
    BY <2>3
  <2>5. last \in DOMAIN log /\ last \in Nat
    BY <1>8, <1>9
  <2>6. log[last].ts = booked[last].ts /\ log[last].ts \in Nat
    BY <2>5, RowFacts
  <2>7. [ts |-> log[last].ts, id |-> last] \in Cursors
    BY <2>5, <2>6 DEF Cursors
  <2>8. PICK d \in Cursors : d = [ts |-> log[last].ts, id |-> last]
    BY <2>7
  <2>9. d.ts = booked[last].ts /\ d.id = last
    BY <2>6, <2>8
  <2>10. d # NoEvent
    BY LogAssumption DEF Cursors
  <2>11. [at |-> "pages", verdict |-> v, cursor |-> d, owed |-> o, seen |-> q2] \in Reader
    BY DEF Reader
  <2>12. PICK w \in Reader : w = [at |-> "pages", verdict |-> v, cursor |-> d, owed |-> o, seen |-> q2]
    BY <2>11
  <2>13. w.at = "pages" /\ w.verdict = v /\ w.cursor = d /\ w.owed = o /\ w.seen = q2
    BY <2>12
  <2>14. walk' = w
    <3>1. at2 = "pages" /\ d2 = d
      BY <1>20, <1>23, <2>4, <2>8
    <3> QED
      BY <1>21, <2>12, <3>1
  <2>15. q2 # <<>> /\ q2[Len(q2)] = last
    BY <1>14, <1>15, <2>3, <2>4
  <2>16. AtLast(d, q2)'
    BY <1>0, <2>9, <2>10, <2>15 DEF AtLast
  <2>17. ASSUME NEW i \in rows \ page PROVE Beyond(i, d)
    <3>1. Before(last, i)
      BY <1>6, <1>7
    <3>2. i \in Nat /\ log[i].ts = booked[i].ts /\ log[i].ts \in Nat
      BY RowFacts
    <3> QED
      BY <2>5, <2>6, <2>9, <3>1, <3>2 DEF Before, Beyond
  <2>18. \A i \in o : Beyond(i, d) \/ i \in Among(q2)
    BY <1>16, <1>18, <2>17
  <2>19. Owing(o, v, d, q2)'
    BY <1>0, <1>3, <2>18 DEF Owing, Matching, Beyond, Among
  <2>20. PagingRead(w)'
    BY <1>17, <2>13, <2>16, <2>19 DEF PagingRead
  <2> QED
    BY <2>14, <2>20 DEF Paging
<1> QED
  BY <1>22, <1>23

LEMMA PagingSame == ASSUME Paging, LogTable, UNCHANGED <<log, booked, walk>> PROVE Paging'
<1>1. LogTable'
  BY DEF LogTable
<1>2. booked \in Seq(Event)
  BY DEF LogTable
<1>3. <<>> \in Seq(Event) /\ booked' = booked \o <<>>
  BY <1>2, EmptySeq, ConcatEmptySeq
<1> QED
  BY <1>1, <1>3, PagingKeeps

LEMMA PagingPrune == ASSUME Paging, LogTable, LogTable', PruneEvents PROVE Paging'
<1>1. booked \in Seq(Event) /\ booked' = booked
  BY DEF LogTable, PruneEvents
<1>2. <<>> \in Seq(Event) /\ booked' = booked \o <<>>
  BY <1>1, EmptySeq, ConcatEmptySeq
<1>3. \/ walk.at # "pages" /\ walk' = walk
      \/ walk.at = "pages" /\ walk' = [walk EXCEPT !.owed = @ \cap DOMAIN log']
  BY DEF PruneEvents
<1> QED
  BY <1>2, <1>3, PagingKeeps

LEMMA PagingCommit ==
  ASSUME Recording, Viewing, Paging, LogTable, LogTable', NEW r \in Recorders, Commit(r) PROVE Paging'
<1>1. rec[r].at = "commit"
  BY DEF Commit
<1>2. PICK e \in Event : e = rec[r].ev
  BY <1>1, StageOf
<1>3. booked \in Seq(Event) /\ booked' = Append(booked, e) /\ walk' = walk /\ log' = work.log
  BY <1>2 DEF LogTable, Commit
<1>4. <<e>> \in Seq(Event) /\ booked' = booked \o <<e>>
  BY <1>3, AppendIsConcat
<1>5. work = View("commit", e)
  BY <1>1, <1>2 DEF Viewing, Working
<1>6. log' = LogWith(e)
  BY <1>3, <1>5 DEF View
<1>7. DOMAIN log \subseteq DOMAIN log'
  BY <1>6 DEF LogWith
<1> QED
  BY <1>3, <1>4, <1>7, PagingKeeps

-----------------------------------------------------------------------------
(* The invariant and what follows from it *)

IInv == Recording /\ Feeding /\ Ending /\ Tables /\ Viewing /\ Paging

LEMMA InvInit == Init => IInv
<1> SUFFICES ASSUME Init PROVE IInv
  OBVIOUS
<1> USE DEF Init, LogInit, FeedInit
<1>1. Recording
  <2>1. Resting.at \notin Working /\ Nobody \notin Recorders /\ 1 \in Days
    BY LogAssumption DEF Resting, Working, Days
  <2> QED
    BY <2>1 DEF Recording, Records
<1>2. <<>> \in Seq(Event) /\ Len(<<>>) = 0
  BY EmptySeq
<1>3. Feeding
  <2>1. NoChan \in Channel /\ NoChan.buf = <<>>
    BY <1>2 DEF NoChan, Channel
  <2>2. FeedType
    BY <1>2, <2>1 DEF FeedType
  <2>3. Buffer \in Nat
    BY FeedAssumption
  <2>4. \A s \in Streams : Fed(s)
    BY <1>2, <2>1, <2>3 DEF Fed
  <2> QED
    BY <2>2, <2>4 DEF Feeding
<1>4. Ending
  BY DEF Ending, Phases
<1>5. DOMAIN booked = {}
  <2>1. booked \in Seq(Event) /\ Len(booked) = 0
    BY <1>2
  <2>2. DOMAIN booked = 1 .. 0
    BY <2>1, LenProperties
  <2> QED
    BY <2>2, NoPlace
<1>6. Tables
  <2>1. LogTable
    BY <1>2 DEF LogTable
  <2>2. \A t, S : S \subseteq DOMAIN booked => Booked(t, S) = 0
    BY <1>5, FS_EmptySet DEF Booked
  <2>3. CounterTable
    BY <2>2 DEF CounterTable, Empty
  <2>4. \A t \in Tally, d \in Int : DayCount(d, t) = 0 /\ On(d) \subseteq DOMAIN booked
    BY DEF DayCount, On
  <2>5. DayTable
    BY <2>2, <2>4 DEF DayTable
  <2> QED
    BY <2>1, <2>3, <2>5 DEF Tables
<1>7. Viewing
  BY DEF Viewing, Resting, Working
<1>8. Paging
  BY DEF Paging
<1> QED
  BY <1>1, <1>3, <1>4, <1>6, <1>7, <1>8 DEF IInv

LEMMA InvNext == IInv /\ [Next]_vars => IInv'
<1> SUFFICES ASSUME IInv, [Next]_vars PROVE IInv'
  OBVIOUS
<1>1. Recording /\ Feeding /\ Ending /\ Tables /\ Viewing /\ Paging /\ LogTable /\ now \in Days
  BY DEF IInv, Tables, Recording
<1>2. Ending'
  BY <1>1, EndingNext
<1>3. now <= now
  BY <1>1 DEF Days
<1> DEFINE Rest == Recording' /\ Feeding' /\ Tables' /\ Viewing' /\ Paging'
<1>4. ASSUME UNCHANGED <<now, tableVars, booked, conn, work, rec, walk>>
      PROVE  Recording' /\ Tables' /\ Viewing' /\ Paging'
  <2>1. UNCHANGED <<log, booked, walk>>
    BY <1>4 DEF tableVars
  <2>2. Recording'
    BY <1>1, <1>4, RecordingSame
  <2>3. Tables'
    BY <1>1, <1>3, <1>4, TablesSame
  <2>4. Viewing'
    BY <1>1, <1>4, ViewingSame
  <2> QED
    BY <1>1, <2>1, <2>2, <2>3, <2>4, PagingSame
<1>5. ASSUME UNCHANGED feedVars PROVE Feeding'
  BY <1>1, <1>5, FeedingSame DEF feedVars
<1>6. ASSUME NEW r \in Recorders, Accept(r) \/ Unrecorded(r) \/ \E k \in Kinds : Outcome(r, k), UNCHANGED feedVars
      PROVE  Rest
  <2>1. UNCHANGED <<now, tableVars, booked, work, log, walk>>
    BY <1>6 DEF Accept, Unrecorded, Outcome, tableVars
  <2>2. Recording'
    BY <1>1, <1>6, RecordingStep
  <2>3. \A q \in Recorders : rec'[q].at \in Working => rec'[q] = rec[q]
    BY <1>1, <1>6 DEF Accept, Unrecorded, Outcome, Recording, Working, Resting
  <2> QED
    BY <1>1, <1>3, <1>5, <1>6, <2>1, <2>2, <2>3, TablesSame, ViewingSame, PagingSame
<1>7. ASSUME NEW r \in Recorders, WriteStep(r), UNCHANGED feedVars PROVE Rest
  <2>1. Recording' /\ Feeding'
    BY <1>1, <1>5, <1>7, RecordingStep
  <2>2. CASE Commit(r)
    <3>1. Tables'
      BY <1>1, <2>2, TablesCommit
    <3>2. LogTable' /\ conn' = Nobody
      BY <2>2, <3>1 DEF Tables, Commit, Release
    <3> QED
      BY <1>1, <2>1, <2>2, <3>1, <3>2, ViewingNone, PagingCommit
  <2>3. CASE ~Commit(r)
    <3>1. UNCHANGED <<now, tableVars, booked, log, walk>>
      BY <1>7, <2>3 DEF WriteStep, Begin, BeginFails, Insert, Count, CountDay, Abort, tableVars
    <3>2. Tables' /\ Paging'
      BY <1>1, <1>3, <3>1, TablesSame, PagingSame
    <3>3. CASE Begin(r) \/ Insert(r) \/ Count(r) \/ CountDay(r)
      BY <1>1, <2>1, <3>2, <3>3, ViewingStatement
    <3>4. CASE Abort(r)
      <4>1. conn' = Nobody
        BY <3>4 DEF Abort, Release
      <4> QED
        BY <2>1, <3>2, <4>1, ViewingNone
    <3>5. CASE BeginFails(r)
      <4>1. UNCHANGED <<tableVars, booked, work>>
        BY <3>5 DEF BeginFails
      <4>2. rec[r].at \notin {"idle", "busy"} /\ "publish" \in Stages /\ "publish" \notin Working
        BY <3>5 DEF BeginFails, Stages, Working
      <4>3. rec' = [rec EXCEPT ![r] = [at |-> "publish", ev |-> rec[r].ev]]
        BY <1>1, <3>5, <4>2, Advance DEF BeginFails
      <4>4. \A q \in Recorders : rec'[q].at \in Working => rec'[q] = rec[q]
        BY <1>1, <4>2, <4>3 DEF Recording
      <4> QED
        BY <1>1, <2>1, <3>2, <4>1, <4>4, ViewingSame
    <3> QED
      BY <1>7, <2>3, <3>3, <3>4, <3>5 DEF WriteStep
  <2> QED
    BY <2>2, <2>3
<1>8. ASSUME PruneStep, UNCHANGED feedVars PROVE Rest
  <2>1. CASE Wake \/ PruneFails
    BY <1>4, <1>5, <1>8, <2>1 DEF Wake, PruneFails
  <2>2. CASE PruneEvents \/ PruneDays
    <3>1. UNCHANGED <<rec, conn, now, booked>> /\ conn' = Nobody
      BY <2>2 DEF PruneEvents, PruneDays
    <3>2. Recording' /\ Viewing'
      BY <1>1, <3>1, RecordingSame, ViewingNone
    <3>3. Tables' /\ LogTable'
      BY <1>1, <2>2, TablesPrune DEF Tables
    <3>4. CASE PruneEvents
      BY <1>1, <1>5, <1>8, <3>2, <3>3, <3>4, PagingPrune
    <3>5. CASE PruneDays
      <4>1. UNCHANGED <<log, booked, walk>>
        BY <3>5 DEF PruneDays
      <4> QED
        BY <1>1, <1>5, <1>8, <3>2, <3>3, <4>1, PagingSame
    <3> QED
      BY <2>2, <3>4, <3>5
  <2> QED
    BY <1>8, <2>1, <2>2 DEF PruneStep
<1>9. ASSUME WalkStep, UNCHANGED feedVars PROVE Rest
  <2>1. UNCHANGED <<now, tableVars, booked, conn, work, rec>>
    BY <1>9 DEF WalkStep, StartWalk, NextPage, EndWalk
  <2>2. Recording' /\ Tables' /\ Viewing'
    BY <1>1, <1>3, <2>1, RecordingSame, TablesSame, ViewingSame
  <2>3. CASE EndWalk
    <3>1. Paging'
      BY <2>3 DEF EndWalk, Paging
    <3> QED
      BY <1>5, <1>9, <2>2, <3>1
  <2>4. CASE ~EndWalk
    <3>1. Paging'
      BY <1>1, <1>9, <2>4, PagingStart, PagingPage DEF WalkStep
    <3> QED
      BY <1>5, <1>9, <2>2, <3>1
  <2> QED
    BY <2>3, <2>4
<1>10. ASSUME Tick, UNCHANGED feedVars PROVE Rest
  <2>1. UNCHANGED <<tableVars, booked, conn, work, rec, walk, log>> /\ now' = now + 1 /\ now < MaxNow
    BY <1>10 DEF Tick, tableVars
  <2>2. MaxNow \in Nat
    BY LogAssumption
  <2>3. now' \in Days /\ now <= now'
    BY <1>1, <2>1, <2>2 DEF Days
  <2> QED
    BY <1>1, <1>5, <1>10, <2>1, <2>3, RecordingSame, TablesSame, ViewingSame, PagingSame
<1>11. ASSUME FeedNext, UNCHANGED logVars PROVE Rest
  <2>1. Feeding'
    <3>1. CASE \E s \in Streams : Connect(s) \/ Subscribe(s) \/ Deliver(s) \/ StreamEnds(s) \/ Leave(s)
      BY <1>1, <3>1, FeedingStream
    <3>2. CASE CloseFeed
      BY <1>1, <3>2, FeedingClose
    <3>3. CASE Stop \/ ServeFails \/ Drained \/ Deadline \/ CloseDB
      BY <1>1, <3>3, FeedingSame DEF Stop, ServeFails, Drained, Deadline, CloseDB
    <3> QED
      BY <1>11, <3>1, <3>2, <3>3 DEF FeedNext
  <2> QED
    BY <1>4, <1>11, <2>1 DEF logVars
<1>12. ASSUME NEW r \in Recorders, Publish(r), UNCHANGED <<now, tableVars, conn, work, prune, walk, booked>> PROVE Rest
  <2>1. Recording' /\ Feeding'
    BY <1>1, <1>12, RecordingStep, FeedingPublish
  <2>2. UNCHANGED <<log, booked, walk>>
    BY <1>12 DEF tableVars
  <2>3. \A q \in Recorders : rec'[q].at \in Working => rec'[q] = rec[q]
    BY <1>1, <1>12 DEF Publish, Recording, Working, Resting
  <2> QED
    BY <1>1, <1>3, <1>12, <2>1, <2>2, <2>3, TablesSame, ViewingSame, PagingSame
<1>13. CASE EndPrune
  BY <1>2, <1>4, <1>5, <1>13 DEF EndPrune, IInv
<1>14. CASE UNCHANGED vars
  BY <1>2, <1>4, <1>5, <1>14 DEF vars, logVars, IInv
<1>15. CASE LogNext /\ UNCHANGED feedVars
  BY <1>2, <1>6, <1>7, <1>8, <1>9, <1>10, <1>15 DEF LogNext, IInv
<1>16. CASE FeedNext /\ UNCHANGED logVars
  BY <1>2, <1>11, <1>16 DEF IInv
<1>17. CASE PublishNext
  BY <1>2, <1>12, <1>17 DEF PublishNext, IInv
<1> QED
  BY <1>13, <1>14, <1>15, <1>16, <1>17 DEF Next

LEMMA InvHolds == Spec => []IInv
BY InvInit, InvNext, PTL DEF Spec

\* Types, the exclusive connection, and no closed channel in the broadcaster's
\* map: neither a send nor a second close can panic (broadcaster.go, store.go).
THEOREM FeedTyped == Spec => []TypeOK
<1>1. IInv => TypeOK
  <2> SUFFICES ASSUME IInv PROVE TypeOK
    OBVIOUS
  <2>1. Recording /\ Feeding /\ Ending /\ Tables /\ Paging
    BY DEF IInv
  <2>2. \A i \in DOMAIN log : log[i] \in [ts : Days, kind : Kinds]
    <3>1. \A i \in 1 .. Len(booked) : booked[i] \in Event
      BY <2>1, ElementOfSeq DEF Tables, LogTable
    <3> QED
      BY <2>1, <3>1 DEF Tables, LogTable, Event
  <2>3. conn # Nobody => rec[conn].at \in {"insert", "count", "day", "commit"}
    BY <2>1 DEF Recording, Working
  <2>4. walk.at \in {"idle", "pages", "end"}
    BY <2>1, WalkPlaces
  <2>5. LogTypeOK
    BY <2>1, <2>2, <2>3, <2>4 DEF LogTypeOK, Recording, Tables, LogTable, DayTable, Ending, Days
  <2>6. \A s \in Streams : Fed(s)
    BY <2>1 DEF Feeding
  <2> QED
    BY <2>1, <2>5, <2>6 DEF TypeOK, Feeding, FeedType, Fed, Ending, Phases
<1> QED
  BY <1>1, InvHolds, PTL

\* The counters count every event committed, each day's row the day's, whatever
\* statement fails and whatever was pruned (Store.RecordEvent).
THEOREM TalliesExact == Spec => []TalliesAgree
<1>1. IInv => TalliesAgree
  <2> SUFFICES ASSUME IInv, NEW t \in Tally
               PROVE  /\ counters[t] = Booked(t, DOMAIN booked)
                      /\ \A d \in (now - MetricDays) .. MaxNow : DayCount(d, t) = Booked(t, On(d))
    BY DEF TalliesAgree, DayCount, On
  <2>1. CounterTable /\ DayTable /\ now \in Days
    BY DEF IInv, Tables, Recording
  <2>2. counters[t] = Booked(t, DOMAIN booked)
    BY <2>1 DEF CounterTable
  <2>3. now \in Int /\ MetricDays \in Int /\ MaxNow \in Int
    BY <2>1, LogAssumption DEF Days
  <2>4. \A d \in (now - MetricDays) .. MaxNow : d \in Int /\ d >= now - MetricDays
    BY <2>3
  <2> QED
    BY <2>1, <2>2, <2>4 DEF DayTable
<1> QED
  BY <1>1, InvHolds, PTL

\* Pages are in order and without repeats, and a walk that ends has shown every
\* row that was there throughout, whatever was recorded or pruned in between
\* (the keyset cursor of Store.Page).
THEOREM WalksComplete == Spec => []WalkComplete
<1>1. IInv => WalkComplete
  <2> SUFFICES ASSUME IInv, walk.at # "idle"
               PROVE  /\ \A i, j \in DOMAIN walk.seen : i < j => Before(walk.seen[i], walk.seen[j])
                      /\ walk.at = "end" => walk.owed \subseteq Among(walk.seen)
    BY DEF WalkComplete, Before, Among
  <2>1. PagingRead(walk)
    BY WalkPlaces DEF IInv
  <2> QED
    BY <2>1 DEF PagingRead, Sorted
<1> QED
  BY <1>1, InvHolds, PTL

\* Only a subscriber that was once full misses an event (Broadcaster.Publish).
THEOREM FeedsComplete == Spec => []FeedComplete
<1>1. IInv => FeedComplete
  BY DEF IInv, Feeding, FeedType, Fed, FeedComplete
<1> QED
  BY <1>1, InvHolds, PTL

\* The closers run after the last handler, whatever it was at, unless the drain
\* deadline passed or the main server failed, and the database is closed after the
\* prune loop (serve.go, app.close).
THEOREM ClosesOrderly == Spec => []OrderlyClose
<1>1. IInv => OrderlyClose
  BY DEF IInv, Ending, OrderlyClose
<1> QED
  BY <1>1, InvHolds, PTL
=============================================================================
