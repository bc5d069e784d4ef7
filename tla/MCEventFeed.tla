---------------------------- MODULE MCEventFeed ----------------------------
(***************************************************************************)
(* An instance of EventFeed for TLC.  The log and the feed meet in the     *)
(* order of a recorder's steps alone: either the log is written and pruned *)
(* while no stream is open, with one recorder when it is read as well, or  *)
(* one kind of event is streamed and the process ends.                     *)
(***************************************************************************)
EXTENDS EventFeed

MCKinds ==
  { [verdict |-> "PASS", gate |-> "malware", denied |-> FALSE],
    [verdict |-> "BLOCK", gate |-> "cve", denied |-> TRUE] }

Passing(k) == k.verdict = "PASS"

\* One event at most is a block: a listing by verdict skips it.
Blocks ==
  {i \in DOMAIN booked : ~Passing(booked[i].kind)}
    \cup {r \in Underway \ Busy : rec[r].at # "publish" /\ ~Passing(rec[r].ev.kind)}

LogOnly ==
  /\ Cardinality(Blocks) <= 1
  /\ phase = "serving" /\ stream = [s \in Streams |-> "idle"]
  /\ chan = [s \in Streams |-> NoChan]
  /\ walk.at # "idle" =>
       /\ \A r \in Detached : rec[r] = Resting
       /\ walk.verdict \in {"", "PASS"}

FeedOnly ==
  /\ walk.at = "idle" /\ now = 1
  /\ \A i \in DOMAIN booked : Passing(booked[i].kind)
  /\ \A r \in Recorders : r \in Underway \ Busy => Passing(rec[r].ev.kind)
  /\ phase = "serving" => prune = "wait" /\ Len(booked) <= 1
  /\ Len(booked) + Cardinality(Underway) <= 2

Focus == LogOnly \/ FeedOnly

\* While the log is read or time passes, a request has its outcome at once.
FocusStep == Focus' /\ (~FeedOnly /\ Busy # {} => Busy' = {})
=============================================================================
