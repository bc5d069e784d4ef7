--------------------------- MODULE UpstreamFetch ---------------------------
(***************************************************************************)
(* One logical fetch over an ordered list of mirrors: the loops of         *)
(* downloadFromUpstreams and forwardUpstream in internal/proxy/handler.go  *)
(* and of the adapters' FetchMetadata, the attempts they record            *)
(* (internal/upstream/attempts.go) and the status the client gets when     *)
(* every mirror failed.                                                    *)
(*                                                                         *)
(* A fetch is a call of UpstreamTransport that goes to one mirror after    *)
(* the other; all fetches share the transport and so its circuit           *)
(* breakers.  "404" stands for 404 and 410, "500" for every other status   *)
(* of 400 and more, "cut" for a 200 whose body could not be used.          *)
(***************************************************************************)
EXTENDS UpstreamTransport, Sequences, FiniteSetsExt

CONSTANT Jobs    \* what each fetch may be asked for: a kind and an adapter's mirrors

\* A gated download, a request proxied as it is, and the publish date lookup.
FetchKinds == {"download", "transparent", "metadata"}

ASSUME FetchAssumption ==
  \A q \in Calls : \A j \in Jobs[q] : j[1] \in FetchKinds /\ j[2] \in Seq(Hosts)

VARIABLES
  fpc,      \* where each fetch is
  kind,     \* what it fetches
  mirrors,  \* the mirrors it has not tried yet
  atts,     \* upstream.Attempts, one [host, st] per failed mirror
  reply,    \* the status the client gets, "none" before
  hint,     \* the Retry-After it gets, 0 for none
  said      \* history: every mirror's own outcome for this fetch

fetchVars == <<fpc, kind, mirrors, atts, reply, hint, said>>
vars      == <<netVars, fetchVars>>

Outcomes == {"404", "429", "503", "500", "open", "failed", "cut"}
Attempt  == [host : Hosts, st : Outcomes]
Replies  == {"200", "400", "403", "404", "429", "500", "502", "503"}

TypeOK ==
  /\ NetTypeOK
  /\ fpc \in [Calls -> {"idle", "try", "call", "body", "done"}]
  /\ kind \in [Calls -> FetchKinds]
  /\ mirrors \in [Calls -> Seq(Hosts)]
  /\ atts \in [Calls -> Seq(Attempt)]
  /\ reply \in [Calls -> Replies \cup {"none"}]
  /\ hint \in [Calls -> Nat]
  /\ said \in [Calls -> SUBSET (Hosts \X (Outcomes \cup {"200", "large"}))]

FGoto(q, l) == fpc' = [fpc EXCEPT ![q] = l]

\* The history notes what host h did to fetch q.
Says(q, h, o) == said' = [said EXCEPT ![q] = @ \cup {<<h, o>>}]

Respond(q, s, d) ==
  /\ FGoto(q, "done")
  /\ reply' = [reply EXCEPT ![q] = s]
  /\ hint' = [hint EXCEPT ![q] = d]
-----------------------------------------------------------------------------
(* What a list of attempts amounts to *)

AllNotFound(a) == a # <<>> /\ \A i \in DOMAIN a : a[i].st = "404"

Absent(o)   == o = "404"
Throttle(o) == o \in {"429", "503", "open"}

\* A fast-failed mirror counts with the status that opened its circuit, as the
\* breaker has it at this moment and not at the moment of the attempt.
AttemptStatus(at) ==
  IF at.st # "open" THEN at.st ELSE IF isOpen(at.host) THEN ThrottleStatus(at.host) ELSE "429"

\* The loop of Throttled: it gives up at an attempt that is neither absent nor
\* throttled, keeps a 429 once it has one, and takes the shortest cooldown.
Throttled(a) ==
  LET throttled == {i \in DOMAIN a : Throttle(a[i].st)}
      cooldowns == {left[a[i].host] : i \in throttled} \ {0}
  IN [ok   |-> throttled # {} /\ \A i \in DOMAIN a : Absent(a[i].st) \/ Throttle(a[i].st),
      st   |-> IF \E i \in throttled : AttemptStatus(a[i]) = "429" THEN "429" ELSE "503",
      wait |-> IF cooldowns = {} THEN 0 ELSE Min(cooldowns)]
-----------------------------------------------------------------------------
(* The loop over the mirrors *)

\* No upstream configured, and a request body the client does not deliver, are
\* local failures.
Begin(q, k, ms) ==
  /\ fpc[q] = "idle"
  /\ kind' = [kind EXCEPT ![q] = k]
  /\ mirrors' = [mirrors EXCEPT ![q] = ms]
  /\ \/ ms # <<>> /\ FGoto(q, "try") /\ UNCHANGED <<reply, hint>>
     \/ ms = <<>> /\ Respond(q, IF k = "metadata" THEN "502" ELSE "500", 0)
     \/ ms # <<>> /\ k = "transparent" /\ Respond(q, "400", 0)
  /\ UNCHANGED <<atts, said>>
  /\ UNCHANGED netVars

\* The next mirror in order.
Try(q) ==
  /\ fpc[q] = "try"
  /\ mirrors[q] # <<>>
  /\ RoundTrip(q, Head(mirrors[q]))
  /\ mirrors' = [mirrors EXCEPT ![q] = Tail(@)]
  /\ FGoto(q, "call")
  /\ UNCHANGED <<kind, atts, reply, hint, said>>

\* Mutant of Failed: a mirror that sent no status is not recorded.
FailedUnrecorded(q, o) ==
  /\ Says(q, chost[q], o)
  /\ atts' = IF o \in {"open", "failed"} THEN atts
             ELSE [atts EXCEPT ![q] = Append(@, [host |-> chost[q], st |-> o])]
  /\ FGoto(q, "try")
  /\ UNCHANGED <<kind, mirrors, reply, hint>>

\* Attempts.Add, and on to the next mirror.
Failed(q, o) ==
  /\ Says(q, chost[q], o)
  /\ atts' = [atts EXCEPT ![q] = Append(@, [host |-> chost[q], st |-> o])]
  /\ FGoto(q, "try")
  /\ UNCHANGED <<kind, mirrors, reply, hint>>

\* Mutant of Answer: a fast-failed mirror is waited for.
AnswerWaitsOpen(q) ==
  /\ fpc[q] = "call"
  /\ cpc[q] = "result"
  /\ \/ ans[q] \notin {"200", "open"} /\ Close(q) /\ Failed(q, ans[q])
     \/ /\ ans[q] = "200"
        /\ Read(q)
        /\ FGoto(q, "body")
        /\ UNCHANGED <<kind, mirrors, atts, reply, hint, said>>

\* A mirror's answer: below 400 the body is read, else the next mirror is tried.
Answer(q) ==
  /\ fpc[q] = "call"
  /\ cpc[q] = "result"
  /\ \/ ans[q] # "200" /\ Close(q) /\ Failed(q, ans[q])
     \/ /\ ans[q] = "200"
        /\ Read(q)
        /\ FGoto(q, "body")
        /\ UNCHANGED <<kind, mirrors, atts, reply, hint, said>>

\* The body arrives, is too large for the cap (no other mirror is asked), or
\* cannot be read, written or decoded.
Body(q) ==
  /\ fpc[q] = "body"
  /\ Close(q)
  /\ \/ /\ Says(q, chost[q], "200")
        /\ Respond(q, "200", 0)
        /\ UNCHANGED <<kind, mirrors, atts>>
     \/ /\ kind[q] = "download"
        /\ Says(q, chost[q], "large")
        /\ Respond(q, "403", 0)
        /\ UNCHANGED <<kind, mirrors, atts>>
     \/ kind[q] # "transparent" /\ Failed(q, "cut")

\* Every mirror failed: 404, the throttle status, or 502; the metadata lookup
\* has no case for absence.
GiveUp(q) ==
  /\ fpc[q] = "try"
  /\ mirrors[q] = <<>>
  /\ LET t == Throttled(atts[q]) IN
     \/ kind[q] # "metadata" /\ AllNotFound(atts[q]) /\ Respond(q, "404", 0)
     \/ t.ok /\ Respond(q, t.st, t.wait)
     \/ ~t.ok /\ (kind[q] = "metadata" \/ ~AllNotFound(atts[q])) /\ Respond(q, "502", 0)
  /\ UNCHANGED <<kind, mirrors, atts, said>>
  /\ UNCHANGED netVars

Leave(q) ==
  /\ fpc[q] = "done"
  /\ FGoto(q, "idle")
  /\ kind' = [kind EXCEPT ![q] = "download"]
  /\ mirrors' = [mirrors EXCEPT ![q] = <<>>]
  /\ atts' = [atts EXCEPT ![q] = <<>>]
  /\ reply' = [reply EXCEPT ![q] = "none"]
  /\ hint' = [hint EXCEPT ![q] = 0]
  /\ said' = [said EXCEPT ![q] = {}]
  /\ UNCHANGED netVars

NetStep(q) == Inner(q) /\ UNCHANGED fetchVars
Tick       == NetTick /\ UNCHANGED fetchVars
-----------------------------------------------------------------------------
Init ==
  /\ NetInit
  /\ fpc = [q \in Calls |-> "idle"]
  /\ kind = [q \in Calls |-> "download"]
  /\ mirrors = [q \in Calls |-> <<>>]
  /\ atts = [q \in Calls |-> <<>>]
  /\ reply = [q \in Calls |-> "none"]
  /\ hint = [q \in Calls |-> 0]
  /\ said = [q \in Calls |-> {}]

FetchStep(q) == Try(q) \/ Answer(q) \/ Body(q) \/ GiveUp(q) \/ NetStep(q)

Next ==
  \/ \E q \in Calls :
       \/ \E j \in Jobs[q] : Begin(q, j[1], j[2])
       \/ FetchStep(q)
       \/ Leave(q)
  \/ Tick

Spec == Init /\ [][Next]_vars

\* A body the client waits for: only the idle timeout bounds it, so one that keeps
\* arriving never ends.  A metadata document has the adapter client's 30 seconds.
Unbounded(q) == fpc[q] = "body" /\ kind[q] # "metadata"

\* What a fetch does of itself.  A call on the network ends, by the idle timeout at
\* the latest; that a client goes away is not counted on.
Runs(q) ==
  \/ Try(q) \/ Answer(q) \/ GiveUp(q)
  \/ ~Unbounded(q) /\ Body(q)
  \/ /\ Fail(q) \/ Account(q) \/ \E s \in Answers : Reply(q, s)
     /\ UNCHANGED fetchVars

\* Its way through the limiters.  Nothing but MaxDebt ever stops reserve, and the
\* senders that block on a semaphore's channel are let in first come, first served.
Passes(q) == (Reserve(q) \/ Acquire(q)) /\ UNCHANGED fetchVars

\* Goroutines run and time passes.
Fairness == WF_vars(Tick) /\ \A q \in Calls : WF_vars(Runs(q)) /\ SF_vars(Passes(q))
FairSpec == Spec /\ Fairness
-----------------------------------------------------------------------------
(* Properties *)

Told(q) == {x[2] : x \in said[q]}

\* README: "If every upstream returns 404/410 the client gets a 404.  If the
\* rest returned 404/410 but some were throttled ..., the client gets 429
\* (503 ...); any other failure mix yields a 502."  Told from what the mirrors
\* really did for this fetch, while others open and close their circuits: an
\* absence is never claimed on behalf of a mirror that did not say so.
ReplyJustified ==
  \A q \in Calls :
    /\ reply[q] = "404" => \A o \in Told(q) : Absent(o)
    /\ reply[q] \in {"429", "503"} =>
         (\E o \in Told(q) : Throttle(o)) /\ (\A o \in Told(q) : Absent(o) \/ Throttle(o))
    /\ reply[q] = "503" => "429" \notin Told(q)
    /\ reply[q] = "502" /\ kind[q] # "metadata" => \E o \in Told(q) : ~Absent(o) /\ ~Throttle(o)

\* A fetch is never stuck behind its mirrors: whatever they answer, and however
\* the fetches compete for tokens, slots and circuits, it ends with a reply, unless
\* a body it reads never stops arriving.  Nobody else's fetch waits for that body.
FetchEnds == \A q \in Calls : <>[]Unbounded(q) \/ (fpc[q] = "try" ~> fpc[q] = "done")
=============================================================================
