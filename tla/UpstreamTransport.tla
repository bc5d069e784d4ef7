------------------------- MODULE UpstreamTransport -------------------------
(***************************************************************************)
(* The transport every upstream call goes through, as buildUpstream in     *)
(* cmd/jo-ei/upstream.go stacks it: circuit breaker                        *)
(* (internal/httpx/circuitbreaker.go) over rate limiter (ratelimit.go)     *)
(* over concurrency limiter (limiter.go) over idle timeout                 *)
(* (idletimeout.go) over the network.  Each layer keeps its state per      *)
(* host under its own lock, and a call moves through them one at a time.   *)
(*                                                                         *)
(* Times are relative: left is what remains of openUntil and wait what     *)
(* remains of a timer, so the clock itself is not needed.  A duration is   *)
(* an integer of Word values as int64 nanoseconds are in the code.         *)
(***************************************************************************)
EXTENDS Integers, FiniteSets

CONSTANTS
  Hosts, Calls,
  BaseDelay, MaxDelay,   \* the cooldown's bounds
  ShiftCap,              \* the backoff's exponent stops growing here (16)
  RetryAfters,           \* Retry-After values upstreams send, in seconds
  Second, Word,          \* a second, and 2^64, in units of time
  Rate, Burst,           \* tokens per unit of time and their cap; Rate 0 disables
  MaxConc,               \* calls per host; 0 disables
  MaxDebt,               \* bound on the tokens a bucket owes
  NoHost, NoHint         \* no host; no usable Retry-After header

Throttles == {"429", "503"}
Answers   == Throttles \cup {"200", "404", "500"}

ASSUME TransportAssumption ==
  /\ BaseDelay \in Nat /\ MaxDelay \in Nat /\ ShiftCap \in Nat
  /\ RetryAfters \subseteq Nat /\ NoHint \notin Nat
  /\ Second \in Nat \ {0} /\ Word \in Nat \ {0}
  /\ Rate \in Nat /\ Burst \in Nat \ {0} /\ MaxConc \in Nat /\ MaxDebt \in Nat
  /\ NoHost \notin Hosts

VARIABLES
  left,    \* time until a host's circuit closes
  fails,   \* consecutive throttles of a host
  status,  \* the status that last opened its circuit
  tokens,  \* its token bucket; negative when callers hold reservations
  slots,   \* calls in its semaphore
  cpc,     \* where each call is
  chost,   \* the host it goes to
  wait,    \* time left on its rate limiter timer
  ans      \* what it got: a status, "open" or "failed"

breakerVars == <<left, fails, status>>
limitVars   == <<tokens, slots>>
callVars    == <<cpc, chost, wait, ans>>
netVars     == <<breakerVars, limitVars, callVars>>

NetTypeOK ==
  /\ left \in [Hosts -> Nat]
  /\ fails \in [Hosts -> 0 .. ShiftCap + 1]
  /\ status \in [Hosts -> Throttles \cup {"none"}]
  /\ tokens \in [Hosts -> -MaxDebt .. Burst]
  /\ slots \in [Hosts -> Nat]
  /\ cpc \in [Calls -> {"idle", "reserve", "wait", "sent", "answer", "result", "body"}]
  /\ chost \in [Calls -> Hosts \cup {NoHost}]
  /\ wait \in [Calls -> Nat]
  /\ ans \in [Calls -> Answers \cup {"none", "open", "failed"}]

Goto(c, l) == cpc' = [cpc EXCEPT ![c] = l]
Larger(a, b)  == IF a > b THEN a ELSE b
Smaller(a, b) == IF a < b THEN a ELSE b

isOpen(h) == left[h] > 0

\* Throttle(host): the opening status, none when closed.
ThrottleStatus(h) == IF isOpen(h) THEN status[h] ELSE "none"
-----------------------------------------------------------------------------
(* The circuit breaker *)

\* Mutant of RoundTrip: the circuit is not consulted.
RoundTripUnchecked(c, h) ==
  /\ cpc[c] = "idle"
  /\ chost' = [chost EXCEPT ![c] = h]
  /\ Goto(c, "reserve")
  /\ UNCHANGED <<breakerVars, limitVars, wait, ans>>

\* A call to an open host fails at once; any other goes on to the limiters.
RoundTrip(c, h) ==
  /\ cpc[c] = "idle"
  /\ chost' = [chost EXCEPT ![c] = h]
  /\ \/ isOpen(h) /\ Goto(c, "result") /\ ans' = [ans EXCEPT ![c] = "open"]
     \/ ~isOpen(h) /\ Goto(c, "reserve") /\ UNCHANGED ans
  /\ UNCHANGED <<breakerVars, limitVars, wait>>

\* Arithmetic on time.Duration wraps around.
Wrap(n) == ((n + Word \div 2) % Word) - Word \div 2

\* trip's cooldown before the cap, j being the jitter.
Delay(ra, n, j) ==
  Wrap((IF ra = NoHint THEN BaseDelay * 2^Smaller(n - 1, ShiftCap) ELSE Wrap(ra * Second)) + j)

\* trip: the count only matters up to ShiftCap + 1; the cooldown is capped, one a
\* Retry-After asked for too, and never shortens the one there is.
trip(h, s, ra, j) ==
  /\ fails' = [fails EXCEPT ![h] = Smaller(@ + 1, ShiftCap + 1)]
  /\ status' = [status EXCEPT ![h] = s]
  /\ left' = [left EXCEPT ![h] = Larger(@, Smaller(Delay(ra, fails'[h], j), MaxDelay))]

\* reset keeps the status.
reset(h) ==
  /\ fails' = [fails EXCEPT ![h] = 0]
  /\ left' = [left EXCEPT ![h] = 0]
  /\ UNCHANGED status

\* The inner transport returned a response: the breaker looks at its status.
Account(c) ==
  /\ cpc[c] = "answer"
  /\ \/ /\ ans[c] \in Throttles
        /\ \E ra \in RetryAfters \cup {NoHint}, j \in 0 .. BaseDelay : trip(chost[c], ans[c], ra, j)
     \/ ans[c] \notin Throttles /\ reset(chost[c])
  /\ Goto(c, "result")
  /\ UNCHANGED <<limitVars, chost, wait, ans>>
-----------------------------------------------------------------------------
(* The limiters and the network *)

\* reserve takes a token, on credit if there is none, and says how long to wait.
Reserve(c) ==
  /\ cpc[c] = "reserve"
  /\ \/ Rate = 0 /\ UNCHANGED <<tokens, wait>>
     \/ /\ Rate > 0
        /\ tokens[chost[c]] > -MaxDebt
        /\ LET n == tokens[chost[c]] - 1 IN
           /\ tokens' = [tokens EXCEPT ![chost[c]] = n]
           /\ wait' = [wait EXCEPT ![c] = IF n >= 0 THEN 0 ELSE (Rate - 1 - n) \div Rate]
  /\ Goto(c, "wait")
  /\ UNCHANGED <<breakerVars, slots, chost, ans>>

\* Mutant of Acquire: the semaphore has one slot too many.
AcquireOneMore(c) ==
  /\ cpc[c] = "wait"
  /\ wait[c] = 0
  /\ slots[chost[c]] <= MaxConc
  /\ slots' = [slots EXCEPT ![chost[c]] = @ + 1]
  /\ Goto(c, "sent")
  /\ UNCHANGED <<breakerVars, tokens, chost, wait, ans>>

\* The timer has fired and the semaphore has room: the request is sent.
Acquire(c) ==
  /\ cpc[c] = "wait"
  /\ wait[c] = 0
  /\ MaxConc = 0 \/ slots[chost[c]] < MaxConc
  /\ slots' = IF MaxConc = 0 THEN slots ELSE [slots EXCEPT ![chost[c]] = @ + 1]
  /\ Goto(c, "sent")
  /\ UNCHANGED <<breakerVars, tokens, chost, wait, ans>>

\* The caller's context ends while the call waits; the token is not returned.
Cancel(c) ==
  /\ cpc[c] = "wait"
  /\ Goto(c, "result")
  /\ wait' = [wait EXCEPT ![c] = 0]
  /\ ans' = [ans EXCEPT ![c] = "failed"]
  /\ UNCHANGED <<breakerVars, limitVars, chost>>

Release(c) ==
  slots' = IF MaxConc = 0 THEN slots ELSE [slots EXCEPT ![chost[c]] = @ - 1]

\* No response: a connection error, a cancelled context or the idle timeout.
\* The breaker ignores it.
Fail(c) ==
  /\ cpc[c] = "sent"
  /\ Release(c)
  /\ Goto(c, "result")
  /\ ans' = [ans EXCEPT ![c] = "failed"]
  /\ UNCHANGED <<breakerVars, tokens, chost, wait>>

\* The response headers arrive; the slot is free while the body is still read.
Reply(c, s) ==
  /\ cpc[c] = "sent"
  /\ Release(c)
  /\ Goto(c, "answer")
  /\ ans' = [ans EXCEPT ![c] = s]
  /\ UNCHANGED <<breakerVars, tokens, chost, wait>>

\* The caller reads a 200's body, and drops any other result.
Read(c) ==
  /\ cpc[c] = "result"
  /\ ans[c] = "200"
  /\ Goto(c, "body")
  /\ UNCHANGED <<breakerVars, limitVars, chost, wait, ans>>

Close(c) ==
  /\ cpc[c] = "body" \/ (cpc[c] = "result" /\ ans[c] # "200")
  /\ Goto(c, "idle")
  /\ chost' = [chost EXCEPT ![c] = NoHost]
  /\ ans' = [ans EXCEPT ![c] = "none"]
  /\ UNCHANGED <<breakerVars, limitVars, wait>>

NetTick ==
  /\ left' = [h \in Hosts |-> Larger(left[h] - 1, 0)]
  /\ tokens' = [h \in Hosts |-> Smaller(tokens[h] + Rate, Burst)]
  /\ wait' = [c \in Calls |-> Larger(wait[c] - 1, 0)]
  /\ UNCHANGED <<fails, status, slots, cpc, chost, ans>>
-----------------------------------------------------------------------------
NetInit ==
  /\ left = [h \in Hosts |-> 0]
  /\ fails = [h \in Hosts |-> 0]
  /\ status = [h \in Hosts |-> "none"]
  /\ tokens = [h \in Hosts |-> Burst]
  /\ slots = [h \in Hosts |-> 0]
  /\ cpc = [c \in Calls |-> "idle"]
  /\ chost = [c \in Calls |-> NoHost]
  /\ wait = [c \in Calls |-> 0]
  /\ ans = [c \in Calls |-> "none"]

\* A step of the transport itself, between RoundTrip and its result.
Inner(c) ==
  \/ Reserve(c) \/ Acquire(c) \/ Cancel(c) \/ Fail(c) \/ Account(c)
  \/ \E s \in Answers : Reply(c, s)

NetNext ==
  \/ \E c \in Calls : (\E h \in Hosts : RoundTrip(c, h)) \/ Inner(c) \/ Read(c) \/ Close(c)
  \/ NetTick

NetSpec     == NetInit /\ [][NetNext]_netVars
FairNetSpec == NetSpec /\ WF_netVars(NetTick)
-----------------------------------------------------------------------------
(* Properties *)

InNetwork(h) == {c \in Calls : chost[c] = h /\ cpc[c] = "sent"}

\* The semaphore holds exactly the calls that are on the network, so no error
\* path, cancellation or timeout leaks a slot, and it never holds more than
\* MaxConc.
SlotsExact ==
  MaxConc > 0 => \A h \in Hosts : slots[h] = Cardinality(InNetwork(h)) /\ slots[h] <= MaxConc

\* An open circuit closes: the calls that were already on their way can extend
\* the cooldown, but nobody joins them while it lasts.
CircuitCloses == \A h \in Hosts : isOpen(h) ~> ~isOpen(h)
=============================================================================
