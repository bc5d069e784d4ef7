------------------------ MODULE UpstreamFetchProofs ------------------------
(***************************************************************************)
(* The limits of the upstream transport, proved for any number of hosts    *)
(* and calls, any limits, any Retry-After an upstream may send and any     *)
(* width of the duration type.                                             *)
(*                                                                         *)
(* SlotsExact is inductive once the calls that hold a slot are known to    *)
(* name a host, and the calls on the network to be finitely many: nothing  *)
(* bounds the calls there are.                                             *)
(*                                                                         *)
(* The fetch over a list of mirrors is a client of the transport: it uses  *)
(* it as its specification allows, and its reply follows from what the     *)
(* mirrors said.  ReplyJustified needs that a fetch's attempts are the     *)
(* mirrors' answers until it replies (Fetched), and that it never runs out *)
(* of mirrors without an attempt.                                          *)
(***************************************************************************)
EXTENDS UpstreamFetch, FiniteSetTheorems, TLAPS

\* A call inside the transport goes to a host, and has an answer to account for.
Addressed ==
  \A c \in Calls :
    /\ cpc[c] \in {"reserve", "wait", "sent", "answer"} => chost[c] \in Hosts
    /\ cpc[c] = "answer" => ans[c] \in Answers

SlotsFinite == \A h \in Hosts : IsFiniteSet(InNetwork(h))

IInv == NetTypeOK /\ Addressed /\ SlotsFinite /\ SlotsExact
-----------------------------------------------------------------------------
(* The cooldown *)

\* Durations are integers whatever wraps around.
LEMMA DelayInt ==
  ASSUME NEW ra \in RetryAfters \cup {NoHint}, NEW n \in Nat \ {0}, NEW j \in 0 .. BaseDelay
  PROVE  Delay(ra, n, j) \in Int
<1> USE TransportAssumption
<1>1. \A k \in Int : Wrap(k) \in Int
  BY DEF Wrap
<1>2. Smaller(n - 1, ShiftCap) \in Nat
  BY DEF Smaller
<1>3. BaseDelay * 2^Smaller(n - 1, ShiftCap) \in Int
  BY <1>2
<1>4. ra # NoHint => Wrap(ra * Second) \in Int
  BY <1>1
<1>5. QED BY <1>1, <1>3, <1>4 DEF Delay

\* trip opens a circuit for a while, however a duration wraps around.
LEMMA TripTyped ==
  ASSUME NetTypeOK, NEW h \in Hosts, NEW s \in Throttles,
         NEW ra \in RetryAfters \cup {NoHint}, NEW j \in 0 .. BaseDelay, trip(h, s, ra, j)
  PROVE  /\ fails' \in [Hosts -> 0 .. ShiftCap + 1] /\ status' \in [Hosts -> Throttles \cup {"none"}]
         /\ left' \in [Hosts -> Nat]
<1> USE TransportAssumption
<1>1. fails' \in [Hosts -> 0 .. ShiftCap + 1] /\ fails'[h] \in Nat \ {0}
  BY DEF NetTypeOK, trip, Smaller
<1>2. status' \in [Hosts -> Throttles \cup {"none"}]
  BY DEF NetTypeOK, trip
<1> DEFINE d == Delay(ra, fails'[h], j)
<1>3. d \in Int
  BY <1>1, DelayInt
<1> HIDE DEF d
<1>4. left' = [left EXCEPT ![h] = Larger(left[h], Smaller(d, MaxDelay))]
  BY DEF trip, NetTypeOK, d
<1>5. left[h] \in Nat
  BY DEF NetTypeOK
<1>6. Larger(left[h], Smaller(d, MaxDelay)) \in Nat
  BY <1>3, <1>5 DEF Larger, Smaller
<1>7. left' \in [Hosts -> Nat]
  BY <1>4, <1>6 DEF NetTypeOK
<1>8. QED BY <1>1, <1>2, <1>7

LEMMA AccountKeeps ==
  ASSUME IInv, NEW c \in Calls, Account(c)
  PROVE  NetTypeOK'
<1> USE TransportAssumption
<1>1. chost[c] \in Hosts
  BY DEF IInv, Addressed, Account
<1>2. ASSUME ans[c] \in Throttles, NEW ra \in RetryAfters \cup {NoHint}, NEW j \in 0 .. BaseDelay,
             trip(chost[c], ans[c], ra, j)
      PROVE  NetTypeOK'
  BY <1>1, <1>2, TripTyped DEF IInv, NetTypeOK, Account, Goto, limitVars
<1>3. ASSUME reset(chost[c]) PROVE NetTypeOK'
  BY <1>1, <1>3 DEF IInv, NetTypeOK, Account, Goto, limitVars, reset
<1>4. QED BY <1>2, <1>3 DEF Account
-----------------------------------------------------------------------------
(* Types *)

LEMMA TypeNext == IInv /\ [NetNext]_netVars => NetTypeOK'
<1> SUFFICES ASSUME IInv, [NetNext]_netVars PROVE NetTypeOK'
  OBVIOUS
<1> USE TransportAssumption DEF IInv, NetTypeOK, Goto, breakerVars, limitVars
<1>1. ASSUME NEW c \in Calls, NEW h \in Hosts, RoundTrip(c, h) PROVE NetTypeOK'
  BY <1>1 DEF RoundTrip
<1>2. ASSUME NEW c \in Calls, Reserve(c) PROVE NetTypeOK'
  <2>1. chost[c] \in Hosts
    BY <1>2 DEF Addressed, Reserve
  <2>2. CASE Rate = 0
    BY <1>2, <2>2 DEF Reserve
  <2>3. CASE Rate > 0
    <3> DEFINE n == tokens[chost[c]] - 1
               w == IF n >= 0 THEN 0 ELSE (Rate - 1 - n) \div Rate
    <3>1. n \in -MaxDebt .. Burst
      BY <1>2, <2>1, <2>3 DEF Reserve
    <3>2. w \in Nat
      BY <3>1, <2>3
    <3>3. tokens' = [tokens EXCEPT ![chost[c]] = n] /\ wait' = [wait EXCEPT ![c] = w]
      BY <1>2, <2>3 DEF Reserve
    <3> HIDE DEF n, w
    <3>4. QED BY <1>2, <2>1, <3>1, <3>2, <3>3 DEF Reserve
  <2>4. QED BY <2>2, <2>3
<1>3. ASSUME NEW c \in Calls, Acquire(c) PROVE NetTypeOK'
  BY <1>3 DEF Acquire, Addressed
<1>4. ASSUME NEW c \in Calls, Cancel(c) PROVE NetTypeOK'
  BY <1>4 DEF Cancel
<1>5. ASSUME NEW c \in Calls, Release(c), cpc[c] = "sent" PROVE slots' \in [Hosts -> Nat]
  <2>1. chost[c] \in Hosts /\ c \in InNetwork(chost[c])
    BY <1>5 DEF Addressed, InNetwork
  <2>2. IsFiniteSet(InNetwork(chost[c])) /\ Cardinality(InNetwork(chost[c])) \in Nat
    BY <2>1, FS_CardinalityType DEF SlotsFinite
  <2>3. Cardinality(InNetwork(chost[c])) # 0
    BY <2>1, <2>2, FS_EmptySet
  <2>4. MaxConc > 0 => slots[chost[c]] - 1 \in Nat
    BY <2>1, <2>2, <2>3 DEF SlotsExact
  <2>5. QED BY <1>5, <2>1, <2>4 DEF Release
<1>6. ASSUME NEW c \in Calls, Fail(c) \/ \E s \in Answers : Reply(c, s) PROVE NetTypeOK'
  BY <1>5, <1>6 DEF Fail, Reply
<1>7. ASSUME NEW c \in Calls, Read(c) \/ Close(c) PROVE NetTypeOK'
  BY <1>7 DEF Read, Close
<1>8. CASE NetTick
  <2>1. left' \in [Hosts -> Nat]
    BY <1>8 DEF NetTick, Larger
  <2>2. tokens' \in [Hosts -> -MaxDebt .. Burst]
    BY <1>8 DEF NetTick, Smaller
  <2>3. wait' \in [Calls -> Nat]
    BY <1>8 DEF NetTick, Larger
  <2>4. QED BY <1>8, <2>1, <2>2, <2>3 DEF NetTick
<1>9. CASE UNCHANGED netVars
  BY <1>9 DEF netVars, callVars
<1>10. QED BY <1>1, <1>2, <1>3, <1>4, <1>6, <1>7, <1>8, <1>9, AccountKeeps DEF NetNext, Inner
-----------------------------------------------------------------------------
(* The semaphore *)

LEMMA AddressedNext == IInv /\ [NetNext]_netVars => Addressed'
<1> SUFFICES ASSUME IInv, [NetNext]_netVars PROVE Addressed'
  OBVIOUS
<1> USE DEF IInv, NetTypeOK, Addressed, Goto
<1>1. ASSUME NEW c \in Calls, NEW h \in Hosts, RoundTrip(c, h) PROVE Addressed'
  BY <1>1 DEF RoundTrip
<1>2. ASSUME NEW c \in Calls, Reserve(c) \/ Acquire(c) \/ Cancel(c) \/ Fail(c) \/ Account(c)
      PROVE  Addressed'
  BY <1>2 DEF Reserve, Acquire, Cancel, Fail, Account
<1>3. ASSUME NEW c \in Calls, NEW s \in Answers, Reply(c, s) PROVE Addressed'
  BY <1>3 DEF Reply
<1>4. ASSUME NEW c \in Calls, Read(c) \/ Close(c) PROVE Addressed'
  BY <1>4 DEF Read, Close
<1>5. CASE NetTick \/ UNCHANGED netVars
  BY <1>5 DEF NetTick, netVars, callVars
<1>6. QED BY <1>1, <1>2, <1>3, <1>4, <1>5 DEF NetNext, Inner

\* The calls on the network and the semaphore stay as they are.
LEMMA NobodyMoves ==
  ASSUME IInv, slots' = slots, \A h \in Hosts : InNetwork(h)' = InNetwork(h)
  PROVE  SlotsFinite' /\ SlotsExact'
BY DEF IInv, SlotsFinite, SlotsExact

LEMMA AcquireExact ==
  ASSUME IInv, NEW c \in Calls, Acquire(c)
  PROVE  SlotsFinite' /\ SlotsExact'
<1>1. PICK g \in Hosts : g = chost[c]
  BY DEF IInv, Addressed, Acquire
<1>2. c \notin InNetwork(g)
  BY <1>1 DEF InNetwork, Acquire
<1>3. InNetwork(g)' = InNetwork(g) \cup {c}
  BY <1>1 DEF IInv, NetTypeOK, InNetwork, Acquire, Goto
<1>4. \A h \in Hosts \ {g} : InNetwork(h)' = InNetwork(h)
  BY <1>1 DEF IInv, NetTypeOK, InNetwork, Acquire, Goto
<1>5. IsFiniteSet(InNetwork(g)) /\ Cardinality(InNetwork(g)) \in Nat
  BY <1>1, FS_CardinalityType DEF IInv, SlotsFinite
<1>6. IsFiniteSet(InNetwork(g)') /\ Cardinality(InNetwork(g)') = Cardinality(InNetwork(g)) + 1
  BY <1>2, <1>3, <1>5, FS_AddElement
<1>7. MaxConc > 0 => slots'[g] = slots[g] + 1 /\ slots'[g] <= MaxConc /\ \A h \in Hosts \ {g} : slots'[h] = slots[h]
  BY <1>1, TransportAssumption DEF IInv, NetTypeOK, Acquire
<1>8. SlotsFinite'
  BY <1>1, <1>4, <1>6 DEF IInv, SlotsFinite
<1>9. SlotsExact'
  BY <1>1, <1>4, <1>5, <1>6, <1>7 DEF IInv, SlotsExact
<1>10. QED BY <1>8, <1>9

LEMMA ReleaseExact ==
  ASSUME IInv, NEW c \in Calls, cpc[c] = "sent", Release(c), NEW l, l # "sent", Goto(c, l), UNCHANGED chost
  PROVE  SlotsFinite' /\ SlotsExact'
<1>1. PICK g \in Hosts : g = chost[c]
  BY DEF IInv, Addressed
<1>2. c \in InNetwork(g)
  BY <1>1 DEF InNetwork
<1>3. InNetwork(g)' = InNetwork(g) \ {c}
  BY <1>1 DEF IInv, NetTypeOK, InNetwork, Goto
<1>4. \A h \in Hosts \ {g} : InNetwork(h)' = InNetwork(h)
  BY <1>1 DEF IInv, NetTypeOK, InNetwork, Goto
<1>5. IsFiniteSet(InNetwork(g)) /\ Cardinality(InNetwork(g)) \in Nat
  BY <1>1, FS_CardinalityType DEF IInv, SlotsFinite
<1>6. IsFiniteSet(InNetwork(g)') /\ Cardinality(InNetwork(g)') = Cardinality(InNetwork(g)) - 1
  BY <1>2, <1>3, <1>5, FS_RemoveElement
<1>7. MaxConc > 0 => slots'[g] = slots[g] - 1 /\ \A h \in Hosts \ {g} : slots'[h] = slots[h]
  BY <1>1, TransportAssumption DEF IInv, NetTypeOK, Release
<1>8. SlotsFinite'
  BY <1>1, <1>4, <1>6 DEF IInv, SlotsFinite
<1>9. SlotsExact'
  BY <1>1, <1>4, <1>5, <1>6, <1>7, TransportAssumption DEF IInv, SlotsExact
<1>10. QED BY <1>8, <1>9

LEMMA SlotsNext == IInv /\ [NetNext]_netVars => SlotsFinite' /\ SlotsExact'
<1> SUFFICES ASSUME IInv, [NetNext]_netVars PROVE SlotsFinite' /\ SlotsExact'
  OBVIOUS
<1>1. ASSUME NEW c \in Calls, NEW h \in Hosts, RoundTrip(c, h) PROVE SlotsFinite' /\ SlotsExact'
  <2>1. \A g \in Hosts : InNetwork(g)' = InNetwork(g)
    BY <1>1 DEF IInv, NetTypeOK, InNetwork, RoundTrip, Goto
  <2>2. QED BY <1>1, <2>1, NobodyMoves DEF RoundTrip, limitVars
<1>2. ASSUME NEW c \in Calls, Reserve(c) \/ Cancel(c) \/ Account(c) \/ Read(c) \/ Close(c)
      PROVE  SlotsFinite' /\ SlotsExact'
  <2>1. \A g \in Hosts : InNetwork(g)' = InNetwork(g)
    BY <1>2 DEF IInv, NetTypeOK, InNetwork, Reserve, Cancel, Account, Read, Close, Goto
  <2>2. slots' = slots
    BY <1>2 DEF Reserve, Cancel, Account, Read, Close, limitVars
  <2>3. QED BY <2>1, <2>2, NobodyMoves
<1>3. ASSUME NEW c \in Calls, Fail(c) PROVE SlotsFinite' /\ SlotsExact'
  BY <1>3, ReleaseExact DEF Fail
<1>4. ASSUME NEW c \in Calls, NEW s \in Answers, Reply(c, s) PROVE SlotsFinite' /\ SlotsExact'
  BY <1>4, ReleaseExact DEF Reply
<1>5. CASE NetTick \/ UNCHANGED netVars
  BY <1>5, NobodyMoves DEF NetTick, netVars, limitVars, callVars, InNetwork
<1>6. QED BY <1>1, <1>2, <1>3, <1>4, <1>5, AcquireExact DEF NetNext, Inner
-----------------------------------------------------------------------------
(* The theorems *)

LEMMA InvInit == NetInit => IInv
<1> SUFFICES ASSUME NetInit PROVE IInv
  OBVIOUS
<1>1. NetTypeOK /\ Addressed
  BY TransportAssumption DEF NetInit, NetTypeOK, Addressed
<1>2. \A h \in Hosts : InNetwork(h) = {}
  BY DEF NetInit, InNetwork
<1>3. SlotsFinite /\ SlotsExact
  BY <1>2, FS_EmptySet, TransportAssumption DEF NetInit, SlotsFinite, SlotsExact
<1>4. QED BY <1>1, <1>3 DEF IInv

LEMMA InvNext == IInv /\ [NetNext]_netVars => IInv'
  BY TypeNext, AddressedNext, SlotsNext DEF IInv

LEMMA InvHolds == NetSpec => []IInv
  BY InvInit, InvNext, PTL DEF NetSpec

\* The semaphore of a host holds exactly the calls on the network (limiter.go):
\* no answer, failure, cancellation or timeout leaks a slot or gives one back
\* twice, and no host has more calls at once than the limit.
THEOREM SlotsNeverLeak == NetSpec => []SlotsExact
<1>1. IInv => SlotsExact
  BY DEF IInv
<1>2. QED BY <1>1, InvHolds, PTL
-----------------------------------------------------------------------------
(* The fetch over an ordered list of mirrors, a client of the transport *)

Heard == Outcomes \cup Answers \cup {"none"}
Tried == [host : Hosts \cup {NoHost}, st : Heard]

FetchType ==
  /\ fpc = [q \in Calls |-> fpc[q]]
  /\ kind = [q \in Calls |-> kind[q]]
  /\ mirrors \in [Calls -> Seq(Hosts)]
  /\ atts \in [Calls -> Seq(Tried)]
  /\ reply = [q \in Calls |-> reply[q]]
  /\ said = [q \in Calls |-> said[q]]

States(q) == {atts[q][i].st : i \in DOMAIN atts[q]}

\* The verdict on one reply; ReplyJustified is this for every fetch.
Justified(q) ==
  /\ reply[q] = "404" => \A o \in Told(q) : Absent(o)
  /\ reply[q] \in {"429", "503"} =>
       /\ \E o \in Told(q) : Throttle(o)
       /\ \A o \in Told(q) : Absent(o) \/ Throttle(o)
  /\ reply[q] = "503" => "429" \notin Told(q)
  /\ reply[q] = "502" /\ kind[q] # "metadata" =>
       \E o \in Told(q) : ~Absent(o) /\ ~Throttle(o)

\* Until the fetch is over its attempts are what the mirrors said, and it never
\* runs out of mirrors without an attempt.
Fetched(q) ==
  /\ fpc[q] # "done" => reply[q] = "none" /\ Told(q) = States(q)
  /\ fpc[q] = "try" => mirrors[q] # <<>> \/ atts[q] # <<>>
  /\ Justified(q)

FetchInv == FetchType /\ \A q \in Calls : Fetched(q)

\* A step of fetch q, and what it comes to.
Alone(q) ==
  /\ \E x : fpc' = [fpc EXCEPT ![q] = x]
  /\ \E x : kind' = [kind EXCEPT ![q] = x]
  /\ \E x \in Seq(Hosts) : mirrors' = [mirrors EXCEPT ![q] = x]
  /\ \E x \in Seq(Tried) : atts' = [atts EXCEPT ![q] = x]
  /\ \E x : reply' = [reply EXCEPT ![q] = x]
  /\ \E x : said' = [said EXCEPT ![q] = x]

LEMMA SameFetched ==
  ASSUME NEW p, Fetched(p), fpc'[p] = fpc[p], kind'[p] = kind[p], mirrors'[p] = mirrors[p],
         atts'[p] = atts[p], reply'[p] = reply[p], said'[p] = said[p]
  PROVE  Fetched(p)'
<1>1. Told(p)' = Told(p)
  BY DEF Told
<1>2. States(p)' = States(p)
  BY DEF States
<1>3. Justified(p)'
  BY <1>1 DEF Fetched, Justified
<1> QED
  BY <1>1, <1>2, <1>3 DEF Fetched

LEMMA AloneKeeps ==
  ASSUME FetchInv, NEW q \in Calls, Alone(q), Fetched(q)'
  PROVE  FetchInv'
<1>1. FetchType'
  <2>1. FetchType
    BY DEF FetchInv
  <2>2. fpc' = [p \in Calls |-> fpc'[p]] /\ kind' = [p \in Calls |-> kind'[p]]
    BY <2>1 DEF FetchType, Alone
  <2>3. reply' = [p \in Calls |-> reply'[p]] /\ said' = [p \in Calls |-> said'[p]]
    BY <2>1 DEF FetchType, Alone
  <2>4. mirrors' \in [Calls -> Seq(Hosts)]
    BY <2>1 DEF FetchType, Alone
  <2>5. atts' \in [Calls -> Seq(Tried)]
    BY <2>1 DEF FetchType, Alone
  <2> QED
    BY <2>2, <2>3, <2>4, <2>5 DEF FetchType
<1>2. ASSUME NEW p \in Calls, p # q PROVE Fetched(p)'
  <2>1. /\ fpc'[p] = fpc[p] /\ kind'[p] = kind[p] /\ mirrors'[p] = mirrors[p]
        /\ atts'[p] = atts[p] /\ reply'[p] = reply[p] /\ said'[p] = said[p]
    BY <1>2 DEF FetchInv, FetchType, Alone
  <2>2. Fetched(p)
    BY DEF FetchInv
  <2> QED
    BY <2>1, <2>2, SameFetched
<1> QED
  BY <1>1, <1>2 DEF FetchInv

\* What is not assigned is assigned what it has.
LEMMA Same ==
  ASSUME FetchInv, NEW q \in Calls
  PROVE  /\ fpc = [fpc EXCEPT ![q] = fpc[q]] /\ kind = [kind EXCEPT ![q] = kind[q]]
         /\ mirrors = [mirrors EXCEPT ![q] = mirrors[q]] /\ mirrors[q] \in Seq(Hosts)
         /\ atts = [atts EXCEPT ![q] = atts[q]] /\ atts[q] \in Seq(Tried)
         /\ reply = [reply EXCEPT ![q] = reply[q]] /\ said = [said EXCEPT ![q] = said[q]]
  BY DEF FetchInv, FetchType

\* A step that only moves the fetch on.
LEMMA MovesOn ==
  ASSUME FetchInv, NEW q \in Calls, NEW l, l \notin {"try", "done"}, fpc[q] # "done", FGoto(q, l),
         UNCHANGED <<kind, atts, reply, said>>,
         \E x \in Seq(Hosts) : mirrors' = [mirrors EXCEPT ![q] = x]
  PROVE  FetchInv'
<1>1. Alone(q)
  BY Same DEF Alone, FGoto
<1>2. fpc'[q] = l /\ Fetched(q)
  BY DEF FGoto, FetchInv, FetchType
<1>3. Fetched(q)'
  BY <1>2 DEF Fetched, Justified, States, Told
<1> QED
  BY <1>1, <1>3, AloneKeeps

\* An attempt is recorded and the history agrees with it.
LEMMA FailedKeeps ==
  ASSUME FetchInv, NetTypeOK, NEW q \in Calls, NEW o \in Heard, fpc[q] # "done", Failed(q, o)
  PROVE  FetchInv'
<1> DEFINE at == [host |-> chost[q], st |-> o]
<1>1. at \in Tried
  BY DEF Tried, NetTypeOK
<1>2. /\ said' = [said EXCEPT ![q] = said[q] \cup {<<chost[q], o>>}]
      /\ atts' = [atts EXCEPT ![q] = Append(atts[q], at)]
      /\ fpc' = [fpc EXCEPT ![q] = "try"]
      /\ UNCHANGED <<kind, mirrors, reply>>
  BY DEF Failed, Says, FGoto
<1>3. atts[q] \in Seq(Tried) /\ Append(atts[q], at) \in Seq(Tried)
  BY <1>1, Same
<1>4. Alone(q)
  BY <1>2, <1>3, Same DEF Alone
<1>5. atts'[q] = Append(atts[q], at) /\ said'[q] = said[q] \cup {<<chost[q], o>>} /\ fpc'[q] = "try" /\ reply'[q] = reply[q]
  BY <1>2 DEF FetchInv, FetchType
<1>6. atts'[q] # <<>>
  <2>1. Len(atts[q]) \in Nat /\ Len(Append(atts[q], at)) = Len(atts[q]) + 1
    BY <1>1, <1>3
  <2>2. Len(atts'[q]) # 0
    BY <1>5, <2>1
  <2> QED
    BY <2>2
<1>7. Fetched(q)
  BY DEF FetchInv
<1>8. Told(q)' = Told(q) \cup {o}
  <2>1. <<chost[q], o>>[2] = o
    OBVIOUS
  <2>2. {x[2] : x \in said[q] \cup {<<chost[q], o>>}} = {x[2] : x \in said[q]} \cup {o}
    BY <2>1, Zenon
  <2> QED
    BY <1>5, <2>2 DEF Told
<1>9. States(q)' = States(q) \cup {o}
  <2>1. DOMAIN Append(atts[q], at) = DOMAIN atts[q] \cup {Len(atts[q]) + 1}
    BY <1>3
  <2>2. \A i \in DOMAIN atts[q] : Append(atts[q], at)[i] = atts[q][i]
    BY <1>3
  <2>3. Append(atts[q], at)[Len(atts[q]) + 1] = at
    BY <1>3
  <2> QED
    BY <1>5, <2>1, <2>2, <2>3 DEF States
<1>10. Fetched(q)'
  BY <1>5, <1>6, <1>7, <1>8, <1>9 DEF Fetched, Justified
<1> QED
  BY <1>4, <1>10, AloneKeeps

\* A reply that claims nothing of the mirrors.
LEMMA RespondKeeps ==
  ASSUME FetchInv, NEW q \in Calls, NEW s, NEW d, Respond(q, s, d),
         \E x : kind' = [kind EXCEPT ![q] = x],
         \E x \in Seq(Hosts) : mirrors' = [mirrors EXCEPT ![q] = x],
         \E x : said' = [said EXCEPT ![q] = x], UNCHANGED atts,
         s \notin {"404", "429", "502", "503"} \/ (s = "502" /\ kind'[q] = "metadata")
  PROVE  FetchInv'
<1>1. Alone(q)
  BY Same DEF Alone, Respond, FGoto
<1>2. fpc'[q] = "done" /\ reply'[q] = s
  BY DEF Respond, FGoto, FetchInv, FetchType
<1>3. Fetched(q)'
  BY <1>2 DEF Fetched, Justified
<1> QED
  BY <1>1, <1>3, AloneKeeps

\* The loops over the attempts read the mirrors' answers as the history has them.
LEMMA GiveUpKeeps ==
  ASSUME FetchInv, NEW q \in Calls, GiveUp(q)
  PROVE  FetchInv'
<1> DEFINE t == Throttled(atts[q])
<1>1. /\ Fetched(q) /\ fpc[q] = "try" /\ mirrors[q] = <<>> /\ atts[q] # <<>>
      /\ Told(q) = States(q)
  BY DEF GiveUp, FetchInv, Fetched
<1>2. UNCHANGED <<kind, mirrors, atts, said>> /\ Told(q)' = Told(q)
  BY DEF GiveUp, Told
<1>3. PICK s, d : Respond(q, s, d)
                  /\ \/ kind[q] # "metadata" /\ AllNotFound(atts[q]) /\ s = "404"
                     \/ t.ok /\ s = t.st
                     \/ ~t.ok /\ (kind[q] = "metadata" \/ ~AllNotFound(atts[q])) /\ s = "502"
  BY DEF GiveUp
<1>4. Alone(q)
  BY <1>2, <1>3, Same DEF Alone, Respond, FGoto
<1>5. fpc'[q] = "done" /\ reply'[q] = s
  BY <1>3 DEF Respond, FGoto, FetchInv, FetchType
<1>6. CASE AllNotFound(atts[q]) /\ s = "404"
  <2>1. \A o \in States(q) : Absent(o)
    BY <1>6 DEF AllNotFound, States, Absent
  <2> QED
    BY <1>1, <1>2, <1>4, <1>5, <1>6, <2>1, AloneKeeps DEF Fetched, Justified
<1>7. CASE t.ok /\ s = t.st
  <2>1. /\ \E i \in DOMAIN atts[q] : Throttle(atts[q][i].st)
        /\ \A i \in DOMAIN atts[q] : Absent(atts[q][i].st) \/ Throttle(atts[q][i].st)
    BY <1>7 DEF Throttled
  <2>2. s \in {"429", "503"}
    BY <1>7 DEF Throttled
  <2>3. ASSUME s = "503", NEW i \in DOMAIN atts[q] PROVE atts[q][i].st # "429"
    <3>1. SUFFICES ASSUME atts[q][i].st = "429" PROVE FALSE
      OBVIOUS
    <3>2. Throttle(atts[q][i].st) /\ AttemptStatus(atts[q][i]) = "429"
      BY <3>1 DEF Throttle, AttemptStatus
    <3>3. t.st = "429"
      BY <3>2 DEF Throttled
    <3> QED
      BY <1>7, <2>3, <3>3
  <2>4. /\ \E o \in States(q) : Throttle(o)
        /\ \A o \in States(q) : Absent(o) \/ Throttle(o)
        /\ s = "503" => "429" \notin States(q)
    BY <2>1, <2>3 DEF States
  <2> QED
    BY <1>1, <1>2, <1>4, <1>5, <2>2, <2>4, AloneKeeps DEF Fetched, Justified
<1>8. CASE ~t.ok /\ (kind[q] = "metadata" \/ ~AllNotFound(atts[q])) /\ s = "502"
  <2>1. CASE kind[q] = "metadata"
    BY <1>2, <1>4, <1>5, <1>8, <2>1, AloneKeeps DEF Fetched, Justified
  <2>2. CASE ~AllNotFound(atts[q])
    <3>1. PICK i \in DOMAIN atts[q] : ~Absent(atts[q][i].st)
      BY <1>1, <2>2 DEF AllNotFound, Absent
    <3>2. \E j \in DOMAIN atts[q] : ~Absent(atts[q][j].st) /\ ~Throttle(atts[q][j].st)
      BY <1>8, <3>1 DEF Throttled
    <3>3. \E o \in States(q) : ~Absent(o) /\ ~Throttle(o)
      BY <3>2 DEF States
    <3> QED
      BY <1>1, <1>2, <1>4, <1>5, <1>8, <3>3, AloneKeeps DEF Fetched, Justified
  <2> QED
    BY <1>8, <2>1, <2>2
<1> QED
  BY <1>3, <1>6, <1>7, <1>8

LEMMA FetchNext ==
  ASSUME FetchInv, NetTypeOK, [Next]_vars
  PROVE  FetchInv'
<1>1. ASSUME NEW q \in Calls, NEW j \in Jobs[q], Begin(q, j[1], j[2]) PROVE FetchInv'
  <2>1. j[2] \in Seq(Hosts)
    BY FetchAssumption
  <2>2. /\ fpc[q] = "idle" /\ kind' = [kind EXCEPT ![q] = j[1]] /\ mirrors' = [mirrors EXCEPT ![q] = j[2]]
        /\ UNCHANGED <<atts, said>>
    BY <1>1 DEF Begin
  <2>3. CASE j[2] # <<>> /\ FGoto(q, "try") /\ UNCHANGED reply
    <3>1. Alone(q)
      BY <2>1, <2>2, <2>3, Same DEF Alone, FGoto
    <3>2. Fetched(q) /\ fpc'[q] = "try" /\ mirrors'[q] # <<>>
      BY <2>2, <2>3 DEF FetchInv, FetchType, FGoto
    <3>3. Fetched(q)'
      BY <2>2, <2>3, <3>2 DEF Fetched, Justified, States, Told
    <3> QED
      BY <3>1, <3>3, AloneKeeps
  <2>4. CASE \E s : Respond(q, s, 0) /\ (s \in {"400", "500"} \/ (s = "502" /\ j[1] = "metadata"))
    <3>1. kind'[q] = j[1]
      BY <2>2 DEF FetchInv, FetchType
    <3>2. PICK s : Respond(q, s, 0) /\ (s \in {"400", "500"} \/ (s = "502" /\ j[1] = "metadata"))
      BY <2>4
    <3>3. /\ \E x : kind' = [kind EXCEPT ![q] = x]
          /\ \E x \in Seq(Hosts) : mirrors' = [mirrors EXCEPT ![q] = x]
          /\ \E x : said' = [said EXCEPT ![q] = x]
      BY <2>1, <2>2, Same
    <3>4. s \notin {"404", "429", "502", "503"} \/ (s = "502" /\ kind'[q] = "metadata")
      BY <3>1, <3>2
    <3> QED
      BY <2>2, <3>2, <3>3, <3>4, RespondKeeps
  <2> QED
    BY <1>1, <2>3, <2>4 DEF Begin
<1>2. ASSUME NEW q \in Calls, Try(q) PROVE FetchInv'
  <2>1. Tail(mirrors[q]) \in Seq(Hosts)
    BY <1>2, Same DEF Try
  <2> QED
    BY <1>2, <2>1, MovesOn DEF Try
<1>3. ASSUME NEW q \in Calls, Answer(q) PROVE FetchInv'
  <2>1. CASE Failed(q, ans[q])
    <3>1. ans[q] \in Heard
      BY DEF NetTypeOK, Heard, Outcomes
    <3> QED
      BY <1>3, <2>1, <3>1, FailedKeeps DEF Answer
  <2>2. CASE FGoto(q, "body") /\ UNCHANGED <<kind, mirrors, atts, reply, said>>
    BY <1>3, <2>2, Same, MovesOn DEF Answer
  <2> QED
    BY <1>3, <2>1, <2>2 DEF Answer
<1>4. ASSUME NEW q \in Calls, Body(q) PROVE FetchInv'
  <2>1. CASE Failed(q, "cut")
    BY <1>4, <2>1, FailedKeeps DEF Body, Heard, Outcomes
  <2>2. CASE \E o, s : /\ Says(q, chost[q], o) /\ Respond(q, s, 0) /\ s \in {"200", "403"}
                       /\ UNCHANGED <<kind, mirrors, atts>>
    <3>1. PICK o, s : /\ Says(q, chost[q], o) /\ Respond(q, s, 0) /\ s \in {"200", "403"}
                      /\ UNCHANGED <<kind, mirrors, atts>>
      BY <2>2
    <3>2. /\ \E x : kind' = [kind EXCEPT ![q] = x]
          /\ \E x \in Seq(Hosts) : mirrors' = [mirrors EXCEPT ![q] = x]
          /\ \E x : said' = [said EXCEPT ![q] = x]
      BY <3>1, Same DEF Says
    <3>3. s \notin {"404", "429", "502", "503"}
      BY <3>1
    <3> QED
      BY <3>1, <3>2, <3>3, RespondKeeps
  <2> QED
    BY <1>4, <2>1, <2>2 DEF Body
<1>5. ASSUME NEW q \in Calls, Leave(q) PROVE FetchInv'
  <2>1. Alone(q)
    <3>1. <<>> \in Seq(Hosts) /\ <<>> \in Seq(Tried)
      OBVIOUS
    <3> QED
      BY <1>5, <3>1 DEF Leave, Alone, FGoto
  <2>2. fpc'[q] = "idle" /\ reply'[q] = "none" /\ atts'[q] = <<>> /\ said'[q] = {}
    BY <1>5 DEF Leave, FGoto, FetchInv, FetchType
  <2>3. Fetched(q)'
    BY <2>2 DEF Fetched, Justified, States, Told
  <2> QED
    BY <2>1, <2>3, AloneKeeps
<1>6. CASE UNCHANGED fetchVars
  <2>1. UNCHANGED <<fpc, kind, mirrors, atts, reply, said>>
    BY <1>6 DEF fetchVars
  <2>2. FetchType'
    BY <2>1 DEF FetchInv, FetchType
  <2> QED
    BY <2>1, <2>2, SameFetched DEF FetchInv
<1> QED
  BY <1>1, <1>2, <1>3, <1>4, <1>5, <1>6, GiveUpKeeps
     DEF Next, FetchStep, NetStep, Tick, vars

\* A fetch calls the transport as the transport's specification lets it.
LEMMA FetchCalls ==
  ASSUME FetchInv, [Next]_vars
  PROVE  [NetNext]_netVars
<1>1. CASE \E q \in Calls : Try(q)
  <2>1. PICK q \in Calls : Try(q)
    BY <1>1
  <2>2. Head(mirrors[q]) \in Hosts
    BY <2>1, Same DEF Try
  <2>3. RoundTrip(q, Head(mirrors[q]))
    BY <2>1 DEF Try
  <2> QED
    BY <2>2, <2>3 DEF NetNext
<1>2. CASE \E q \in Calls : Answer(q) \/ Body(q) \/ NetStep(q)
  BY <1>2 DEF Answer, Body, NetStep, NetNext
<1>3. CASE Tick
  BY <1>3 DEF Tick, NetNext
<1>4. CASE UNCHANGED netVars
  BY <1>4
<1> QED
  BY <1>1, <1>2, <1>3, <1>4 DEF Next, FetchStep, Begin, GiveUp, Leave, vars

LEMMA FetchInvHolds == Spec => [](FetchInv /\ IInv)
<1>1. Init => FetchInv /\ IInv
  <2> SUFFICES ASSUME Init PROVE FetchInv /\ IInv
    OBVIOUS
  <2>1. IInv
    BY InvInit DEF Init
  <2>2. FetchType
    BY DEF Init, FetchType
  <2>3. \A q \in Calls : Fetched(q)
    BY DEF Init, Fetched, Justified, States, Told
  <2> QED
    BY <2>1, <2>2, <2>3 DEF FetchInv
<1>2. FetchInv /\ IInv /\ [Next]_vars => FetchInv' /\ IInv'
  BY FetchNext, FetchCalls, InvNext DEF IInv
<1> QED
  BY <1>1, <1>2, PTL DEF Spec

\* The loop over the mirrors, with any number of fetches at once, uses the
\* transport as its specification allows: what is proved of the transport
\* above holds under the proxy's own traffic.
THEOREM FetchUsesTransport == Spec => NetSpec
<1>1. Init => NetInit
  BY DEF Init
<1>2. FetchInv /\ [Next]_vars => [NetNext]_netVars
  BY FetchCalls
<1> QED
  BY <1>1, <1>2, FetchInvHolds, PTL DEF Spec, NetSpec

\* The client's status follows from what the mirrors really did for this fetch
\* (writeForwardError, Attempts.Throttled, Attempts.AllNotFound): an absence is
\* claimed only when every mirror said so, a throttle only when the rest were
\* absent, 502 only after another failure; for any number of mirrors and
\* fetches that open and close one another's circuits.
THEOREM RepliesJustified == Spec => []ReplyJustified
<1>1. FetchInv => ReplyJustified
  BY DEF FetchInv, Fetched, Justified, ReplyJustified
<1> QED
  BY <1>1, FetchInvHolds, PTL
=============================================================================
