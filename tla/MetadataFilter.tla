--------------------------- MODULE MetadataFilter ---------------------------
(***************************************************************************)
(* Index documents (internal/proxy/metadata.go and index.go over the npm   *)
(* and PyPI adapters): fetched, rewritten so that every download link      *)
(* leads to the proxy, with the versions that policy would refuse hidden,  *)
(* and revalidated by the client with a tag of the rewritten body.         *)
(* Composed with the runtime policy, which the console may change between  *)
(* the verdicts on one document.                                           *)
(*                                                                         *)
(* A document is the set of versions it lists and the set of those whose   *)
(* link leads around the proxy; its tag is the document itself (a hash     *)
(* without collisions).  A PyPI page lists files; a file is a version      *)
(* here.  What upstream lists depends on the credentials it is asked with. *)
(* A request whose Host cannot form a link is answered 400 before any of   *)
(* this and is left out.                                                   *)
(***************************************************************************)
EXTENDS PolicyRuntime

CONSTANTS
  Clients,
  Creds,        \* values of Authorization and Cookie
  Pages,        \* npm "full", "abbreviated" and "manifest", PyPI "index"
  Listed,       \* page -> credentials -> versions upstream lists
  Published,    \* version -> publish time
  Unmappable,   \* versions whose name or link cannot form a path of the proxy
  Linkless,     \* versions without dist.tarball or url
  MaxNow,       \* bound on the clock
  NoVersion

ASSUME MetadataAssumption ==
  /\ Pages \subseteq {"full", "abbreviated", "manifest", "index"}
  /\ Listed \in [Pages -> [Creds -> SUBSET Versions]]
  /\ Published \in [Versions -> Int]
  /\ Unmappable \cap Linkless = {}
  /\ NoVersion \notin Versions
  /\ MaxNow \in Nat

VARIABLES
  now,
  flight,   \* metadataGroup: key -> what its leader asks upstream
  req,      \* per client: its request
  held,     \* per client: the copy of a document it keeps
  banned,   \* history: refusals, with their rule, in every state since the document came
  refused   \* history: versions refused in some state since it came

docVars == <<now, flight, req, held, banned, refused>>
vars    == <<policyVars, docVars>>

NoRequest == [at |-> "idle"]
NoCopy    == [via |-> "none"]

\* What upstream sends: every link leads to upstream.
Upstream(page, cred) ==
  [list |-> Listed[page][cred], around |-> Listed[page][cred] \ Linkless]

Packument(page) == page \in {"full", "abbreviated"}

IndexPage(page) == page = "index"

----------------------------------------------------------------------------
(* The verdict on one version. *)

Age(v) == now - Published[v]

Denied(v) == Evaluate(InForce, v, {}) = "denylisted"

Held(v) == Holds(Check(InForce, v, Age(v)))

Rules == {"deny", "age"}

\* What the filter can know of: the denylist, and the age where dates are given.
KnownRefusals(page) ==
  {<<"deny", v>> : v \in {x \in Versions : Denied(x)}}
    \cup {<<"age", v>> : v \in {x \in Versions : page = "full" /\ Held(x)}}

\* What the artifact gate refuses; it asks upstream for the date.
GateRefusals == {v \in Versions : Denied(v) \/ Held(v)}

\* The two histories follow the steps taken while a request holds its document
\* and is not answered.
Observe ==
  /\ banned' = [c \in Clients |->
       CASE req'[c].at = "done"   -> banned[c]
         [] req'[c].at = "filter" -> banned[c] \cap KnownRefusals(req[c].page)'
         [] OTHER                 -> Rules \X Versions]
  /\ refused' = [c \in Clients |->
       CASE req'[c].at = "done"   -> refused[c]
         [] req'[c].at = "filter" -> refused[c] \cup GateRefusals'
         [] OTHER                 -> {}]

----------------------------------------------------------------------------
(* The rewrite. *)

\* A link to a file of a PyPI page leads to /packages/ of some host, in a form
\* that every parser reads alike, and is served as a path of the proxy.
mapLink(v) == v \notin Unmappable

RewriteIndex(doc) == [list |-> {v \in doc.list : mapLink(v)}, around |-> {}]

\* A version's name forms a tarball path that is read back as that version.
npmTarballURL(v) == v \notin Unmappable

RewriteTarballs(doc) == [list |-> {v \in doc.list : v \in Linkless \/ npmTarballURL(v)}, around |-> {}]

\* Mutant of Rewritten: a link that cannot be rewritten stays as it was.
LinkKept(page, doc) == [list |-> doc.list, around |-> doc.around \cap Unmappable]

\* Every link leads to the proxy; what cannot be linked so is dropped.
Rewritten(page, doc) == IF IndexPage(page) THEN RewriteIndex(doc) ELSE RewriteTarballs(doc)

\* A rewrite of an npm document that leaves nothing fails the request.
Servable(page, doc) == IndexPage(page) \/ doc.list = {} \/ Rewritten(page, doc).list # {}

\* Mutant of Filtered: with everything rejected, nothing is listed.
FilteredBare(doc, cut) == [doc EXCEPT !.list = @ \ cut]

\* The rejected versions are hidden, unless that would hide everything.
Filtered(doc, cut) == IF doc.list \subseteq cut THEN doc ELSE [doc EXCEPT !.list = @ \ cut]

\* The tag of the body about to be sent is the one the client sent.
NotModified(copy, page, doc) == copy.via = "proxy" /\ copy.page = page /\ copy.doc = doc

----------------------------------------------------------------------------
(* Requests. *)

\* Mutant of FlightKey: callers with different credentials share a flight.
PageKey(page, cred) == page

\* The URI and Accept pick the page; credentialTag tells callers apart.
FlightKey(page, cred) == <<page, cred>>

\* A client holds nothing, or a copy it got from upstream itself.
DocInit ==
  /\ now = 0
  /\ flight = [k \in {} |-> NoRequest]
  /\ req = [c \in Clients |-> NoRequest]
  /\ \E page \in Pages, cred \in Creds :
       held \in [Clients -> {NoCopy, [via |-> "upstream", page |-> page, doc |-> Upstream(page, cred)]}]
  /\ banned = [c \in Clients |-> Rules \X Versions]
  /\ refused = [c \in Clients |-> {}]

\* Validators, ranges and codings are taken off the request; concurrent
\* requests for one document share a fetch, an index is fetched alone.
Ask(c, page, cred) ==
  /\ cur # NoPolicy /\ req[c] = NoRequest
  /\ req' = [req EXCEPT ![c] = [at |-> "wait", page |-> page, cred |-> cred]]
  /\ LET k == FlightKey(page, cred) IN
       flight' = IF IndexPage(page) \/ k \in DOMAIN flight THEN flight
                 ELSE [x \in DOMAIN flight \cup {k} |->
                         IF x = k THEN [page |-> page, cred |-> cred] ELSE flight[x]]
  /\ UNCHANGED <<now, held>>

\* A document arrives for a request, which rewrites it for itself.
Received(r, doc, cred) ==
  IF Servable(r.page, doc)
    THEN [at |-> "filter", page |-> r.page, cred |-> r.cred, from |-> cred,
          doc |-> Rewritten(r.page, doc), cut |-> {}, ver |-> NoVersion,
          todo |-> IF Packument(r.page) THEN Rewritten(r.page, doc).list ELSE {}]
    ELSE NoRequest

Waiters(k) ==
  {c \in Clients : req[c].at = "wait" /\ ~IndexPage(req[c].page) /\ FlightKey(req[c].page, req[c].cred) = k}

Land(k) == flight' = [x \in DOMAIN flight \ {k} |-> flight[x]]

\* The flight returns a document to everybody who waits for it.
Fetched(k) ==
  /\ k \in DOMAIN flight
  /\ req' = [c \in Clients |->
       IF c \in Waiters(k)
         THEN Received(req[c], Upstream(flight[k].page, flight[k].cred), flight[k].cred)
         ELSE req[c]]
  /\ Land(k)
  /\ UNCHANGED <<now, held>>

\* Every mirror failed, 204, or an answer that cannot be rewritten: too large,
\* an unknown coding, another status, unparseable.
FetchFailed(k) ==
  /\ k \in DOMAIN flight
  /\ req' = [c \in Clients |-> IF c \in Waiters(k) THEN NoRequest ELSE req[c]]
  /\ Land(k)
  /\ UNCHANGED <<now, held>>

\* An index, or no answer that can be rewritten.
IndexFetched(c) ==
  /\ req[c].at = "wait" /\ IndexPage(req[c].page)
  /\ \/ req' = [req EXCEPT ![c] = Received(@, Upstream(@.page, @.cred), @.cred)]
     \/ req' = [req EXCEPT ![c] = NoRequest]
  /\ UNCHANGED <<now, flight, held>>

\* An answer to an index without a document is relayed as it is: with 204 and an
\* unsolicited 304 the client stays with the copy it has, and a redirect the HTTP
\* client gave up on leads it to upstream's own.
IndexRelayed(c) ==
  /\ req[c].at = "wait" /\ IndexPage(req[c].page)
  /\ LET own == [via |-> "upstream", page |-> req[c].page, doc |-> Upstream(req[c].page, req[c].cred)] IN
       \E copy \in {held[c], own} : held' = [held EXCEPT ![c] = copy]
  /\ req' = [req EXCEPT ![c] = [at |-> "relayed", page |-> @.page, cred |-> @.cred]]
  /\ UNCHANGED <<now, flight>>

\* The denylist is asked first, of the policy in force at that moment.
DecideDeny(c, v) ==
  /\ req[c].at = "filter" /\ req[c].ver = NoVersion /\ v \in req[c].todo
  /\ req' = [req EXCEPT
       ![c].todo = @ \ {v},
       ![c].cut  = IF Denied(v) THEN @ \cup {v} ELSE @,
       ![c].ver  = IF ~Denied(v) /\ req[c].page = "full" THEN v ELSE NoVersion]
  /\ UNCHANGED <<now, flight, held>>

\* Then the age of a version the document gives a date for, of the policy in
\* force by then.
DecideAge(c) ==
  /\ req[c].at = "filter" /\ req[c].ver # NoVersion
  /\ req' = [req EXCEPT ![c].ver = NoVersion,
                        ![c].cut = IF Held(req[c].ver) THEN @ \cup {req[c].ver} ELSE @]
  /\ UNCHANGED <<now, flight, held>>

\* 304, or 200 with the body.
Send(c) ==
  /\ req[c].at = "filter" /\ req[c].ver = NoVersion /\ req[c].todo = {}
  /\ LET body == Filtered(req[c].doc, req[c].cut) IN
       held' = IF NotModified(held[c], req[c].page, body) THEN held
               ELSE [held EXCEPT ![c] = [via |-> "proxy", page |-> req[c].page, doc |-> body]]
  /\ req' = [req EXCEPT ![c] = [at |-> "done", page |-> @.page, cred |-> @.cred, from |-> @.from]]
  /\ UNCHANGED <<now, flight>>

Finish(c) ==
  /\ req[c].at \in {"done", "relayed"}
  /\ req' = [req EXCEPT ![c] = NoRequest]
  /\ UNCHANGED <<now, flight, held>>

\* The client goes away.  The flight is detached from it and goes on.
Hangup(c) ==
  /\ req[c].at \in {"wait", "filter"}
  /\ req' = [req EXCEPT ![c] = NoRequest]
  /\ UNCHANGED <<now, flight, held>>

Tick ==
  /\ now < MaxNow
  /\ now' = now + 1
  /\ UNCHANGED <<flight, req, held>>

\* With the process go its requests and flights.
Outage ==
  /\ Crash
  /\ req' = [c \in Clients |-> NoRequest]
  /\ flight' = [k \in {} |-> NoRequest]
  /\ UNCHANGED <<now, held>>

DocNext ==
  \/ \E c \in Clients :
       \/ \E page \in Pages, cred \in Creds : Ask(c, page, cred)
       \/ IndexFetched(c) \/ IndexRelayed(c) \/ DecideAge(c) \/ Send(c) \/ Finish(c) \/ Hangup(c)
       \/ \E v \in Versions : DecideDeny(c, v)
  \/ \E k \in DOMAIN flight : Fetched(k) \/ FetchFailed(k)
  \/ Tick

Init == PolicyInit /\ DocInit

Next ==
  /\ \/ DocNext /\ UNCHANGED policyVars
     \/ (Boot \/ EditNext) /\ UNCHANGED <<now, flight, req, held>>
     \/ Outage
  /\ Observe

Spec == Init /\ [][Next]_vars

----------------------------------------------------------------------------
(* Properties. *)

Documents == [list : SUBSET Versions, around : SUBSET Versions]

TypeOK ==
  /\ now \in 0 .. MaxNow
  /\ \A k \in DOMAIN flight : flight[k] \in [page : Pages, cred : Creds]
  /\ \A c \in Clients :
       /\ req[c].at \in {"idle", "wait", "filter", "done", "relayed"}
       /\ req[c].at = "filter" => /\ req[c].doc \in Documents
                                  /\ req[c].todo \cup req[c].cut \subseteq req[c].doc.list
                                  /\ req[c].ver \in Versions \cup {NoVersion}
       /\ held[c] = NoCopy \/ held[c].doc \in Documents
  /\ lock \in Editors \cup {NoEditor}
  /\ lock # NoEditor => call[lock].at \in {"saving", "installing"}

Served(c) == req[c].at = "done"

Relayed(c) == req[c].at = "relayed" /\ IndexPage(req[c].page)

\* The copy an answered client is left with, by a 200 or by a 304 that confirms
\* the one it had, has no link around the proxy; the exception is an index whose
\* upstream answered without a document, which proxyIndex relays.  A packument
\* lists no version that one rule of the policy refused all the time it was being
\* filtered (proxyMetadata), unless every version it lists was refused at some time.
SafeDocument ==
  \A c \in Clients : Served(c) \/ req[c].at = "relayed" =>
    \/ Relayed(c)
    \/ /\ held[c].via = "proxy" /\ held[c].doc.around = {}
       /\ Packument(req[c].page) =>
            \/ (Rules \X held[c].doc.list) \cap banned[c] = {}
            \/ held[c].doc.list \subseteq refused[c]

\* A version is missing from a packument only because its link cannot be
\* mapped, or because the artifact gate, asked during the request, would have
\* refused it; and a package that can be served has a version to resolve to.
HiddenForCause ==
  \A c \in Clients : Served(c) /\ Packument(req[c].page) =>
    LET all == Listed[req[c].page][req[c].cred] IN
    /\ all \ held[c].doc.list \subseteq Unmappable \cup refused[c]
    /\ all \ Unmappable # {} => held[c].doc.list # {}

\* A request works on a document fetched with its own credentials, whoever led
\* the fetch (fetchMetadataDocument, credentialTag).
OwnDocument ==
  \A c \in Clients : req[c].at \in {"filter", "done"} => req[c].from = req[c].cred
=============================================================================
