-------------------------- MODULE MCMetadataFilter --------------------------
(***************************************************************************)
(* An instance of MetadataFilter for TLC: one package with an old version, *)
(* a new one and one whose name cannot be linked.                          *)
(*                                                                         *)
(* Requests and edits meet in the policy in force alone, so that few of    *)
(* them at a time show what can happen.  The YAML file picks the case: the *)
(* shipped one has a client with an editor, or with a second client; the   *)
(* others have both editors, old rows and no clients.                      *)
(***************************************************************************)
EXTENDS MetadataFilter, FiniteSets, TLC

CONSTANTS old, new, odd, public, token, e1, c1, c2

MCVersions == {old, new, odd}

MCEntries == {"npm/p", "npm/p@new"}

MCCovers == "npm/p" :> MCVersions @@ "npm/p@new" :> {new}

MCListed ==
  "full" :> (public :> {old, new, odd} @@ token :> {new}) @@
  "abbreviated" :> (public :> {old, new} @@ token :> {new}) @@
  "manifest" :> (public :> {odd} @@ token :> {new}) @@
  "index" :> (public :> {old, odd} @@ token :> {odd})

MCPublished == old :> -3 @@ new :> 0 @@ odd :> -3

Shipped ==
  [mode |-> "enforce", age |-> 1, sev |-> "HIGH", supply |-> {}, cve |-> {}, deny |-> {}]

\* Another file, and one whose mode is misspelt.
MCSeeds == {Shipped, [Shipped EXCEPT !.age = 2], [Shipped EXCEPT !.mode = "Enforce"]}

MCLegacyRows == {[params |-> [Shipped EXCEPT !.deny = {"npm/p"}], legacy |-> {"npm/p@new"}]}

DenyChanges ==
  { [kind |-> "put", fields |-> [deny |-> {}]],
    [kind |-> "add", list |-> "deny", entry |-> "npm/p@new"] }

MCChanges == DenyChanges \cup
  { [kind |-> "put", fields |-> [age |-> 0, mode |-> "enforce"]],
    [kind |-> "remove", list |-> "deny", entry |-> "npm/p@new"],
    [kind |-> "add", list |-> "supply", entry |-> "npm"] }

Unedited == call = [e \in Editors |-> Free] /\ cur \in {Shipped, NoPolicy}

\* Requests next to edits: one client, asking for a packument.
Narrow ==
  /\ \A e \in Editors : call[e] # Free => e = e1
  /\ \A e \in Editors : call[e].at = "asked" => call[e].change \in DenyChanges
  /\ req[c2] = NoRequest /\ held[c2] = NoCopy
  /\ req[c1] # NoRequest => Packument(req[c1].page)
  /\ held[c1] # NoCopy => held[c1].page = "full"
  /\ Cardinality(DOMAIN flight) <= 1

\* Requests on their own: two clients, with at most two fetches in the air.
Wide ==
  /\ Unedited
  /\ req[c2] # NoRequest => req[c2].page = "full"
  /\ held[c2] # NoCopy => held[c1] = NoCopy
  /\ Cardinality(DOMAIN flight) <= 2

Focus ==
  IF seed = Shipped
    THEN crashes = 0 /\ (Narrow \/ Wide)
    ELSE req = [c \in Clients |-> NoRequest] /\ now = 0

MCInit ==
  /\ Init
  /\ seed = Shipped => stored = NoRow
  /\ held \in [Clients -> {NoCopy} \cup {[via |-> "upstream", page |-> "full", doc |-> Upstream("full", public)]}]
  /\ seed # Shipped => held = [c \in Clients |-> NoCopy]
  /\ held[c2] = NoCopy

FocusStep == Focus'

MCSpec == MCInit /\ [][Next]_vars
=============================================================================
