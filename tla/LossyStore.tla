----------------------------- MODULE LossyStore -----------------------------
(***************************************************************************)
(* What a user of the artifact cache may count on.  A store holds at most  *)
(* one value under a key, and only a value that a client offered under     *)
(* that key and that was still on offer when it was placed.  It may lose   *)
(* any entry at any time.  A client that looks gets what the store holds   *)
(* at that moment.  A restart ends all offers; after an abrupt one the     *)
(* store may be back at what was safe.                                     *)
(*                                                                         *)
(* "At most one" is a set with at most one element.                        *)
(***************************************************************************)
CONSTANTS Keys, Values, Clients

VARIABLES
  shelf,   \* what the store holds under each key
  safe,    \* what an abrupt end would bring back
  offer,   \* what each client wants to store, with its key
  got      \* what each client was shown, with its key

storeState == <<shelf, safe, offer, got>>

\* A store over what an earlier process left behind.
Init ==
  /\ shelf \in [Keys -> {{}} \cup {{v} : v \in Values}]
  /\ safe = shelf
  /\ offer = [c \in Clients |-> {}]
  /\ got = [c \in Clients |-> {}]

Offer(c) ==
  /\ offer[c] = {}
  /\ \E k \in Keys, v \in Values : offer' = [offer EXCEPT ![c] = {<<k, v>>}]
  /\ UNCHANGED <<shelf, safe, got>>

Place(c) ==
  /\ \E k \in Keys, v \in Values :
       /\ offer[c] = {<<k, v>>}
       /\ shelf' = [shelf EXCEPT ![k] = {v}]
  /\ offer' = [offer EXCEPT ![c] = {}]
  /\ UNCHANGED <<safe, got>>

Withdraw(c) ==
  /\ offer' = [offer EXCEPT ![c] = {}]
  /\ UNCHANGED <<shelf, safe, got>>

Look(c) ==
  /\ \E k \in Keys : got' = [got EXCEPT ![c] = {<<k, v>> : v \in shelf[k]}]
  /\ UNCHANGED <<shelf, safe, offer>>

Forget(c) ==
  /\ got' = [got EXCEPT ![c] = {}]
  /\ UNCHANGED <<shelf, safe, offer>>

Lose(k) ==
  /\ shelf' = [shelf EXCEPT ![k] = {}]
  /\ UNCHANGED <<safe, offer, got>>

Keep(K) ==
  /\ safe' = [k \in Keys |-> IF k \in K THEN shelf[k] ELSE safe[k]]
  /\ UNCHANGED <<shelf, offer, got>>

Restart ==
  /\ shelf' \in {shelf, safe}
  /\ offer' = [c \in Clients |-> {}]
  /\ got' = [c \in Clients |-> {}]
  /\ UNCHANGED safe

Next ==
  \/ \E c \in Clients : Offer(c) \/ Place(c) \/ Withdraw(c) \/ Look(c) \/ Forget(c)
  \/ \E k \in Keys : Lose(k)
  \/ \E K \in SUBSET Keys : Keep(K)
  \/ Restart

Spec == Init /\ [][Next]_storeState
=============================================================================
