----------------------------- MODULE MCAccounts -----------------------------
(* Instances of Accounts for TLC. *)
EXTENDS Accounts, TLC

CONSTANT StartClock

\* A table with nobody in it, and one where everybody is an administrator with
\* a lasting password and a session: the latter takes two writes a user.
MCInit ==
  \/ Start(StartClock, [n \in Names |-> NoUser], [n \in Names |-> 0], {})
  \/ \E p \in Passwords :
       Start(StartClock,
             [n \in Names |-> [pw |-> p, role |-> "admin", off |-> FALSE, must |-> FALSE, ver |-> StartClock]],
             [n \in Names |-> StartClock],
             {[sub |-> n, ver |-> StartClock, at |-> StartClock] : n \in Names})

MCSpec == MCInit /\ [][Next]_vars

Symmetry == Permutations(Requests) \cup Permutations(Passwords)
=============================================================================
