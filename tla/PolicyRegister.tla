--------------------------- MODULE PolicyRegister ---------------------------
(***************************************************************************)
(* What the console and the gates may assume of the runtime policy: one    *)
(* value, which edits change one at a time.  An edit is applied to the     *)
(* value it finds and is applied once, or it leaves the value alone and    *)
(* its editor is told so.  A restart loses the calls in progress, of which *)
(* at most one may have been applied without its editor hearing of it, and *)
(* loses nothing else.                                                     *)
(***************************************************************************)
CONSTANTS
  Editors,
  Changes,         \* what an edit may ask for
  Values,
  Legal(_, _),     \* a change may be made to a value
  Outcome(_, _)    \* and what it makes of it

VARIABLES
  value,
  call             \* per editor: its change, and how the call stands

Free == [at |-> "idle"]

Init == value \in Values /\ call = [e \in Editors |-> Free]

Begin(e, c) ==
  /\ call[e] = Free
  /\ call' = [call EXCEPT ![e] = [at |-> "open", change |-> c]]
  /\ UNCHANGED value

Apply(e) ==
  /\ call[e].at = "open" /\ Legal(call[e].change, value)
  /\ value' = Outcome(call[e].change, value)
  /\ call' = [call EXCEPT ![e] = [at |-> "applied"]]

Refuse(e) ==
  /\ call[e].at = "open" /\ ~Legal(call[e].change, value)
  /\ call' = [call EXCEPT ![e] = [at |-> "refused"]]
  /\ UNCHANGED value

Fail(e) ==
  /\ call[e].at = "open"
  /\ call' = [call EXCEPT ![e] = [at |-> "failed"]]
  /\ UNCHANGED value

Answer(e) ==
  /\ call[e].at \in {"applied", "refused", "failed"}
  /\ call' = [call EXCEPT ![e] = Free]
  /\ UNCHANGED value

InDoubt == {e \in Editors : call[e].at = "open" /\ Legal(call[e].change, value)}

Restart ==
  /\ value' \in {value} \cup {Outcome(call[e].change, value) : e \in InDoubt}
  /\ call' = [e \in Editors |-> Free]

Next ==
  \/ \E e \in Editors :
       \/ \E c \in Changes : Begin(e, c)
       \/ Apply(e) \/ Refuse(e) \/ Fail(e) \/ Answer(e)
  \/ Restart

Spec == Init /\ [][Next]_<<value, call>>
=============================================================================
