------------------------ MODULE MetadataFilterProofs ------------------------
(***************************************************************************)
(* The runtime policy implements one register, and index documents follow  *)
(* it: proved for any editors, edits, clients and documents, any number of *)
(* crashes and any clock.                                                  *)
(*                                                                         *)
(* The policy needs an invariant of its own (PolicyInv): the lock names    *)
(* the one writer, what that writer holds was worked out from the policy   *)
(* still in force, and the row is that policy or the one about to be       *)
(* installed.  Each step of the policy is then a step of the register or   *)
(* no step at all; a crash between Save and Install is a restart that      *)
(* applied the edit in doubt.                                              *)
(*                                                                         *)
(* The documents' properties speak of answered requests.  Their invariant  *)
(* (DocInv) says of a request at work what each version has behind it: the *)
(* two histories are compared with the policy in every state, so a verdict *)
(* in this state is a verdict the histories have seen.                     *)
(***************************************************************************)
EXTENDS MetadataFilter, TLAPS

(* The rules of the policy keep its type. *)

\* A stored policy is read back as it was.
LEMMA DecodeEncode ==
  ASSUME NEW p \in Params PROVE DecodeStored(EncodeStored(p)) = p
  BY DEF DecodeStored, EncodeStored, Params

LEMMA DecodeTyped ==
  ASSUME NEW row \in Rows PROVE DecodeStored(row) \in Params
  BY DEF DecodeStored, Rows, Params

LEMMA EncodeTyped ==
  ASSUME NEW p \in Params PROVE EncodeStored(p) \in Rows
  BY DEF EncodeStored, Rows

LEMMA EditTyped ==
  ASSUME NEW p \in Params, NEW c \in Changes PROVE Edited(c, p) \in Params
<1>1. Decodes(c)
  BY PolicyAssumption
<1>2. CASE c.kind = "put"
  <2>1. \A f \in Fields : f \in DOMAIN c.fields => c.fields[f] \in FieldType(f)
    BY <1>1, <1>2 DEF Decodes
  <2>2. \A f \in Fields : p[f] \in FieldType(f)
    BY DEF FieldType, Params, Fields, Lists
  <2> DEFINE q == [f \in Fields |-> IF f \in DOMAIN c.fields THEN c.fields[f] ELSE p[f]]
  <2>3. \A f \in Fields : q[f] \in FieldType(f)
    BY <2>1, <2>2
  <2>4. Edited(c, p) = q
    BY <1>2 DEF Edited
  <2>5. q = [mode |-> q["mode"], age |-> q["age"], sev |-> q["sev"], supply |-> q["supply"], cve |-> q["cve"], deny |-> q["deny"]]
    BY DEF Fields, Lists
  <2> HIDE DEF q
  <2>6. q.mode \in STRING /\ q.age \in Int /\ q.sev \in STRING /\ \A l \in Lists : q[l] \in SUBSET STRING
    BY <2>3 DEF Fields, FieldType, Lists
  <2>7. q \in Params
    BY <2>5, <2>6 DEF Params, Lists
  <2>8. QED BY <2>4, <2>7
<1>3. CASE c.kind = "add"
  BY <1>1, <1>3 DEF Decodes, Edited, Params, Lists
<1>4. CASE c.kind = "remove"
  BY <1>1, <1>4 DEF Decodes, Edited, Params, Lists
<1>5. QED BY <1>1, <1>2, <1>3, <1>4 DEF Decodes
-----------------------------------------------------------------------------
(* The policy's invariant *)

Call ==
  {Free} \cup [at : {"asked"}, change : Changes]
    \cup [at : {"saving", "installing"}, change : Changes, next : Params]
    \cup [at : {"applied", "refused", "failed"}]

PolicyTypeOK ==
  /\ seed \in Seeds
  /\ cur \in Params \cup {NoPolicy}
  /\ stored \in Rows \cup {NoRow}
  /\ lock \in Editors \cup {NoEditor}
  /\ call \in [Editors -> Call]

Writing(e) == call[e].at \in {"saving", "installing"}

\* Whoever writes the policy holds the lock and nobody else does; a process
\* that is down has no edits.
LockHeld ==
  /\ \A e \in Editors : Writing(e) => lock = e
  /\ lock # NoEditor => Writing(lock)
  /\ cur = NoPolicy => call = [e \in Editors |-> Free]

\* What is about to be written was worked out from the policy still in force.
EditSound ==
  \A e \in Editors : Writing(e) =>
    Permitted(call[e].change, cur) /\ call[e].next = Edited(call[e].change, cur)

\* The row is the policy in force, or the one about to be installed.
RowSound ==
  cur # NoPolicy =>
    /\ stored # NoRow
    /\ \A e \in Editors : call[e].at = "installing" => stored = EncodeStored(call[e].next)
    /\ (\A e \in Editors : call[e].at # "installing") => cur = DecodeStored(stored)

PolicyInv == PolicyTypeOK /\ LockHeld /\ EditSound /\ RowSound

LEMMA BootTyped ==
  ASSUME PolicyTypeOK PROVE BootPolicy \in Params
BY DecodeTyped, PolicyAssumption DEF PolicyTypeOK, BootPolicy

LEMMA PolicyInvInit == PolicyInit => PolicyInv
<1> SUFFICES ASSUME PolicyInit PROVE PolicyInv
  OBVIOUS
<1>1. PolicyTypeOK
  BY PolicyAssumption DEF PolicyInit, PolicyTypeOK, Call
<1>2. LockHeld /\ EditSound /\ RowSound
  BY DEF PolicyInit, LockHeld, EditSound, RowSound, Writing, Free
<1>3. QED BY <1>1, <1>2 DEF PolicyInv

LEMMA BootKeeps ==
  ASSUME PolicyInv, Boot PROVE PolicyInv'
<1>1. cur' \in Params /\ cur' # NoPolicy
  BY BootTyped, PolicyAssumption DEF PolicyInv, Boot
<1>2. EncodeStored(seed) \in Rows /\ DecodeStored(EncodeStored(seed)) = seed
  BY EncodeTyped, DecodeEncode, PolicyAssumption DEF PolicyInv, PolicyTypeOK
<1>3. PolicyTypeOK'
  BY <1>1, <1>2 DEF PolicyInv, PolicyTypeOK, Boot
<1>4. \A e \in Editors : call[e] = Free /\ call'[e] = Free
  BY DEF PolicyInv, LockHeld, Boot
<1>5. LockHeld' /\ EditSound'
  BY <1>1, <1>4 DEF PolicyInv, LockHeld, EditSound, Writing, Free, Boot
<1>6. stored' # NoRow /\ cur' = DecodeStored(stored')
  BY <1>2, PolicyAssumption DEF Boot, BootPolicy
<1>7. RowSound'
  BY <1>4, <1>6 DEF RowSound, Free
<1>8. QED BY <1>3, <1>5, <1>7 DEF PolicyInv

LEMMA CrashKeeps ==
  ASSUME PolicyInv, Crash PROVE PolicyInv'
<1>1. PolicyTypeOK'
  BY DEF PolicyInv, PolicyTypeOK, Crash, Call
<1>2. LockHeld' /\ EditSound' /\ RowSound'
  BY <1>1 DEF Crash, LockHeld, EditSound, RowSound, Writing, Free
<1>3. QED BY <1>1, <1>2 DEF PolicyInv

\* One editor at a time is between taking the lock and letting it go.
LEMMA OneWriter ==
  ASSUME PolicyInv, NEW e \in Editors, Writing(e)
  PROVE  /\ lock = e /\ cur \in Params /\ cur # NoPolicy
         /\ call[e] \in [at : {"saving", "installing"}, change : Changes, next : Params]
         /\ \A x \in Editors \ {e} : ~Writing(x)
<1>1. lock = e /\ cur \in Params /\ cur # NoPolicy
  BY DEF PolicyInv, PolicyTypeOK, LockHeld, Writing, Free
<1>2. call[e] \in [at : {"saving", "installing"}, change : Changes, next : Params]
  BY DEF PolicyInv, PolicyTypeOK, Writing, Call, Free
<1>3. QED BY <1>1, <1>2 DEF PolicyInv, LockHeld

LEMMA BeginKeeps ==
  ASSUME PolicyInv, NEW e \in Editors, NEW c \in Changes, Begin(e, c) PROVE PolicyInv'
<1>1. PolicyTypeOK'
  BY DEF PolicyInv, PolicyTypeOK, Begin, Call
<1>2. call[e].at = "idle" /\ call'[e].at = "asked" /\ \A x \in Editors \ {e} : call'[x] = call[x]
  BY DEF PolicyInv, PolicyTypeOK, Begin, Free
<1>3. LockHeld' /\ EditSound' /\ RowSound'
  BY <1>2 DEF PolicyInv, PolicyTypeOK, LockHeld, EditSound, RowSound, Writing, Begin
<1>4. QED BY <1>1, <1>3 DEF PolicyInv

LEMMA EnterKeeps ==
  ASSUME PolicyInv, NEW e \in Editors, Enter(e) PROVE PolicyInv'
<1> DEFINE c == call[e].change
<1>1. call[e] \in [at : {"asked"}, change : Changes] /\ cur # NoPolicy /\ cur \in Params /\ lock = NoEditor
  BY DEF PolicyInv, PolicyTypeOK, LockHeld, Enter, Call, Free
<1>2. \A x \in Editors : ~Writing(x)
  BY <1>1, PolicyAssumption DEF PolicyInv, LockHeld
<1>3. Edited(c, cur) \in Params /\ c \in Changes
  BY <1>1, EditTyped
<1> HIDE DEF c
<1>4. ASSUME NEW a \in {"refused", "applied"}, call' = [call EXCEPT ![e] = [at |-> a]], UNCHANGED <<lock, cur, stored, seed>>
      PROVE  PolicyInv'
  <2>1. PolicyTypeOK'
    BY <1>4 DEF PolicyInv, PolicyTypeOK, Call
  <2>2. call'[e].at = a /\ \A x \in Editors \ {e} : call'[x] = call[x]
    BY <1>4 DEF PolicyInv, PolicyTypeOK
  <2>3. LockHeld' /\ EditSound' /\ RowSound'
    BY <1>1, <1>2, <1>4, <2>2 DEF PolicyInv, LockHeld, EditSound, RowSound, Writing
  <2>4. QED BY <2>1, <2>3 DEF PolicyInv
<1>5. ASSUME Permitted(c, cur), lock' = e, UNCHANGED <<cur, stored, seed>>,
             call' = [call EXCEPT ![e] = [at |-> "saving", change |-> c, next |-> Edited(c, cur)]]
      PROVE  PolicyInv'
  <2>1. PolicyTypeOK'
    BY <1>3, <1>5 DEF PolicyInv, PolicyTypeOK, Call
  <2>2. /\ call'[e].at = "saving" /\ call'[e].change = c /\ call'[e].next = Edited(c, cur)
        /\ \A x \in Editors \ {e} : call'[x] = call[x]
    BY <1>5 DEF PolicyInv, PolicyTypeOK
  <2>3. LockHeld' /\ EditSound' /\ RowSound'
    BY <1>1, <1>2, <1>5, <2>2 DEF PolicyInv, LockHeld, EditSound, RowSound, Writing
  <2>4. QED BY <2>1, <2>3 DEF PolicyInv
<1>6. QED BY <1>4, <1>5 DEF Enter, c

LEMMA SaveKeeps ==
  ASSUME PolicyInv, NEW e \in Editors, Save(e) PROVE PolicyInv'
<1>1. Writing(e)
  BY DEF Save, Writing
<1>2. /\ lock = e /\ cur \in Params /\ cur # NoPolicy
      /\ call[e] \in [at : {"saving", "installing"}, change : Changes, next : Params]
      /\ \A x \in Editors \ {e} : ~Writing(x)
  BY <1>1, OneWriter
<1>3. EncodeStored(call[e].next) \in Rows
  BY <1>2, EncodeTyped
<1>4. PolicyTypeOK'
  BY <1>2, <1>3 DEF PolicyInv, PolicyTypeOK, Save, Call
<1>5. /\ call'[e].at = "installing" /\ call'[e].change = call[e].change /\ call'[e].next = call[e].next
      /\ \A x \in Editors \ {e} : call'[x] = call[x]
  BY <1>2 DEF PolicyInv, PolicyTypeOK, Save
<1>6. LockHeld' /\ EditSound'
  BY <1>1, <1>2, <1>5 DEF PolicyInv, LockHeld, EditSound, Writing, Save
<1>7. RowSound'
  BY <1>2, <1>3, <1>5, PolicyAssumption DEF RowSound, Writing, Save
<1>8. QED BY <1>4, <1>6, <1>7 DEF PolicyInv

\* SaveFails and Install: the writer is answered and the lock is free.
LEMMA DoneKeeps ==
  ASSUME PolicyInv, NEW e \in Editors, SaveFails(e) \/ Install(e) PROVE PolicyInv'
<1>1. Writing(e)
  BY DEF SaveFails, Install, Writing
<1>2. /\ lock = e /\ cur \in Params /\ cur # NoPolicy
      /\ call[e] \in [at : {"saving", "installing"}, change : Changes, next : Params]
      /\ \A x \in Editors \ {e} : ~Writing(x)
  BY <1>1, OneWriter
<1>3. PolicyTypeOK'
  BY <1>2 DEF PolicyInv, PolicyTypeOK, SaveFails, Install, Call
<1>4. /\ call'[e].at \in {"failed", "applied"} /\ \A x \in Editors \ {e} : call'[x] = call[x]
      /\ lock' = NoEditor /\ cur' \in Params /\ cur' # NoPolicy
  BY <1>2, PolicyAssumption DEF PolicyInv, PolicyTypeOK, SaveFails, Install
<1>5. LockHeld' /\ EditSound'
  BY <1>2, <1>4 DEF LockHeld, EditSound, Writing
<1>6. stored' # NoRow /\ cur' = DecodeStored(stored')
  <2>1. CASE SaveFails(e)
    BY <1>2, <2>1 DEF PolicyInv, RowSound, SaveFails, Writing
  <2>2. CASE Install(e)
    BY <1>2, <2>2, DecodeEncode DEF PolicyInv, RowSound, Install
  <2>3. QED BY <2>1, <2>2
<1>7. RowSound'
  BY <1>2, <1>4, <1>6 DEF RowSound, Writing
<1>8. QED BY <1>3, <1>5, <1>7 DEF PolicyInv

LEMMA ReplyKeeps ==
  ASSUME PolicyInv, NEW e \in Editors, Reply(e) PROVE PolicyInv'
<1>1. PolicyTypeOK'
  BY DEF PolicyInv, PolicyTypeOK, Reply, Call
<1>2. call[e].at \notin {"saving", "installing", "idle"} /\ call'[e].at = "idle" /\ \A x \in Editors \ {e} : call'[x] = call[x]
  BY DEF PolicyInv, PolicyTypeOK, Reply, Free
<1>3. cur # NoPolicy
  BY <1>2 DEF PolicyInv, LockHeld, Free
<1>4. LockHeld' /\ EditSound' /\ RowSound'
  BY <1>2, <1>3 DEF PolicyInv, PolicyTypeOK, LockHeld, EditSound, RowSound, Writing, Reply
<1>5. QED BY <1>1, <1>4 DEF PolicyInv

LEMMA PolicyInvNext ==
  ASSUME PolicyInv, Boot \/ EditNext \/ Crash \/ UNCHANGED policyVars PROVE PolicyInv'
<1>1. CASE UNCHANGED policyVars
  BY <1>1 DEF policyVars, PolicyInv, PolicyTypeOK, LockHeld, EditSound, RowSound, Writing
<1>2. CASE EditNext
  BY <1>2, BeginKeeps, EnterKeeps, SaveKeeps, DoneKeeps, ReplyKeeps DEF EditNext
<1>3. QED BY <1>1, <1>2, BootKeeps, CrashKeeps

\* A step of the whole is a step of the policy, or leaves it alone.
LEMMA PolicyMoves ==
  ASSUME [Next]_vars PROVE Boot \/ EditNext \/ Crash \/ UNCHANGED policyVars
BY DEF Next, Outage, vars

LEMMA PolicyInvHolds == Spec => []PolicyInv
<1>1. Init => PolicyInv
  BY PolicyInvInit DEF Init
<1>2. PolicyInv /\ [Next]_vars => PolicyInv'
  BY PolicyInvNext, PolicyMoves
<1>3. QED BY <1>1, <1>2, PTL DEF Spec
-----------------------------------------------------------------------------
(* The policy is one register *)

\* The editors' calls, as the register sees them.
Calls == [e \in Editors |-> Progress(e)]

LEMMA InForceTyped == ASSUME PolicyInv PROVE InForce \in Params
BY BootTyped DEF PolicyInv, PolicyTypeOK, InForce

\* Only the call of one editor changes.
LEMMA OneCall ==
  ASSUME PolicyInv, NEW e \in Editors, NEW x, call' = [call EXCEPT ![e] = x]
  PROVE  Calls' = [Calls EXCEPT ![e] = Progress(e)'] /\ call'[e] = x
BY DEF PolicyInv, PolicyTypeOK, Calls, Progress

LEMMA BeginRefines ==
  ASSUME PolicyInv, NEW e \in Editors, NEW c \in Changes, Begin(e, c)
  PROVE  Register!Begin(e, c)
<1>1. Calls' = [Calls EXCEPT ![e] = Progress(e)'] /\ call'[e] = [at |-> "asked", change |-> c]
  BY OneCall DEF Begin
<1>2. Progress(e)' = [at |-> "open", change |-> c]
  BY <1>1 DEF Progress
<1>3. Calls[e] = Free
  BY DEF Calls, Progress, Begin, Free
<1>4. InForce' = InForce
  BY DEF Begin, InForce, BootPolicy
<1>5. QED BY <1>1, <1>2, <1>3, <1>4 DEF Register!Begin, Register!Free, Calls, Free

LEMMA EnterRefines ==
  ASSUME PolicyInv, NEW e \in Editors, Enter(e)
  PROVE  Register!Apply(e) \/ Register!Refuse(e) \/ UNCHANGED <<InForce, Calls>>
<1> DEFINE c == call[e].change
<1>1. call[e] \in [at : {"asked"}, change : Changes] /\ cur # NoPolicy /\ cur \in Params
  BY DEF PolicyInv, PolicyTypeOK, LockHeld, Enter, Call, Free
<1>2. InForce = cur /\ InForce' = cur
  BY <1>1 DEF Enter, InForce
<1>3. Calls[e] = [at |-> "open", change |-> c]
  BY <1>1 DEF Calls, Progress
<1>4. CASE ~Permitted(c, cur) /\ call' = [call EXCEPT ![e] = [at |-> "refused"]]
  <2>1. Calls' = [Calls EXCEPT ![e] = Progress(e)'] /\ call'[e] = [at |-> "refused"]
    BY <1>4, OneCall
  <2>2. Progress(e)' = [at |-> "refused"]
    BY <2>1 DEF Progress
  <2>3. QED BY <1>2, <1>3, <1>4, <2>1, <2>2 DEF Register!Refuse, Calls
<1>5. CASE Permitted(c, cur) /\ NoEffect(c, cur) /\ call' = [call EXCEPT ![e] = [at |-> "applied"]]
  <2>1. Calls' = [Calls EXCEPT ![e] = Progress(e)'] /\ call'[e] = [at |-> "applied"]
    BY <1>5, OneCall
  <2>2. Progress(e)' = [at |-> "applied"]
    BY <2>1 DEF Progress
  <2>3. Edited(c, cur) = cur
    BY <1>5 DEF NoEffect
  <2>4. QED BY <1>2, <1>3, <1>5, <2>1, <2>2, <2>3 DEF Register!Apply, Calls
<1>6. CASE call' = [call EXCEPT ![e] = [at |-> "saving", change |-> c, next |-> Edited(c, cur)]]
  <2>1. /\ Calls' = [Calls EXCEPT ![e] = Progress(e)']
        /\ call'[e] = [at |-> "saving", change |-> c, next |-> Edited(c, cur)]
    BY <1>6, OneCall
  <2>2. Progress(e)' = Calls[e]
    BY <1>3, <2>1 DEF Progress
  <2>3. Calls' = Calls
    BY <2>1, <2>2 DEF Calls
  <2>4. QED BY <1>2, <2>3
<1>7. QED BY <1>4, <1>5, <1>6 DEF Enter

LEMMA SaveRefines ==
  ASSUME PolicyInv, NEW e \in Editors, Save(e)
  PROVE  UNCHANGED <<InForce, Calls>>
<1>1. cur # NoPolicy /\ call[e] \in [at : {"saving", "installing"}, change : Changes, next : Params]
  BY OneWriter DEF Save, Writing
<1>2. InForce' = InForce
  BY <1>1 DEF Save, InForce
<1>3. call'[e] = [call[e] EXCEPT !.at = "installing"] /\ \A x \in Editors \ {e} : call'[x] = call[x]
  BY DEF Save, PolicyInv, PolicyTypeOK
<1>4. \A x \in Editors : Progress(x)' = Progress(x)
  BY <1>1, <1>3 DEF Progress, Save
<1>5. QED BY <1>2, <1>4 DEF Calls

LEMMA FailRefines ==
  ASSUME PolicyInv, NEW e \in Editors, SaveFails(e)
  PROVE  Register!Fail(e)
<1>1. cur # NoPolicy
  BY OneWriter DEF SaveFails, Writing
<1>2. InForce' = InForce
  BY <1>1 DEF SaveFails, InForce
<1>3. Calls[e].at = "open"
  BY DEF SaveFails, Calls, Progress
<1>4. Calls' = [Calls EXCEPT ![e] = Progress(e)'] /\ call'[e] = [at |-> "failed"]
  BY OneCall DEF SaveFails
<1>5. Progress(e)' = [at |-> "failed"]
  BY <1>4 DEF Progress
<1>6. QED BY <1>2, <1>3, <1>4, <1>5 DEF Register!Fail, Calls

LEMMA InstallRefines ==
  ASSUME PolicyInv, NEW e \in Editors, Install(e)
  PROVE  Register!Apply(e)
<1>1. cur # NoPolicy /\ cur \in Params /\ call[e].next \in Params /\ Writing(e)
  BY OneWriter DEF Install, Writing
<1>2. InForce = cur /\ InForce' = call[e].next
  BY <1>1, PolicyAssumption DEF Install, InForce
<1>3. Permitted(call[e].change, cur) /\ call[e].next = Edited(call[e].change, cur)
  BY <1>1 DEF PolicyInv, EditSound
<1>4. Calls[e] = [at |-> "open", change |-> call[e].change]
  BY DEF Install, Calls, Progress
<1>5. Calls' = [Calls EXCEPT ![e] = Progress(e)'] /\ call'[e] = [at |-> "applied"]
  BY OneCall DEF Install
<1>6. Progress(e)' = [at |-> "applied"]
  BY <1>5 DEF Progress
<1>7. QED BY <1>2, <1>3, <1>4, <1>5, <1>6 DEF Register!Apply, Calls

LEMMA ReplyRefines ==
  ASSUME PolicyInv, NEW e \in Editors, Reply(e)
  PROVE  Register!Answer(e)
<1>1. InForce' = InForce
  BY DEF Reply, InForce, BootPolicy
<1>2. Calls[e].at \in {"applied", "refused", "failed"}
  BY DEF Reply, Calls, Progress
<1>3. Calls' = [Calls EXCEPT ![e] = Progress(e)'] /\ call'[e] = Free
  BY OneCall DEF Reply
<1>4. Progress(e)' = Free
  BY <1>3 DEF Progress, Free
<1>5. QED BY <1>1, <1>2, <1>3, <1>4 DEF Register!Answer, Register!Free, Calls, Free

LEMMA BootRefines ==
  ASSUME PolicyInv, Boot PROVE UNCHANGED <<InForce, Calls>>
<1>1. BootPolicy # NoPolicy
  BY BootTyped, PolicyAssumption DEF PolicyInv
<1>2. InForce' = InForce
  BY <1>1 DEF Boot, InForce
<1>3. QED BY <1>2 DEF Boot, Calls, Progress

\* A crash finds in the row the policy in force or one edit more.
LEMMA CrashRefines ==
  ASSUME PolicyInv, Crash PROVE Register!Restart
<1>1. cur # NoPolicy /\ stored # NoRow /\ InForce = cur
  BY DEF PolicyInv, RowSound, Crash, InForce
<1>2. InForce' = DecodeStored(stored)
  BY <1>1 DEF Crash, InForce, BootPolicy
<1>3. Calls' = [e \in Editors |-> Register!Free]
  BY DEF Crash, Calls, Progress, Free, Register!Free
<1>4. CASE \A e \in Editors : call[e].at # "installing"
  <2>1. InForce' = InForce
    BY <1>1, <1>2, <1>4 DEF PolicyInv, RowSound
  <2>2. QED BY <1>3, <2>1 DEF Register!Restart, Calls
<1>5. ASSUME NEW e \in Editors, call[e].at = "installing" PROVE Register!Restart
  <2>1. Writing(e)
    BY <1>5 DEF Writing
  <2>2. call[e].next \in Params /\ stored = EncodeStored(call[e].next)
    BY <1>1, <1>5, <2>1, OneWriter DEF PolicyInv, RowSound
  <2>3. InForce' = Edited(call[e].change, InForce) /\ Permitted(call[e].change, InForce)
    BY <1>1, <1>2, <2>1, <2>2, DecodeEncode DEF PolicyInv, EditSound
  <2>4. Calls[e] = [at |-> "open", change |-> call[e].change]
    BY <1>5 DEF Calls, Progress
  <2>5. e \in Register!InDoubt
    BY <2>3, <2>4 DEF Register!InDoubt, Calls
  <2>6. InForce' \in {Edited(Calls[x].change, InForce) : x \in Register!InDoubt}
    BY <2>3, <2>4, <2>5
  <2>7. QED BY <1>3, <2>6 DEF Register!Restart, Calls
<1>6. QED BY <1>4, <1>5

LEMMA PolicyRefines ==
  ASSUME PolicyInv, [Next]_vars
  PROVE  Register!Next \/ UNCHANGED <<InForce, Calls>>
<1>1. CASE UNCHANGED policyVars
  BY <1>1 DEF policyVars, InForce, BootPolicy, Calls, Progress
<1>2. CASE EditNext
  <2>1. PICK e \in Editors : (\E c \in Changes : Begin(e, c)) \/ Enter(e) \/ Save(e) \/ SaveFails(e) \/ Install(e) \/ Reply(e)
    BY <1>2 DEF EditNext
  <2>2. QED BY <2>1, BeginRefines, EnterRefines, SaveRefines, FailRefines, InstallRefines, ReplyRefines DEF Register!Next
<1>3. CASE Crash
  BY <1>3, CrashRefines DEF Register!Next
<1>4. QED BY <1>1, <1>2, <1>3, PolicyMoves, BootRefines

LEMMA PolicyStarts == ASSUME Init PROVE Register!Init
<1>1. InForce = BootPolicy
  BY DEF Init, PolicyInit, InForce
<1>2. InForce \in Seeds \cup {DecodeStored(r) : r \in LegacyRows}
  BY <1>1 DEF Init, PolicyInit, BootPolicy
<1>3. Calls = [e \in Editors |-> Register!Free]
  BY DEF Init, PolicyInit, Calls, Progress, Free, Register!Free
<1>4. QED BY <1>2, <1>3 DEF Register!Init, Calls

\* For any number of editors, edits and crashes the policy behaves as one value
\* that edits change one at a time (Update, EditList, NewRuntimeWithStore).
THEOREM PolicyIsRegister == Spec => OnePolicy
<1>1. PolicyInv /\ [Next]_vars => [Register!Next]_<<InForce, Calls>>
  BY PolicyRefines
<1>2. Init => Register!Init
  BY PolicyStarts
<1>3. QED BY <1>1, <1>2, PolicyInvHolds, PTL DEF Spec, OnePolicy, Register!Spec, Calls

\* Between edits the lock is free, and what is in force is what the next start
\* would load.
THEOREM StoredInForce == Spec => []InForceIsStored
<1>1. PolicyInv => InForceIsStored
  <2> SUFFICES ASSUME PolicyInv, cur # NoPolicy, ~Editing
               PROVE  lock = NoEditor /\ stored # NoRow /\ cur = DecodeStored(stored)
    BY DEF InForceIsStored
  <2>1. \A e \in Editors : ~Writing(e)
    BY DEF Editing, Writing
  <2>2. lock = NoEditor
    BY <2>1 DEF PolicyInv, LockHeld, PolicyTypeOK
  <2>3. QED BY <2>1, <2>2 DEF PolicyInv, RowSound, Writing
<1>2. QED BY <1>1, PolicyInvHolds, PTL
-----------------------------------------------------------------------------
(* The documents' invariant *)

Filtering ==
  [at : {"filter"}, page : Pages, cred : Creds, from : Creds, doc : Documents,
   cut : SUBSET Versions, ver : Versions \cup {NoVersion}, todo : SUBSET Versions]

Request ==
  {NoRequest} \cup [at : {"wait"}, page : Pages, cred : Creds] \cup Filtering
    \cup [at : {"done"}, page : Pages, cred : Creds, from : Creds]
    \cup [at : {"relayed"}, page : Pages, cred : Creds]

\* A flight fetches what its key says.
FlightInv ==
  \A k \in DOMAIN flight :
    flight[k].page \in Pages /\ flight[k].cred \in Creds /\ k = FlightKey(flight[k].page, flight[k].cred)

\* No rule refused v all the time that c's document has been here.
Cleared(c, v) == <<"deny", v>> \notin banned[c] /\ <<"age", v>> \notin banned[c]

\* A request at work: its own document, rewritten; every version is still to be
\* decided, was refused, or was let through by each rule at some time since.
FilterInv(c) ==
  /\ req[c].from = req[c].cred
  /\ req[c].doc = Rewritten(req[c].page, Upstream(req[c].page, req[c].cred))
  /\ banned[c] \subseteq KnownRefusals(req[c].page)
  /\ GateRefusals \subseteq refused[c]
  /\ req[c].cut \subseteq refused[c]
  /\ req[c].ver # NoVersion => <<"deny", req[c].ver>> \notin banned[c]
  /\ Packument(req[c].page) =>
       \A v \in req[c].doc.list : v \in req[c].todo \cup req[c].cut \/ v = req[c].ver \/ Cleared(c, v)

\* What the three properties say of one client that has been answered.
DoneInv(c) ==
  /\ req[c].from = req[c].cred
  /\ held[c].via = "proxy" /\ held[c].doc.around = {}
  /\ Packument(req[c].page) =>
       /\ (Rules \X held[c].doc.list) \cap banned[c] = {} \/ held[c].doc.list \subseteq refused[c]
       /\ Listed[req[c].page][req[c].cred] \ held[c].doc.list \subseteq Unmappable \cup refused[c]
       /\ Listed[req[c].page][req[c].cred] \ Unmappable # {} => held[c].doc.list # {}

ClientInv(c) ==
  /\ req[c].at = "filter" => FilterInv(c)
  /\ req[c].at = "done" => DoneInv(c)
  /\ req[c].at = "relayed" => IndexPage(req[c].page)

DocInv ==
  /\ req \in [Clients -> Request]
  /\ held = [c \in Clients |-> held[c]]
  /\ FlightInv
  /\ \A c \in Clients : ClientInv(c)

\* What Observe does to the histories of one client.
Observed(c) ==
  /\ req'[c].at = "done" => banned'[c] = banned[c] /\ refused'[c] = refused[c]
  /\ req'[c].at = "filter" => /\ banned'[c] = banned[c] \cap KnownRefusals(req[c].page)'
                              /\ refused'[c] = refused[c] \cup GateRefusals'

LEMMA ObserveEach == ASSUME Observe, NEW c \in Clients PROVE Observed(c)
BY DEF Observe, Observed

LEMMA RewriteTyped ==
  ASSUME NEW page \in Pages, NEW cred \in Creds
  PROVE  /\ Rewritten(page, Upstream(page, cred)) \in Documents
         /\ Rewritten(page, Upstream(page, cred)).around = {}
         /\ Packument(page) => Listed[page][cred] \ Unmappable \subseteq Rewritten(page, Upstream(page, cred)).list
<1>1. Listed[page][cred] \in SUBSET Versions
  BY MetadataAssumption
<1>2. QED BY <1>1 DEF Rewritten, Upstream, RewriteIndex, RewriteTarballs, Documents, mapLink, npmTarballURL, IndexPage, Packument

LEMMA FilterFields ==
  ASSUME DocInv, NEW c \in Clients, req[c].at = "filter"
  PROVE  req[c] \in Filtering
BY DEF DocInv, Request, Filtering, NoRequest

LEMMA WaitFields ==
  ASSUME DocInv, NEW c \in Clients, req[c].at = "wait"
  PROVE  req[c] \in [at : {"wait"}, page : Pages, cred : Creds]
BY DEF DocInv, Request, Filtering, NoRequest

\* A client whose request does not move.
LEMMA RestKeeps ==
  ASSUME DocInv, NEW c \in Clients, req'[c] = req[c], held'[c] = held[c], Observed(c)
  PROVE  ClientInv(c)'
<1>1. CASE req[c].at = "done"
  BY <1>1 DEF DocInv, ClientInv, DoneInv, Observed
<1>2. CASE req[c].at = "filter"
  <2>1. FilterInv(c)
    BY <1>2 DEF DocInv, ClientInv
  <2>2. banned'[c] = banned[c] \cap KnownRefusals(req[c].page)' /\ refused'[c] = refused[c] \cup GateRefusals'
    BY <1>2 DEF Observed
  <2>3. FilterInv(c)'
    BY <2>1, <2>2 DEF FilterInv, Cleared
  <2>4. QED BY <1>2, <2>3 DEF ClientInv
<1>3. CASE req[c].at \notin {"done", "filter"}
  BY <1>3 DEF DocInv, ClientInv, IndexPage
<1>4. QED BY <1>1, <1>2, <1>3

\* A document arrives for a client.
LEMMA ReceiveKeeps ==
  ASSUME DocInv, NEW c \in Clients, req[c].at = "wait",
         req'[c] = Received(req[c], Upstream(req[c].page, req[c].cred), req[c].cred), Observed(c)
  PROVE  ClientInv(c)' /\ req'[c] \in Request
<1> DEFINE r == req[c]
           d == Rewritten(r.page, Upstream(r.page, r.cred))
<1>1. r \in [at : {"wait"}, page : Pages, cred : Creds]
  BY WaitFields
<1>2. d \in Documents
  BY <1>1, RewriteTyped
<1>3. CASE ~Servable(r.page, Upstream(r.page, r.cred))
  BY <1>3 DEF Received, NoRequest, Request, ClientInv
<1>4. CASE Servable(r.page, Upstream(r.page, r.cred))
  <2>1. req'[c] = [at |-> "filter", page |-> r.page, cred |-> r.cred, from |-> r.cred, doc |-> d,
                   cut |-> {}, ver |-> NoVersion, todo |-> IF Packument(r.page) THEN d.list ELSE {}]
    BY <1>4 DEF Received
  <2> HIDE DEF d
  <2>2. req'[c] \in Request
    BY <1>1, <1>2, <2>1 DEF Request, Filtering, Documents
  <2>3. /\ req'[c].at = "filter" /\ req'[c].page = r.page /\ req'[c].cred = r.cred /\ req'[c].from = r.cred
        /\ req'[c].doc = d /\ req'[c].cut = {} /\ req'[c].ver = NoVersion
        /\ Packument(r.page) => req'[c].todo = d.list
    BY <2>1
  <2>4. banned'[c] = banned[c] \cap KnownRefusals(req[c].page)' /\ refused'[c] = refused[c] \cup GateRefusals'
    BY <2>3 DEF Observed
  <2>5. req'[c].doc = Rewritten(req'[c].page, Upstream(req'[c].page, req'[c].cred))
    BY <2>3 DEF d
  <2>6. FilterInv(c)'
    BY <2>3, <2>4, <2>5 DEF FilterInv
  <2>7. QED BY <2>2, <2>3, <2>6 DEF ClientInv
<1>5. QED BY <1>3, <1>4

\* What a verdict in this state says of the histories.
LEMMA VerdictsSeen ==
  ASSUME NEW c \in Clients, FilterInv(c), NEW v \in Versions
  PROVE  /\ Denied(v) \/ Held(v) => v \in refused[c]
         /\ ~Denied(v) => <<"deny", v>> \notin banned[c]
         /\ req[c].page # "full" \/ ~Held(v) => <<"age", v>> \notin banned[c]
<1>1. Denied(v) \/ Held(v) => v \in GateRefusals
  BY DEF GateRefusals
<1>2. ~Denied(v) => <<"deny", v>> \notin KnownRefusals(req[c].page)
  BY DEF KnownRefusals
<1>3. req[c].page # "full" \/ ~Held(v) => <<"age", v>> \notin KnownRefusals(req[c].page)
  BY DEF KnownRefusals
<1>4. QED BY <1>1, <1>2, <1>3 DEF FilterInv

LEMMA DenyKeeps ==
  ASSUME DocInv, NEW c \in Clients, NEW v \in Versions, DecideDeny(c, v), Observed(c)
  PROVE  ClientInv(c)' /\ req'[c] \in Request
<1> DEFINE r == req[c]
<1>1. r \in Filtering
  BY FilterFields DEF DecideDeny
<1>2. FilterInv(c) /\ r.ver = NoVersion /\ v \in r.todo
  BY DEF DocInv, ClientInv, DecideDeny
<1>3. req'[c] = [r EXCEPT !.todo = @ \ {v}, !.cut = IF Denied(v) THEN @ \cup {v} ELSE @,
                          !.ver = IF ~Denied(v) /\ r.page = "full" THEN v ELSE NoVersion]
  BY DEF DecideDeny, DocInv
<1>4. /\ req'[c].at = "filter" /\ req'[c].page = r.page /\ req'[c].cred = r.cred /\ req'[c].from = r.from
      /\ req'[c].doc = r.doc /\ req'[c].todo = r.todo \ {v}
      /\ req'[c].cut = (IF Denied(v) THEN r.cut \cup {v} ELSE r.cut)
      /\ req'[c].ver = (IF ~Denied(v) /\ r.page = "full" THEN v ELSE NoVersion)
  BY <1>1, <1>3 DEF Filtering
<1>5. req'[c] \in Request
  <2>1. (IF Denied(v) THEN r.cut \cup {v} ELSE r.cut) \in SUBSET Versions
    BY <1>1 DEF Filtering
  <2>2. req'[c] \in Filtering
    BY <1>1, <1>3, <2>1 DEF Filtering
  <2>3. QED BY <2>2 DEF Request
<1>6. banned'[c] = banned[c] \cap KnownRefusals(req[c].page)' /\ refused'[c] = refused[c] \cup GateRefusals'
  BY <1>4 DEF Observed
<1>7. /\ Denied(v) => v \in refused[c]
      /\ ~Denied(v) => <<"deny", v>> \notin banned[c]
      /\ ~Denied(v) /\ r.page # "full" => Cleared(c, v)
  BY <1>2, VerdictsSeen DEF Cleared
<1>8. \A x \in r.doc.list : x \in Versions /\ x # NoVersion
  BY <1>1, MetadataAssumption DEF Documents, Filtering
<1>9. \A x \in r.doc.list : Packument(r.page) =>
        x \in req'[c].todo \cup req'[c].cut \/ x = req'[c].ver \/ Cleared(c, x)
  BY <1>2, <1>4, <1>7, <1>8 DEF FilterInv
<1>10. req'[c].ver # NoVersion => <<"deny", req'[c].ver>> \notin banned[c]
  BY <1>4, <1>7
<1>11. req'[c].cut \subseteq refused'[c]
  BY <1>2, <1>4, <1>6, <1>7 DEF FilterInv
<1> HIDE DEF r
<1>12. FilterInv(c)'
  BY <1>2, <1>4, <1>6, <1>9, <1>10, <1>11 DEF FilterInv, Cleared, r
<1>13. QED BY <1>4, <1>5, <1>12 DEF ClientInv

LEMMA AgeKeeps ==
  ASSUME DocInv, NEW c \in Clients, DecideAge(c), Observed(c)
  PROVE  ClientInv(c)' /\ req'[c] \in Request
<1> DEFINE r == req[c]
<1>1. r \in Filtering
  BY FilterFields DEF DecideAge
<1>2. FilterInv(c) /\ r.ver \in Versions
  BY <1>1 DEF DocInv, ClientInv, DecideAge, Filtering
<1>3. req'[c] = [r EXCEPT !.ver = NoVersion, !.cut = IF Held(r.ver) THEN @ \cup {r.ver} ELSE @]
  BY DEF DecideAge, DocInv
<1>4. /\ req'[c].at = "filter" /\ req'[c].page = r.page /\ req'[c].cred = r.cred /\ req'[c].from = r.from
      /\ req'[c].doc = r.doc /\ req'[c].todo = r.todo /\ req'[c].ver = NoVersion
      /\ req'[c].cut = (IF Held(r.ver) THEN r.cut \cup {r.ver} ELSE r.cut)
  BY <1>1, <1>3 DEF Filtering
<1>5. req'[c] \in Request
  <2>1. (IF Held(r.ver) THEN r.cut \cup {r.ver} ELSE r.cut) \in SUBSET Versions
    BY <1>1, <1>2 DEF Filtering
  <2>2. req'[c] \in Filtering
    BY <1>1, <1>3, <2>1 DEF Filtering
  <2>3. QED BY <2>2 DEF Request
<1>6. banned'[c] = banned[c] \cap KnownRefusals(req[c].page)' /\ refused'[c] = refused[c] \cup GateRefusals'
  BY <1>4 DEF Observed
<1>7. (Held(r.ver) => r.ver \in refused[c]) /\ (~Held(r.ver) => Cleared(c, r.ver))
  BY <1>2, VerdictsSeen, MetadataAssumption DEF Cleared, FilterInv
<1>8. \A x \in r.doc.list : Packument(r.page) => x \in req'[c].todo \cup req'[c].cut \/ Cleared(c, x)
  BY <1>2, <1>4, <1>7 DEF FilterInv
<1>9. req'[c].cut \subseteq refused'[c]
  BY <1>2, <1>4, <1>6, <1>7 DEF FilterInv
<1> HIDE DEF r
<1>10. FilterInv(c)'
  BY <1>2, <1>4, <1>6, <1>8, <1>9 DEF FilterInv, Cleared, r
<1>11. QED BY <1>4, <1>5, <1>10 DEF ClientInv

LEMMA SendKeeps ==
  ASSUME DocInv, NEW c \in Clients, Send(c), Observed(c)
  PROVE  ClientInv(c)' /\ req'[c] \in Request
<1> DEFINE r == req[c]
           body == Filtered(r.doc, r.cut)
<1>1. r \in Filtering
  BY FilterFields DEF Send
<1>2. FilterInv(c) /\ r.ver = NoVersion /\ r.todo = {}
  BY DEF DocInv, ClientInv, Send
<1>3. req'[c] = [at |-> "done", page |-> r.page, cred |-> r.cred, from |-> r.from]
  BY DEF Send, DocInv
<1>4. req'[c] \in Request
  BY <1>1, <1>3 DEF Request, Filtering
<1>5. banned'[c] = banned[c] /\ refused'[c] = refused[c]
  BY <1>3 DEF Observed
<1>6. held'[c].via = "proxy" /\ held'[c].doc = body
  BY DEF Send, NotModified, DocInv
<1>7. /\ body.around = {}
      /\ IF r.doc.list \subseteq r.cut THEN body.list = r.doc.list ELSE body.list = r.doc.list \ r.cut
  BY <1>1, <1>2, RewriteTyped DEF Filtered, FilterInv, Documents, Filtering
<1>8. ASSUME Packument(r.page)
      PROVE  /\ (Rules \X body.list) \cap banned[c] = {} \/ body.list \subseteq refused[c]
             /\ Listed[r.page][r.cred] \ body.list \subseteq Unmappable \cup refused[c]
             /\ Listed[r.page][r.cred] \ Unmappable # {} => body.list # {}
  <2>1. Listed[r.page][r.cred] \ Unmappable \subseteq r.doc.list
    BY <1>1, <1>2, <1>8, RewriteTyped DEF FilterInv, Filtering
  <2>2. \A v \in r.doc.list \ r.cut : Cleared(c, v)
    BY <1>1, <1>2, <1>8, MetadataAssumption DEF FilterInv, Documents, Filtering
  <2>3. r.cut \subseteq refused[c]
    BY <1>2 DEF FilterInv
  <2> HIDE DEF body, r
  <2>4. CASE r.doc.list \subseteq r.cut
    BY <1>7, <2>1, <2>3, <2>4
  <2>5. CASE ~(r.doc.list \subseteq r.cut)
    <3>1. \A v \in body.list : <<"deny", v>> \notin banned[c] /\ <<"age", v>> \notin banned[c]
      BY <1>7, <2>2, <2>5 DEF Cleared
    <3>2. ASSUME NEW x \in Rules \X body.list PROVE x \notin banned[c]
      <4>1. PICK rule \in Rules, v \in body.list : x = <<rule, v>>
        OBVIOUS
      <4>2. QED BY <3>1, <4>1 DEF Rules
    <3>3. QED BY <1>7, <2>1, <2>3, <2>5, <3>2
  <2>6. QED BY <2>4, <2>5
<1>9. r.from = r.cred
  BY <1>2 DEF FilterInv
<1> HIDE DEF body
<1>10. DoneInv(c)'
  BY <1>3, <1>5, <1>6, <1>7, <1>8, <1>9 DEF DoneInv
<1>11. QED BY <1>3, <1>4, <1>10 DEF ClientInv

\* One client moves, the others rest.
LEMMA OneClient ==
  ASSUME DocInv, Observe, NEW c \in Clients, NEW r \in Request,
         req' = [req EXCEPT ![c] = r], ClientInv(c)', FlightInv',
         held' = [x \in Clients |-> held'[x]], \A x \in Clients \ {c} : held'[x] = held[x]
  PROVE  DocInv'
<1>1. req' \in [Clients -> Request]
  BY DEF DocInv
<1>2. \A x \in Clients \ {c} : ClientInv(x)'
  <2> TAKE x \in Clients \ {c}
  <2>1. req'[x] = req[x] /\ held'[x] = held[x]
    BY DEF DocInv
  <2>2. QED BY <2>1, ObserveEach, RestKeeps
<1>3. QED BY <1>1, <1>2 DEF DocInv

LEMMA FetchKeeps ==
  ASSUME DocInv, Observe, NEW k \in DOMAIN flight, Fetched(k) \/ FetchFailed(k)
  PROVE  DocInv'
<1>1. FlightInv'
  BY DEF DocInv, FlightInv, Fetched, FetchFailed, Land
<1>2. held' = held
  BY DEF Fetched, FetchFailed
<1>3. ASSUME NEW c \in Clients PROVE req'[c] \in Request /\ ClientInv(c)'
  <2>1. CASE req'[c] = req[c]
    BY <1>2, <2>1, ObserveEach, RestKeeps DEF DocInv
  <2>2. CASE c \in Waiters(k) /\ FetchFailed(k)
    BY <2>2 DEF FetchFailed, NoRequest, Request, ClientInv
  <2>3. CASE c \in Waiters(k) /\ Fetched(k)
    <3>1. req[c].at = "wait" /\ FlightKey(req[c].page, req[c].cred) = k
      BY <2>3 DEF Waiters
    <3>2. k = FlightKey(flight[k].page, flight[k].cred)
      BY DEF DocInv, FlightInv
    <3>3. req[c].page = flight[k].page /\ req[c].cred = flight[k].cred
      BY <3>1, <3>2 DEF FlightKey
    <3>4. req'[c] = Received(req[c], Upstream(req[c].page, req[c].cred), req[c].cred)
      BY <2>3, <3>3 DEF Fetched
    <3>5. QED BY <3>1, <3>4, ObserveEach, ReceiveKeeps
  <2>4. QED BY <2>1, <2>2, <2>3 DEF Fetched, FetchFailed
<1>4. req' = [c \in Clients |-> req'[c]]
  BY DEF Fetched, FetchFailed
<1>5. QED BY <1>1, <1>2, <1>3, <1>4 DEF DocInv

LEMMA ClientKeeps ==
  ASSUME DocInv, Observe, NEW c \in Clients,
         \/ \E page \in Pages, cred \in Creds : Ask(c, page, cred)
         \/ IndexFetched(c) \/ IndexRelayed(c) \/ DecideAge(c) \/ Send(c) \/ Finish(c) \/ Hangup(c)
         \/ \E v \in Versions : DecideDeny(c, v)
  PROVE  DocInv'
<1> USE ObserveEach
<1>1. NoRequest \in Request
  BY DEF Request
<1>2. ASSUME NEW page \in Pages, NEW cred \in Creds, Ask(c, page, cred) PROVE DocInv'
  <2> DEFINE r == [at |-> "wait", page |-> page, cred |-> cred]
  <2>1. r \in Request /\ req' = [req EXCEPT ![c] = r] /\ ClientInv(c)'
    BY <1>2 DEF Ask, Request, DocInv, ClientInv
  <2>2. FlightInv'
    <3>1. CASE flight' = flight
      BY <3>1 DEF DocInv, FlightInv
    <3>2. CASE flight' # flight
      BY <1>2, <3>2 DEF DocInv, FlightInv, Ask
    <3>3. QED BY <3>1, <3>2
  <2> HIDE DEF r
  <2>3. QED BY <1>2, <2>1, <2>2, OneClient DEF Ask, DocInv
<1>3. ASSUME UNCHANGED flight PROVE FlightInv'
  BY <1>3 DEF DocInv, FlightInv
<1>4. ASSUME IndexFetched(c) PROVE DocInv'
  <2>1. req[c].at = "wait" /\ flight' = flight /\ held' = held
    BY <1>4 DEF IndexFetched
  <2>2. CASE req' = [req EXCEPT ![c] = Received(@, Upstream(@.page, @.cred), @.cred)]
    <3> DEFINE r == Received(req[c], Upstream(req[c].page, req[c].cred), req[c].cred)
    <3>1. req' = [req EXCEPT ![c] = r] /\ req'[c] = r
      BY <2>2 DEF DocInv
    <3>2. ClientInv(c)' /\ r \in Request
      BY <2>1, <3>1, ReceiveKeeps
    <3> HIDE DEF r
    <3>3. QED BY <1>3, <2>1, <3>1, <3>2, OneClient DEF DocInv
  <2>3. CASE req' = [req EXCEPT ![c] = NoRequest]
    <3>1. ClientInv(c)'
      BY <2>3 DEF DocInv, ClientInv, NoRequest
    <3>2. QED BY <1>1, <1>3, <2>1, <2>3, <3>1, OneClient DEF DocInv
  <2>4. QED BY <1>4, <2>2, <2>3 DEF IndexFetched
<1>5. ASSUME Finish(c) \/ Hangup(c) PROVE DocInv'
  <2>1. req' = [req EXCEPT ![c] = NoRequest] /\ flight' = flight /\ held' = held
    BY <1>5 DEF Finish, Hangup
  <2>2. ClientInv(c)'
    BY <2>1 DEF DocInv, ClientInv, NoRequest
  <2>3. QED BY <1>1, <1>3, <2>1, <2>2, OneClient DEF DocInv
<1>6. ASSUME DecideAge(c) \/ Send(c) \/ \E v \in Versions : DecideDeny(c, v) PROVE DocInv'
  <2>1. ClientInv(c)' /\ req'[c] \in Request
    BY <1>6, AgeKeeps, SendKeeps, DenyKeeps
  <2>2. req' = [req EXCEPT ![c] = req'[c]] /\ flight' = flight
    BY <1>6 DEF DecideAge, Send, DecideDeny, DocInv
  <2>3. held' = [x \in Clients |-> held'[x]] /\ \A x \in Clients \ {c} : held'[x] = held[x]
    BY <1>6 DEF DecideAge, Send, DecideDeny, DocInv
  <2>4. QED BY <1>3, <2>1, <2>2, <2>3, OneClient
<1>7. ASSUME IndexRelayed(c) PROVE DocInv'
  <2> DEFINE r == [at |-> "relayed", page |-> req[c].page, cred |-> req[c].cred]
  <2>1. r \in Request
    BY <1>7, WaitFields DEF IndexRelayed, Request
  <2>2. req' = [req EXCEPT ![c] = r] /\ req'[c] = r /\ IndexPage(req[c].page)
    BY <1>7 DEF IndexRelayed, DocInv
  <2>3. ClientInv(c)'
    BY <2>2 DEF ClientInv, IndexPage
  <2>4. held' = [x \in Clients |-> held'[x]] /\ \A x \in Clients \ {c} : held'[x] = held[x]
    BY <1>7 DEF IndexRelayed, DocInv
  <2>5. flight' = flight
    BY <1>7 DEF IndexRelayed
  <2> HIDE DEF r
  <2>6. QED BY <1>3, <2>1, <2>2, <2>3, <2>4, <2>5, OneClient
<1>8. QED BY <1>2, <1>4, <1>5, <1>6, <1>7

\* Whatever the policy and the clock do meanwhile.
LEMMA ElsewhereKeeps ==
  ASSUME DocInv, Observe, UNCHANGED <<flight, req, held>>
  PROVE  DocInv'
<1>1. \A c \in Clients : ClientInv(c)'
  BY ObserveEach, RestKeeps
<1>2. FlightInv'
  BY DEF DocInv, FlightInv
<1>3. QED BY <1>1, <1>2 DEF DocInv

LEMMA OutageKeeps ==
  ASSUME DocInv, Outage PROVE DocInv'
<1>1. req' \in [Clients -> Request] /\ FlightInv' /\ held' = held
  BY DEF Outage, Request, FlightInv
<1>2. \A c \in Clients : ClientInv(c)'
  BY DEF Outage, ClientInv, NoRequest
<1>3. QED BY <1>1, <1>2 DEF DocInv

LEMMA DocInvNext == DocInv /\ [Next]_vars => DocInv'
<1> SUFFICES ASSUME DocInv, [Next]_vars PROVE DocInv'
  OBVIOUS
<1>1. CASE UNCHANGED vars
  BY <1>1 DEF vars, policyVars, docVars, DocInv, FlightInv, ClientInv, FilterInv, DoneInv, Cleared,
              KnownRefusals, GateRefusals, Denied, Held, Age, InForce, BootPolicy
<1>2. CASE Next
  <2>1. Observe
    BY <1>2 DEF Next
  <2>2. CASE DocNext
    BY <2>1, <2>2, ClientKeeps, FetchKeeps, ElsewhereKeeps DEF DocNext, Tick
  <2>3. CASE (Boot \/ EditNext) /\ UNCHANGED <<now, flight, req, held>>
    BY <2>1, <2>3, ElsewhereKeeps
  <2>4. QED BY <1>2, <2>2, <2>3, OutageKeeps DEF Next
<1>3. QED BY <1>1, <1>2

LEMMA DocInvHolds == Spec => []DocInv
<1>1. Init => DocInv
  BY DEF Init, DocInit, DocInv, Request, FlightInv, ClientInv, NoRequest
<1>2. QED BY <1>1, DocInvNext, PTL DEF Spec
-----------------------------------------------------------------------------
(* What clients are served *)

\* For any documents, policies and edits: a client that is answered keeps no link
\* around the proxy, except for an index that upstream answered without a document
\* and that proxyIndex relays, and is shown no version that one rule refused
\* throughout (proxyMetadata).
THEOREM DocumentsSafe == Spec => []SafeDocument
<1>1. DocInv => SafeDocument
  BY DEF DocInv, ClientInv, DoneInv, SafeDocument, Served, Relayed
<1>2. QED BY <1>1, DocInvHolds, PTL

\* A version is hidden from a packument for a cause, and never all of them
\* (FilterVersions).
THEOREM NothingHiddenIdly == Spec => []HiddenForCause
<1>1. DocInv => HiddenForCause
  BY DEF DocInv, ClientInv, DoneInv, HiddenForCause, Served
<1>2. QED BY <1>1, DocInvHolds, PTL

\* No request works on a document fetched with somebody else's credentials.
THEOREM DocumentsOwn == Spec => []OwnDocument
<1>1. DocInv => OwnDocument
  BY DEF DocInv, ClientInv, FilterInv, DoneInv, OwnDocument
<1>2. QED BY <1>1, DocInvHolds, PTL
=============================================================================
