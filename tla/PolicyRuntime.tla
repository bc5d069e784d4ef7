--------------------------- MODULE PolicyRuntime ---------------------------
(***************************************************************************)
(* The runtime policy (internal/policy): the snapshot behind an atomic     *)
(* pointer that every gate reads, the row of the settings table it is      *)
(* stored in, and the console's edits, which read, change, validate, store *)
(* and install it under a lock.                                            *)
(*                                                                         *)
(* A policy is the record of RuntimeParams; a list is the set of its       *)
(* entries, and Covers says which versions of the one package looked at an *)
(* entry names (all of them for "eco/name").  A body that does not decode  *)
(* never reaches the policy and is left out, like GET.                     *)
(***************************************************************************)
EXTENDS Integers

CONSTANTS
  Editors,      \* console requests that edit the policy
  Changes,      \* what they send
  Seeds,        \* what the YAML file may say; it is not validated
  LegacyRows,   \* rows written before the allowlist was split
  Entries,      \* list entries of the shape "eco/name[@version]"
  Versions,     \* of the package whose verdicts are looked at
  Covers,       \* entry -> versions it names
  FileAllow,    \* entries of supply_chain.allowlist_path
  CVEBlock,     \* profile.cve_block
  MaxCrashes,   \* bound on process crashes
  NoRow, NoPolicy, NoEditor

Modes      == {"enforce", "dry_run", "off"}
Severities == {"LOW", "MEDIUM", "HIGH", "CRITICAL"}
Lists      == {"supply", "cve", "deny"}
Fields     == {"mode", "age", "sev"} \cup Lists

\* RuntimeParams, and the row it is stored in.
Params ==
  [mode : STRING, age : Int, sev : STRING,
   supply : SUBSET STRING, cve : SUBSET STRING, deny : SUBSET STRING]

Rows == [params : Params, legacy : SUBSET STRING]

FieldType(f) == CASE f \in {"mode", "sev"} -> STRING [] f = "age" -> Int [] f \in Lists -> SUBSET STRING

\* A body that decodes: some of the fields, or one entry of one list.
Decodes(c) ==
  \/ c.kind = "put" /\ DOMAIN c.fields \subseteq Fields /\ \A f \in DOMAIN c.fields : c.fields[f] \in FieldType(f)
  \/ c.kind \in {"add", "remove"} /\ c.list \in Lists /\ c.entry \in STRING

ASSUME PolicyAssumption ==
  /\ Covers \in [Entries -> SUBSET Versions]
  /\ Entries \subseteq STRING /\ FileAllow \subseteq Entries
  /\ Seeds \subseteq Params /\ NoPolicy \notin Params
  /\ LegacyRows \subseteq Rows /\ NoRow \notin Rows
  /\ \A c \in Changes : Decodes(c)
  /\ NoEditor \notin Editors
  /\ MaxCrashes \in Nat

VARIABLES
  seed,     \* the policy of this installation's YAML file
  cur,      \* the snapshot in force; NoPolicy while the process is down
  stored,   \* the settings row: the params and the legacy allowlist
  lock,     \* Runtime.mu
  call,     \* per editor: where it is, its change, the params it will write
  crashes

policyVars == <<seed, cur, stored, lock, call, crashes>>

Free == [at |-> "idle"]

----------------------------------------------------------------------------
(* The rules of the policy. *)

Named(list) == UNION {Covers[x] : x \in list \cap Entries}

Rank(s) ==
  CASE s = "NONE" -> 0 [] s = "LOW" -> 1 [] s = "MEDIUM" -> 2 [] s = "HIGH" -> 3 [] s = "CRITICAL" -> 4

\* The CVE gate's verdict on a version whose scan found these severities.
Evaluate(p, v, findings) ==
  IF v \in Named(p.deny) THEN "denylisted"
  ELSE IF v \in Named(p.cve) THEN "allowlisted_bypass"
  ELSE IF ~CVEBlock THEN "cve_block_disabled"
  ELSE IF \E s \in findings : Rank(s) >= Rank(p.sev) THEN "cve_found"
  ELSE "ok"

\* The supply-chain gate's verdict on a version of this age.  A mode the code
\* does not know, which only the YAML file can bring in, enforces.
Check(p, v, age) ==
  IF p.mode = "off" THEN "off"
  ELSE IF v \in Named(FileAllow \cup p.supply) THEN "allowlisted"
  ELSE IF age >= p.age THEN "ok"
  ELSE IF p.mode = "dry_run" THEN "dry_run"
  ELSE "package_younger_than_min_age"

Holds(verdict) == verdict = "package_younger_than_min_age"

----------------------------------------------------------------------------
(* Edits. *)

WellFormed(list) == list \subseteq Entries

ValidParams(p) ==
  /\ p.mode \in Modes
  /\ p.age >= 0
  /\ p.sev \in Severities
  /\ \A l \in Lists : WellFormed(p[l])

\* What a request makes of the params it finds: a PUT replaces the fields it
\* carries, a list edit adds or removes one entry.
Edited(c, p) ==
  CASE c.kind = "put"    -> [f \in Fields |-> IF f \in DOMAIN c.fields THEN c.fields[f] ELSE p[f]]
    [] c.kind = "add"    -> [p EXCEPT ![c.list] = @ \cup {c.entry}]
    [] c.kind = "remove" -> [p EXCEPT ![c.list] = @ \ {c.entry}]

NoEffect(c, p) == c.kind \in {"add", "remove"} /\ Edited(c, p) = p

\* A list edit checks its own entry first; one that would change nothing is
\* accepted without validating the rest.
Permitted(c, p) ==
  /\ c.kind \in {"add", "remove"} => WellFormed({c.entry})
  /\ NoEffect(c, p) \/ ValidParams(Edited(c, p))

\* Reading a row migrates the legacy allowlist into both lists.
DecodeStored(row) == [row.params EXCEPT !.supply = @ \cup row.legacy, !.cve = @ \cup row.legacy]

EncodeStored(p) == [params |-> p, legacy |-> {}]

BootPolicy == IF stored = NoRow THEN seed ELSE DecodeStored(stored)

PolicyInit ==
  /\ seed \in Seeds
  /\ cur = NoPolicy
  /\ stored \in {NoRow} \cup LegacyRows
  /\ lock = NoEditor
  /\ call = [e \in Editors |-> Free]
  /\ crashes = 0

\* NewRuntimeWithStore: the stored policy wins, an empty store is seeded.
Boot ==
  /\ cur = NoPolicy
  /\ cur' = BootPolicy
  /\ stored' = IF stored = NoRow THEN EncodeStored(seed) ELSE stored
  /\ UNCHANGED <<seed, lock, call, crashes>>

\* putPolicy or editList has decoded its body and calls Update or EditList.
Begin(e, c) ==
  /\ cur # NoPolicy /\ call[e] = Free
  /\ call' = [call EXCEPT ![e] = [at |-> "asked", change |-> c]]
  /\ UNCHANGED <<seed, cur, stored, lock, crashes>>

\* Mutant of Enter: the handler has read the policy before it takes the lock.
EnterLate(e) ==
  /\ \/ /\ call[e].at = "asked" /\ Permitted(call[e].change, cur) /\ ~NoEffect(call[e].change, cur)
        /\ call' = [call EXCEPT ![e] = [at |-> "read", change |-> call[e].change,
                                        next |-> Edited(call[e].change, cur)]]
        /\ UNCHANGED lock
     \/ /\ call[e].at = "read" /\ lock = NoEditor
        /\ call' = [call EXCEPT ![e].at = "saving"]
        /\ lock' = e
  /\ UNCHANGED <<seed, cur, stored, crashes>>

\* Takes the lock, reads the policy in force and works out the new one.  A
\* refusal and an edit without effect let the lock go at once.
Enter(e) ==
  /\ call[e].at = "asked" /\ lock = NoEditor
  /\ LET c == call[e].change IN
       \/ /\ ~Permitted(c, cur)
          /\ call' = [call EXCEPT ![e] = [at |-> "refused"]]
          /\ UNCHANGED lock
       \/ /\ Permitted(c, cur) /\ NoEffect(c, cur)
          /\ call' = [call EXCEPT ![e] = [at |-> "applied"]]
          /\ UNCHANGED lock
       \/ /\ Permitted(c, cur) /\ ~NoEffect(c, cur)
          /\ call' = [call EXCEPT ![e] = [at |-> "saving", change |-> c, next |-> Edited(c, cur)]]
          /\ lock' = e
  /\ UNCHANGED <<seed, cur, stored, crashes>>

Save(e) ==
  /\ call[e].at = "saving"
  /\ stored' = EncodeStored(call[e].next)
  /\ call' = [call EXCEPT ![e].at = "installing"]
  /\ UNCHANGED <<seed, cur, lock, crashes>>

\* Mutant of SaveFails: the snapshot had been swapped before the row was written.
InstalledAnyway(e) ==
  /\ call[e].at = "saving"
  /\ cur' = call[e].next
  /\ call' = [call EXCEPT ![e] = [at |-> "failed"]]
  /\ lock' = NoEditor
  /\ UNCHANGED <<seed, stored, crashes>>

\* PersistError: the policy in force stays.
SaveFails(e) ==
  /\ call[e].at = "saving"
  /\ call' = [call EXCEPT ![e] = [at |-> "failed"]]
  /\ lock' = NoEditor
  /\ UNCHANGED <<seed, cur, stored, crashes>>

\* install swaps engine and filter together; then the lock is released.
Install(e) ==
  /\ call[e].at = "installing"
  /\ cur' = call[e].next
  /\ call' = [call EXCEPT ![e] = [at |-> "applied"]]
  /\ lock' = NoEditor
  /\ UNCHANGED <<seed, stored, crashes>>

\* 200 with the policy in force, 400, or 500.
Reply(e) ==
  /\ call[e].at \in {"applied", "refused", "failed"}
  /\ call' = [call EXCEPT ![e] = Free]
  /\ UNCHANGED <<seed, cur, stored, lock, crashes>>

\* The process dies between any two steps.
Crash ==
  /\ cur # NoPolicy /\ crashes < MaxCrashes
  /\ cur' = NoPolicy
  /\ lock' = NoEditor
  /\ call' = [e \in Editors |-> Free]
  /\ crashes' = crashes + 1
  /\ UNCHANGED <<seed, stored>>

EditNext ==
  \E e \in Editors :
    \/ \E c \in Changes : Begin(e, c)
    \/ Enter(e) \/ Save(e) \/ SaveFails(e) \/ Install(e) \/ Reply(e)

PolicyNext == Boot \/ EditNext \/ Crash

----------------------------------------------------------------------------
(* Properties. *)

\* The policy a gate sees, or would see after the next start.
InForce == IF cur = NoPolicy THEN BootPolicy ELSE cur

Progress(e) ==
  IF call[e].at \in {"asked", "saving", "installing"}
    THEN [at |-> "open", change |-> call[e].change]
    ELSE call[e]

Register == INSTANCE PolicyRegister WITH
  Values  <- Seeds \cup {DecodeStored(r) : r \in LegacyRows},
  value   <- InForce,
  call    <- [e \in Editors |-> Progress(e)],
  Legal   <- Permitted,
  Outcome <- Edited

\* Concurrent edits (Update, EditList), a failed write of the row and a crash
\* between any two steps leave the policy one register: no edit is lost or
\* undone by another, an edit that failed is not in force, one that was
\* answered with 200 is in force after a restart too, and a crash applies at
\* most the edit that had been stored.
OnePolicy == Register!Spec

Editing == \E e \in Editors : call[e].at \in {"saving", "installing"}

\* Whenever no edit is being written, the lock is free for the next one and
\* what is in force is what a restart would bring back (updateLocked saves
\* before it installs, and every path out of it unlocks).
InForceIsStored ==
  cur # NoPolicy /\ ~Editing =>
    lock = NoEditor /\ stored # NoRow /\ cur = DecodeStored(stored)
=============================================================================
