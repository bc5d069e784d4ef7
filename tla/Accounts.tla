------------------------------ MODULE Accounts ------------------------------
(***************************************************************************)
(* Console accounts: the user table (internal/users/store.go), the         *)
(* sessions signed over it (internal/auth), the limiter of failed logins   *)
(* (internal/auth/ratelimit.go), the console's user pages                  *)
(* (internal/console/users.go) and the recovery command.                   *)
(*                                                                         *)
(* A store method is one statement or one transaction and so one step; a   *)
(* handler is several, with a slow password hash between them, and works   *)
(* on the row it has read.  What a client sends is chosen when it is       *)
(* used.  A session's two tokens carry the same claims and are one         *)
(* element of tokens; one that expires is one that nobody presents again.  *)
(* A limiter window whose time is over counts as absent in every branch of *)
(* the code, so its end just empties it.                                   *)
(*                                                                         *)
(* Left out: requests that change nothing (GET, a wrong origin, a body     *)
(* that does not decode), last_login_at, and logout, which clears the      *)
(* browser's cookies and touches nothing on the server.                    *)
(***************************************************************************)
EXTENDS Integers, FiniteSets

CONSTANTS
  Names,       \* valid usernames
  Admin,       \* InitialAdminUsername
  Junk,        \* a login name that is no valid username
  Passwords,
  IPs,
  Requests,    \* handler goroutines, of any process on this database
  PairLimit, IPLimit,
  MaxClock,    \* bound on the number of writes to the table
  NoUser, NoName, NoIP

Roles == {"admin", "operator"}

ASSUME AccountsAssumption ==
  /\ Admin \in Names
  /\ Junk \notin Names
  /\ PairLimit \in Nat \ {0} /\ IPLimit \in Nat \ {0} /\ MaxClock \in Nat
  /\ NoName \notin Names \cup {Junk} /\ NoIP \notin IPs
  /\ NoUser \notin [pw : Passwords, role : Roles, off : BOOLEAN, must : BOOLEAN, ver : Nat]

VARIABLES
  user,     \* the users table
  clk,      \* nanoseconds, as far as writes tell them apart
  tokens,   \* signed sessions
  pair,     \* limiter: attempts counted against a name and an address
  addr,     \* limiter: attempts counted against an address
  rpc,      \* where each request is
  rname,    \* the account it is about
  rip,      \* the client address
  rrow,     \* the row it has read
  rwant,    \* the role and status a PATCH asks for
  rat,      \* history: the write behind the row it has read
  changed,  \* history: the write that last changed an account's rights
  wrong     \* history: failed checks of an address in its current window

tableVars   == <<user, clk, changed>>
limitVars   == <<pair, addr, wrong>>
requestVars == <<rpc, rname, rip, rrow, rwant, rat>>
vars        == <<tableVars, limitVars, requestVars, tokens>>

User    == [pw : Passwords, role : Roles, off : BOOLEAN, must : BOOLEAN, ver : Nat]
Token   == [sub : Names, ver : Nat, at : Nat]
Wish    == [role : Roles, off : BOOLEAN]
NoWish  == [role |-> "operator", off |-> FALSE]
PCs     == {"idle", "check", "cp_check", "cp_write", "cp_read", "issue", "console",
            "patch_role", "patch_off", "stream", "boot"}

TypeOK ==
  /\ user \in [Names -> User \cup {NoUser}]
  /\ clk \in Nat
  /\ tokens \subseteq Token
  /\ pair \in [Names \X IPs -> 0 .. PairLimit]
  /\ addr \in [IPs -> 0 .. IPLimit]
  /\ rpc \in [Requests -> PCs]
  /\ rname \in [Requests -> Names \cup {Junk, NoName}]
  /\ rip \in [Requests -> IPs \cup {NoIP}]
  /\ rrow \in [Requests -> User \cup {NoUser}]
  /\ rwant \in [Requests -> Wish]
  /\ rat \in [Requests -> Nat]
  /\ changed \in [Names -> Nat]
  /\ wrong \in [IPs -> Nat]

Exists(n)      == user[n] # NoUser
Enabled(n)     == Exists(n) /\ ~user[n].off
EnabledAdmins  == {n \in Names : Enabled(n) /\ user[n].role = "admin"}
Empty          == \A n \in Names : ~Exists(n)
HasEnabledUsers == \E n \in Names : Enabled(n)

At(q, l) == rpc' = [rpc EXCEPT ![q] = l]

\* A handler returns.
Done(q) ==
  /\ At(q, "idle")
  /\ rname' = [rname EXCEPT ![q] = NoName]
  /\ rip' = [rip EXCEPT ![q] = NoIP]
  /\ rrow' = [rrow EXCEPT ![q] = NoUser]
  /\ rwant' = [rwant EXCEPT ![q] = NoWish]
  /\ rat' = [rat EXCEPT ![q] = 0]

\* Store.Get: the request goes on with the row of n.
Load(q, n) ==
  /\ rname' = [rname EXCEPT ![q] = n]
  /\ rrow' = [rrow EXCEPT ![q] = user[n]]
  /\ rat' = [rat EXCEPT ![q] = changed[n]]
-----------------------------------------------------------------------------
(* The store's writes *)

\* A write at a new point in time that leaves n with row u.  The history notes
\* a change of the password, role, status or identity behind the name.
Write(n, u) ==
  /\ clk < MaxClock
  /\ clk' = clk + 1
  /\ user' = [user EXCEPT ![n] = u]
  /\ changed' = [changed EXCEPT ![n] = clk + 1]

\* A new row's version is the time of its creation.
Insert(n, p, r) == Write(n, [pw |-> p, role |-> r, off |-> FALSE, must |-> TRUE, ver |-> clk + 1])

\* Mutant of guardLastAdmin: disabled administrators count.
guardLastAdminAny(n) ==
  user[n].role = "admin" /\ ~user[n].off => \E m \in Names \ {n} : Exists(m) /\ user[m].role = "admin"

guardLastAdmin(n) == n \in EnabledAdmins => EnabledAdmins # {n}

\* Mutant of SetRole: sessions are not revoked.
SetRoleKeepsVersion(n, r) ==
  /\ Exists(n)
  /\ user[n].role # r
  /\ r # "admin" => guardLastAdmin(n)
  /\ Write(n, [user[n] EXCEPT !.role = r])

\* mutate's callers refuse or do nothing where these guards fail.
SetRole(n, r) ==
  /\ Exists(n)
  /\ user[n].role # r
  /\ r # "admin" => guardLastAdmin(n)
  /\ Write(n, [user[n] EXCEPT !.role = r, !.ver = @ + 1])

SetDisabled(n, off) ==
  /\ Exists(n)
  /\ user[n].off # off
  /\ off => guardLastAdmin(n)
  /\ Write(n, [user[n] EXCEPT !.off = off, !.ver = @ + 1])

SetPassword(n, p, must) ==
  /\ Exists(n)
  /\ Write(n, [user[n] EXCEPT !.pw = p, !.must = must, !.ver = @ + 1])

Delete(n) ==
  /\ Exists(n)
  /\ guardLastAdmin(n)
  /\ Write(n, NoUser)
-----------------------------------------------------------------------------
(* The limiter *)

blocked(n, i) == (n \in Names /\ pair[<<n, i>>] >= PairLimit) \/ addr[i] >= IPLimit

\* Allow counts the attempt before the password is looked at.
Allow(n, i) ==
  /\ ~blocked(n, i)
  /\ pair' = IF n \in Names THEN [pair EXCEPT ![<<n, i>>] = @ + 1] ELSE pair
  /\ addr' = [addr EXCEPT ![i] = @ + 1]
  /\ UNCHANGED wrong

\* Mutant of Success: the address keeps the reservation.
SuccessPairOnly(n, i) ==
  /\ pair' = [pair EXCEPT ![<<n, i>>] = 0]
  /\ UNCHANGED <<addr, wrong>>

\* Success clears the pair and takes one attempt back from the address.
Success(n, i) ==
  /\ pair' = [pair EXCEPT ![<<n, i>>] = 0]
  /\ addr' = [addr EXCEPT ![i] = IF @ > 0 THEN @ - 1 ELSE 0]
  /\ UNCHANGED wrong

\* The attempt stays counted.
Failed(i) == wrong' = [wrong EXCEPT ![i] = @ + 1] /\ UNCHANGED <<pair, addr>>

WindowEnds ==
  /\ \/ \E n \in Names, i \in IPs :
          pair[<<n, i>>] > 0 /\ pair' = [pair EXCEPT ![<<n, i>>] = 0] /\ UNCHANGED <<addr, wrong>>
     \/ \E i \in IPs :
          /\ addr[i] + wrong[i] > 0
          /\ addr' = [addr EXCEPT ![i] = 0]
          /\ wrong' = [wrong EXCEPT ![i] = 0]
          /\ UNCHANGED pair
  /\ UNCHANGED <<tableVars, requestVars, tokens>>
-----------------------------------------------------------------------------
(* Sessions *)

\* Whether a token speaks for the current row of its user.
userForToken(t) == Enabled(t.sub) /\ t.ver = user[t.sub].ver

\* issueSession, for the row the request has read.
issueSession(q) ==
  /\ rpc[q] = "issue"
  /\ tokens' = tokens \cup {[sub |-> rname[q], ver |-> rrow[q].ver, at |-> rat[q]]}
  /\ Done(q)
  /\ UNCHANGED <<tableVars, limitVars>>

\* login, up to the limiter; a locked console and a blocked client are refused.
LoginAllow(q, n, i) ==
  /\ rpc[q] = "idle"
  /\ HasEnabledUsers
  /\ Allow(n, i)
  /\ At(q, "check")
  /\ rname' = [rname EXCEPT ![q] = n]
  /\ rip' = [rip EXCEPT ![q] = i]
  /\ UNCHANGED <<tableVars, rrow, rwant, rat, tokens>>

\* login, from the read on: an unknown or disabled user, a wrong password and a
\* read that fails end alike.
LoginCheck(q, p) ==
  LET n == rname[q]
      valid == n \in Names /\ Enabled(n) /\ user[n].pw = p
  IN /\ rpc[q] = "check"
     /\ \/ valid /\ Success(n, rip[q]) /\ At(q, "issue") /\ Load(q, n) /\ UNCHANGED <<rip, rwant>>
        \/ Failed(rip[q]) /\ Done(q)
     /\ UNCHANGED <<tableVars, tokens>>

refresh(q, t) ==
  /\ rpc[q] = "idle"
  /\ userForToken(t)
  /\ Load(q, t.sub)
  /\ At(q, "issue")
  /\ UNCHANGED <<tableVars, limitVars, rip, rwant, tokens>>

\* changePassword authenticates and reserves an attempt,
ChangeStart(q, t, i) ==
  /\ rpc[q] = "idle"
  /\ userForToken(t)
  /\ Allow(t.sub, i)
  /\ Load(q, t.sub)
  /\ At(q, "cp_check")
  /\ rip' = [rip EXCEPT ![q] = i]
  /\ UNCHANGED <<tableVars, rwant, tokens>>

\* compares the current password with the row it has, and the new one with the
\* rules,
ChangeCheck(q) ==
  /\ rpc[q] = "cp_check"
  /\ \/ Failed(rip[q]) /\ Done(q)
     \/ Success(rname[q], rip[q]) /\ Done(q)
     \/ /\ Success(rname[q], rip[q])
        /\ At(q, "cp_write")
        /\ UNCHANGED <<rname, rip, rrow, rwant, rat>>
  /\ UNCHANGED <<tableVars, tokens>>

\* writes the new one,
ChangeWrite(q, p) ==
  /\ rpc[q] = "cp_write"
  /\ p # rrow[q].pw
  /\ \/ /\ SetPassword(rname[q], p, FALSE)
        /\ At(q, "cp_read")
        /\ UNCHANGED <<rname, rip, rrow, rwant, rat>>
     \/ Done(q) /\ UNCHANGED tableVars
  /\ UNCHANGED <<limitVars, tokens>>

\* and reads the row back for a new session.
ChangeRead(q) ==
  /\ rpc[q] = "cp_read"
  /\ \/ Exists(rname[q]) /\ Load(q, rname[q]) /\ At(q, "issue") /\ UNCHANGED <<rip, rwant>>
     \/ Done(q)
  /\ UNCHANGED <<tableVars, limitVars, tokens>>
-----------------------------------------------------------------------------
(* The console's handlers behind Middleware.  A store method may refuse, find *)
(* nothing to do or fail with the database, and then changes nothing.        *)

\* The caller's rights are those of the row read here until the handler returns.
Middleware(q, t) ==
  /\ rpc[q] = "idle"
  /\ userForToken(t)
  /\ ~user[t.sub].must
  /\ Load(q, t.sub)
  /\ At(q, "console")
  /\ UNCHANGED <<tableVars, limitVars, rip, rwant, tokens>>

requireAdmin(q) == rpc[q] = "console" /\ rrow[q].role = "admin"

createUser(q, n, p, r) ==
  /\ requireAdmin(q)
  /\ \/ ~Exists(n) /\ Insert(n, p, r)
     \/ UNCHANGED tableVars
  /\ Done(q)
  /\ UNCHANGED <<limitVars, tokens>>

resetUserPassword(q, n, p) ==
  /\ requireAdmin(q)
  /\ \/ SetPassword(n, p, TRUE)
     \/ UNCHANGED tableVars
  /\ Done(q)
  /\ UNCHANGED <<limitVars, tokens>>

\* Nobody deletes themselves.
deleteUser(q, n) ==
  /\ requireAdmin(q)
  /\ n # rname[q]
  /\ \/ Delete(n)
     \/ UNCHANGED tableVars
  /\ Done(q)
  /\ UNCHANGED <<limitVars, tokens>>

\* patchUser decides what to change from one read of the row; a wish equal to
\* the row stands for a field that is not given.
PatchRead(q, n, w) ==
  /\ requireAdmin(q)
  /\ Exists(n)
  /\ w # [role |-> user[n].role, off |-> user[n].off]
  /\ n = rname[q] => w.role \in {"admin", user[n].role} /\ w.off \in {FALSE, user[n].off}
  /\ Load(q, n)
  /\ rwant' = [rwant EXCEPT ![q] = w]
  /\ At(q, IF w.role # user[n].role THEN "patch_role" ELSE "patch_off")
  /\ UNCHANGED <<tableVars, limitVars, rip, tokens>>

\* The role first; a refusal ends the request.
PatchRole(q) ==
  LET n == rname[q]
      r == rwant[q].role
      Onward == IF rwant[q].off # rrow[q].off
                THEN At(q, "patch_off") /\ UNCHANGED <<rname, rip, rrow, rwant, rat>>
                ELSE Done(q)
  IN /\ rpc[q] = "patch_role"
     /\ \/ SetRole(n, r) /\ Onward
        \/ Exists(n) /\ user[n].role = r /\ Onward /\ UNCHANGED tableVars
        \/ Done(q) /\ UNCHANGED tableVars
     /\ UNCHANGED <<limitVars, tokens>>

\* Then the status.
PatchOff(q) ==
  LET n == rname[q]
      off == rwant[q].off
  IN /\ rpc[q] = "patch_off"
     /\ \/ SetDisabled(n, off)
        \/ UNCHANGED tableVars
     /\ Done(q)
     /\ UNCHANGED <<limitVars, tokens>>

\* The event stream stays open until its heartbeat finds the session revoked
\* or the client goes.
StreamOpen(q) ==
  /\ rpc[q] = "console"
  /\ At(q, "stream")
  /\ UNCHANGED <<tableVars, limitVars, rname, rip, rrow, rwant, rat, tokens>>

\* Mutant of Recheck: the version is not compared.
RecheckAnyVersion(q) == Enabled(rname[q]) /\ ~user[rname[q]].must

Recheck(q) == Enabled(rname[q]) /\ ~user[rname[q]].must /\ user[rname[q]].ver = rrow[q].ver

Heartbeat(q) ==
  /\ rpc[q] = "stream"
  /\ ~Recheck(q)
  /\ Done(q)
  /\ UNCHANGED <<tableVars, limitVars, tokens>>

StreamClose(q) ==
  /\ rpc[q] = "stream"
  /\ Done(q)
  /\ UNCHANGED <<tableVars, limitVars, tokens>>
-----------------------------------------------------------------------------
(* Processes that start, and the recovery command *)

\* EnsureInitialAdmin looks whether the table is empty, hashes a password,
BootCount(q) ==
  /\ rpc[q] = "idle"
  /\ Empty
  /\ At(q, "boot")
  /\ UNCHANGED <<tableVars, limitVars, rname, rip, rrow, rwant, rat, tokens>>

\* and inserts if it still is.
BootInsert(q, p) ==
  /\ rpc[q] = "boot"
  /\ \/ Empty /\ Insert(Admin, p, "admin")
     \/ UNCHANGED tableVars
  /\ Done(q)
  /\ UNCHANGED <<limitVars, tokens>>

ResetAdmin(p) ==
  /\ \/ Exists(Admin) /\ Write(Admin, [pw |-> p, role |-> "admin", off |-> FALSE, must |-> TRUE,
                                       ver |-> user[Admin].ver + 1])
     \/ ~Exists(Admin) /\ Insert(Admin, p, "admin")
  /\ UNCHANGED <<limitVars, requestVars, tokens>>
-----------------------------------------------------------------------------
\* A process starts at time c over a table and the tokens signed for it.
Start(c, table, last, signed) ==
  /\ user = table
  /\ clk = c
  /\ changed = last
  /\ tokens = signed
  /\ pair = [k \in Names \X IPs |-> 0]
  /\ addr = [i \in IPs |-> 0]
  /\ wrong = [i \in IPs |-> 0]
  /\ rpc = [q \in Requests |-> "idle"]
  /\ rname = [q \in Requests |-> NoName]
  /\ rip = [q \in Requests |-> NoIP]
  /\ rrow = [q \in Requests |-> NoUser]
  /\ rwant = [q \in Requests |-> NoWish]
  /\ rat = [q \in Requests |-> 0]

Init == Start(0, [n \in Names |-> NoUser], [n \in Names |-> 0], {})

Session(q) ==
  \/ \E n \in Names \cup {Junk}, i \in IPs : LoginAllow(q, n, i)
  \/ \E p \in Passwords : LoginCheck(q, p) \/ ChangeWrite(q, p)
  \/ \E t \in tokens : refresh(q, t) \/ Middleware(q, t) \/ (\E i \in IPs : ChangeStart(q, t, i))
  \/ ChangeCheck(q) \/ ChangeRead(q) \/ issueSession(q)

Console(q) ==
  \/ \E n \in Names, p \in Passwords : resetUserPassword(q, n, p) \/ (\E r \in Roles : createUser(q, n, p, r))
  \/ \E n \in Names : deleteUser(q, n) \/ (\E w \in Wish : PatchRead(q, n, w))
  \/ PatchRole(q) \/ PatchOff(q)
  \/ StreamOpen(q) \/ Heartbeat(q) \/ StreamClose(q)

Boot(q) == BootCount(q) \/ \E p \in Passwords : BootInsert(q, p)

Next ==
  \/ \E q \in Requests : Session(q) \/ Console(q) \/ Boot(q)
  \/ \E p \in Passwords : ResetAdmin(p)
  \/ WindowEnds

Spec == Init /\ [][Next]_vars
-----------------------------------------------------------------------------
(* Properties *)

\* "The last enabled admin cannot be disabled, demoted or deleted": once there
\* are users, one of them is an enabled administrator, however the console's
\* requests, PATCHes in two parts, starting processes and the recovery command
\* interleave.
AdminRemains == Empty \/ EnabledAdmins # {}

\* "Disabling a user, changing their role or resetting or changing their
\* password revokes their sessions", and a user created again under an old name
\* does not revive any: a token that is accepted was issued over the row's last
\* change of rights.
NoRevivedToken == \A t \in tokens : userForToken(t) => t.at = changed[t.sub]

Pending(i) == {q \in Requests : rip[q] = i /\ rpc[q] \in {"check", "cp_check"}}

\* An address is charged for attempts that failed or are still being checked
\* and for nothing else, so successes alone never block it.
LockoutEarned == \A i \in IPs : addr[i] <= wrong[i] + Cardinality(Pending(i))

\* events: "A deleted, disabled or demoted user (any change that revokes
\* sessions) must not keep receiving the feed": from such a change on, every
\* heartbeat of the stream finds it revoked, whatever changes follow.
StreamRevoked ==
  \A q \in Requests :
    rpc[q] = "stream" /\ changed[rname[q]] # rat[q] => ~Recheck(q)
=============================================================================
