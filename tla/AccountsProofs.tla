--------------------------- MODULE AccountsProofs ---------------------------
(***************************************************************************)
(* Proofs about Accounts, for any sets of users, passwords, addresses and  *)
(* requests and any limits.                                                *)
(***************************************************************************)
EXTENDS Accounts, FiniteSetTheorems, TLAPS

\* What a claim of version v over the rights of n last changed at a is worth in
\* the table U at time c: later versions are larger, and the row's own version
\* stands for its last change.
Sound(U, c, H, n, v, a) ==
  /\ v <= c
  /\ U[n] # NoUser => v <= U[n].ver /\ (v = U[n].ver => a = H[n])

\* The places where a request holds a row.
Holding == {"cp_check", "cp_write", "cp_read", "issue", "console", "patch_role", "patch_off", "stream"}

Versions == \A n \in Names : Exists(n) => user[n].ver <= clk

RowsHeld ==
  \A q \in Requests :
    /\ rpc[q] \in Holding <=> rrow[q] # NoUser
    /\ rpc[q] \in Holding => rname[q] \in Names /\ Sound(user, clk, changed, rname[q], rrow[q].ver, rat[q])
    /\ rpc[q] \in Holding \cup {"check"} => ~Empty

TokensSound == \A t \in tokens : Sound(user, clk, changed, t.sub, t.ver, t.at)

IInv == TypeOK /\ Versions /\ RowsHeld /\ TokensSound /\ AdminRemains

TableOK ==
  user \in [Names -> User \cup {NoUser}] /\ clk \in Nat /\ changed \in [Names -> Nat]

LimitOK ==
  pair \in [Names \X IPs -> 0 .. PairLimit] /\ addr \in [IPs -> 0 .. IPLimit] /\ wrong \in [IPs -> Nat]

RequestOK ==
  /\ rpc \in [Requests -> PCs]
  /\ rname \in [Requests -> Names \cup {Junk, NoName}]
  /\ rip \in [Requests -> IPs \cup {NoIP}]
  /\ rrow \in [Requests -> User \cup {NoUser}]
  /\ rwant \in [Requests -> Wish]
  /\ rat \in [Requests -> Nat]

-----------------------------------------------------------------------------
(* What a step does to the table, a request's row and the tokens. *)

\* A legal write: one row, whose version grows or is the time, and an enabled
\* administrator is left.
Legal(n, u) ==
  /\ Write(n, u)
  /\ u \in User \cup {NoUser}
  /\ u # NoUser => u.ver = IF Exists(n) THEN user[n].ver + 1 ELSE clk + 1
  /\ \E m \in Names : user'[m] # NoUser /\ ~user'[m].off /\ user'[m].role = "admin"

TableStep == UNCHANGED tableVars \/ \E n \in Names, u \in User \cup {NoUser} : Legal(n, u)

Loaded(q) ==
  /\ rname'[q] \in Names
  /\ user[rname'[q]] # NoUser
  /\ rrow'[q] = user[rname'[q]]
  /\ rat'[q] = changed[rname'[q]]

RowStep ==
  \A q \in Requests :
    /\ \/ rpc'[q] \notin Holding /\ rrow'[q] = NoUser
       \/ /\ rrow'[q] = rrow[q] /\ rname'[q] = rname[q] /\ rat'[q] = rat[q]
          /\ rpc'[q] \in Holding <=> rpc[q] \in Holding
       \/ rpc'[q] \in Holding /\ Loaded(q) /\ UNCHANGED tableVars
    /\ rpc'[q] \in Holding \cup {"check"} => ~Empty

TokenStep ==
  \A t \in tokens' \ tokens :
    \E q \in Requests : rpc[q] \in Holding /\ t.sub = rname[q] /\ t.ver = rrow[q].ver /\ t.at = rat[q]

StepOK == TableStep /\ RowStep /\ TokenStep /\ LimitOK' /\ RequestOK' /\ tokens' \subseteq Token

\* A step of that shape keeps the invariant.
LEMMA StepKeeps == ASSUME IInv, StepOK PROVE IInv'
<1>0. /\ TableOK /\ LimitOK /\ RequestOK /\ tokens \subseteq Token
      /\ Versions /\ RowsHeld /\ TokensSound /\ AdminRemains
      /\ TableStep /\ RowStep /\ TokenStep /\ LimitOK' /\ RequestOK' /\ tokens' \subseteq Token
  BY DEF IInv, TypeOK, TableOK, LimitOK, RequestOK, StepOK
<1>1. TableOK' /\ Versions'
  <2>1. CASE UNCHANGED tableVars
    BY <1>0, <2>1 DEF TableOK, Versions, tableVars, Exists
  <2>2. ASSUME NEW n \in Names, NEW u \in User \cup {NoUser}, Legal(n, u) PROVE TableOK' /\ Versions'
    <3>1. /\ user' = [user EXCEPT ![n] = u] /\ clk' = clk + 1
          /\ changed' = [changed EXCEPT ![n] = clk + 1]
      BY <2>2 DEF Legal, Write
    <3>2. TableOK'
      BY <1>0, <3>1 DEF TableOK
    <3>3. u # NoUser => u.ver <= clk + 1
      BY <1>0, <2>2 DEF Legal, Versions, TableOK, Exists, User
    <3>4. ASSUME NEW k \in Names, user'[k] # NoUser PROVE user'[k].ver <= clk'
      <4>1. CASE k = n BY <4>1, <3>1, <3>3, <3>4, <1>0 DEF TableOK
      <4>2. CASE k # n BY <4>2, <3>1, <3>4, <1>0 DEF TableOK, Versions, Exists, User
      <4>3. QED BY <4>1, <4>2
    <3>5. QED BY <3>2, <3>4 DEF Versions, Exists
  <2>3. QED BY <1>0, <2>1, <2>2 DEF TableStep
<1>2. ASSUME NEW n \in Names, NEW v \in Nat, NEW a \in Nat, Sound(user, clk, changed, n, v, a)
      PROVE Sound(user', clk', changed', n, v, a)
  <2>1. CASE UNCHANGED tableVars
    BY <1>2, <2>1 DEF Sound, tableVars
  <2>2. ASSUME NEW k \in Names, NEW u \in User \cup {NoUser}, Legal(k, u)
        PROVE Sound(user', clk', changed', n, v, a)
    <3>1. /\ user' = [user EXCEPT ![k] = u] /\ clk' = clk + 1
          /\ changed' = [changed EXCEPT ![k] = clk + 1]
          /\ u # NoUser => u.ver = IF Exists(k) THEN user[k].ver + 1 ELSE clk + 1
      BY <2>2 DEF Legal, Write
    <3>2. CASE k = n
      <4>1. u # NoUser => v < u.ver
        BY <1>0, <1>2, <3>1, <3>2 DEF Sound, TableOK, Exists, User
      <4>2. user'[n] = u
        BY <1>0, <3>1, <3>2 DEF TableOK
      <4>3. u # NoUser => u.ver \in Nat
        BY DEF User
      <4>4. QED BY <1>0, <1>2, <3>1, <4>1, <4>2, <4>3 DEF Sound, TableOK
    <3>3. CASE k # n
      BY <1>0, <1>2, <3>1, <3>3 DEF Sound, TableOK
    <3>4. QED BY <3>2, <3>3
  <2>3. QED BY <1>0, <2>1, <2>2 DEF TableStep
<1>3. ~Empty => ~Empty'
  BY <1>0 DEF TableStep, Legal, Empty, Exists, tableVars
<1>4. AdminRemains'
  BY <1>0 DEF TableStep, Legal, AdminRemains, Empty, EnabledAdmins, Enabled, Exists, tableVars
<1>5. ASSUME NEW q \in Requests PROVE
        /\ rpc'[q] \in Holding <=> rrow'[q] # NoUser
        /\ rpc'[q] \in Holding => rname'[q] \in Names /\ Sound(user', clk', changed', rname'[q], rrow'[q].ver, rat'[q])
        /\ rpc'[q] \in Holding \cup {"check"} => ~Empty'
  <2>1. rpc'[q] \in Holding \cup {"check"} => ~Empty'
    BY <1>0, <1>3 DEF RowStep
  <2>2. CASE rpc'[q] \notin Holding /\ rrow'[q] = NoUser
    BY <2>1, <2>2
  <2>3. CASE /\ rrow'[q] = rrow[q] /\ rname'[q] = rname[q] /\ rat'[q] = rat[q]
             /\ rpc'[q] \in Holding <=> rpc[q] \in Holding
    <3>1. rpc[q] \in Holding => rrow[q].ver \in Nat /\ rat[q] \in Nat
      BY <1>0 DEF RowsHeld, RequestOK, User
    <3>2. QED BY <1>0, <1>2, <2>1, <2>3, <3>1 DEF RowsHeld
  <2>4. CASE rpc'[q] \in Holding /\ Loaded(q) /\ UNCHANGED tableVars
    <3>1. PICK n \in Names : n = rname'[q] /\ user[n] # NoUser /\ rrow'[q] = user[n] /\ rat'[q] = changed[n]
      BY <2>4 DEF Loaded
    <3>2. user[n].ver <= clk /\ user[n].ver \in Nat
      BY <1>0, <3>1 DEF Versions, Exists, TableOK, User
    <3>3. Sound(user', clk', changed', rname'[q], rrow'[q].ver, rat'[q])
      BY <2>4, <3>1, <3>2 DEF Sound, tableVars
    <3>4. QED BY <2>1, <2>4, <3>1, <3>3
  <2>5. QED BY <1>0, <2>2, <2>3, <2>4 DEF RowStep
<1>6. ASSUME NEW t \in tokens' PROVE Sound(user', clk', changed', t.sub, t.ver, t.at)
  <2>1. t \in Token /\ t.sub \in Names /\ t.ver \in Nat /\ t.at \in Nat
    BY <1>0 DEF Token
  <2>2. Sound(user, clk, changed, t.sub, t.ver, t.at)
    <3>1. CASE t \in tokens BY <1>0, <3>1 DEF TokensSound
    <3>2. CASE t \notin tokens BY <1>0, <3>2 DEF TokenStep, RowsHeld
    <3>3. QED BY <3>1, <3>2
  <2>3. QED BY <1>2, <2>1, <2>2
<1>7. TypeOK'
  BY <1>0, <1>1 DEF TypeOK, TableOK, LimitOK, RequestOK
<1>8. RowsHeld' BY <1>5 DEF RowsHeld
<1>9. TokensSound' BY <1>6 DEF TokensSound
<1>10. QED BY <1>1, <1>4, <1>7, <1>8, <1>9 DEF IInv
-----------------------------------------------------------------------------
(* The store's writes are legal. *)

\* A write that leaves another enabled administrator, or makes one.
LEMMA WriteLegal ==
  ASSUME TableOK, NEW n \in Names, NEW u \in User \cup {NoUser}, Write(n, u),
         u # NoUser => u.ver = IF Exists(n) THEN user[n].ver + 1 ELSE clk + 1,
         \/ \E m \in Names \ {n} : Enabled(m) /\ user[m].role = "admin"
         \/ u # NoUser /\ ~u.off /\ u.role = "admin"
  PROVE  TableStep
<1>1. user' = [user EXCEPT ![n] = u]
  BY DEF Write
<1>2. \E m \in Names : user'[m] # NoUser /\ ~user'[m].off /\ user'[m].role = "admin"
  BY <1>1 DEF TableOK, Enabled, Exists
<1>3. QED BY <1>2 DEF Legal, TableStep

\* A row with another version differs in nothing else.
LEMMA VersionField ==
  ASSUME NEW k \in Nat
  PROVE  \A x \in User :
           /\ [x EXCEPT !.ver = k] \in User /\ [x EXCEPT !.ver = k].ver = k
           /\ [x EXCEPT !.ver = k].role = x.role /\ [x EXCEPT !.ver = k].off = x.off
BY SMT DEF User

\* A demotion, checked by guardLastAdmin.
LEMMA SetRoleLegal ==
  ASSUME TableOK, AdminRemains, NEW n \in Names, NEW r \in Roles, SetRole(n, r) PROVE TableStep
<1> DEFINE u == [user[n] EXCEPT !.role = r, !.ver = @ + 1]
<1>1. user[n] \in User /\ Exists(n)
  BY DEF SetRole, Exists, TableOK
<1>2. u \in User /\ u.ver = user[n].ver + 1 /\ u.role = r /\ u.off = user[n].off
  <2> DEFINE x == [user[n] EXCEPT !.role = r]
  <2>1. user[n].ver + 1 \in Nat
    BY <1>1 DEF User
  <2>2. x \in User /\ x.role = r /\ x.off = user[n].off
    BY <1>1 DEF User
  <2>3. QED BY <2>1, <2>2, VersionField, Zenon
<1>3. u # NoUser
  <2> HIDE DEF u
  <2>1. QED BY <1>2, AccountsAssumption DEF User
<1>4. \/ \E m \in Names \ {n} : Enabled(m) /\ user[m].role = "admin"
      \/ ~u.off /\ u.role = "admin"
  <2> HIDE DEF u
  <2>1. QED BY <1>1, <1>2 DEF SetRole, guardLastAdmin, AdminRemains, Empty, EnabledAdmins, Enabled, Roles
<1>5. Write(n, u)
  BY DEF SetRole
<1>6. QED
  <2> HIDE DEF u
  <2>1. QED BY <1>1, <1>2, <1>3, <1>4, <1>5, WriteLegal

\* Disabling, checked by guardLastAdmin.
LEMMA SetDisabledLegal ==
  ASSUME TableOK, AdminRemains, NEW n \in Names, NEW off \in BOOLEAN, SetDisabled(n, off) PROVE TableStep
<1> DEFINE u == [user[n] EXCEPT !.off = off, !.ver = @ + 1]
<1>1. user[n] \in User /\ Exists(n)
  BY DEF SetDisabled, Exists, TableOK
<1>2. u \in User /\ u.ver = user[n].ver + 1 /\ u.role = user[n].role /\ u.off = off
  <2> DEFINE x == [user[n] EXCEPT !.off = off]
  <2>1. user[n].ver + 1 \in Nat
    BY <1>1 DEF User
  <2>2. x \in User /\ x.role = user[n].role /\ x.off = off
    BY <1>1 DEF User
  <2>3. QED BY <2>1, <2>2, VersionField, Zenon
<1>3. u # NoUser
  <2> HIDE DEF u
  <2>1. QED BY <1>2, AccountsAssumption DEF User
<1>4. \/ \E m \in Names \ {n} : Enabled(m) /\ user[m].role = "admin"
      \/ ~u.off /\ u.role = "admin"
  <2> HIDE DEF u
  <2>1. QED BY <1>1, <1>2 DEF SetDisabled, guardLastAdmin, AdminRemains, Empty, EnabledAdmins, Enabled
<1>5. Write(n, u)
  BY DEF SetDisabled
<1>6. QED
  <2> HIDE DEF u
  <2>1. QED BY <1>1, <1>2, <1>3, <1>4, <1>5, WriteLegal

\* A new password leaves role and status alone.
LEMMA SetPasswordLegal ==
  ASSUME TableOK, AdminRemains, NEW n \in Names, NEW p \in Passwords, NEW must \in BOOLEAN,
         SetPassword(n, p, must)
  PROVE  TableStep
<1> DEFINE u == [user[n] EXCEPT !.pw = p, !.must = must, !.ver = @ + 1]
<1>1. user[n] \in User /\ Exists(n)
  BY DEF SetPassword, Exists, TableOK
<1>2. u \in User /\ u.ver = user[n].ver + 1 /\ u.role = user[n].role /\ u.off = user[n].off
  <2> DEFINE x == [user[n] EXCEPT !.pw = p]
             y == [x EXCEPT !.must = must]
  <2>1. user[n].ver + 1 \in Nat
    BY <1>1 DEF User
  <2>2. x \in User /\ x.role = user[n].role /\ x.off = user[n].off
    BY <1>1 DEF User
  <2>3. \A w \in User : /\ [w EXCEPT !.must = must] \in User
                        /\ [w EXCEPT !.must = must].role = w.role
                        /\ [w EXCEPT !.must = must].off = w.off
    BY SMT DEF User
  <2>4. y \in User /\ y.role = user[n].role /\ y.off = user[n].off
    BY <2>2, <2>3, Zenon
  <2>5. QED BY <2>1, <2>4, VersionField, Zenon
<1>3. u # NoUser
  <2> HIDE DEF u
  <2>1. QED BY <1>2, AccountsAssumption DEF User
<1>4. \/ \E m \in Names \ {n} : Enabled(m) /\ user[m].role = "admin"
      \/ ~u.off /\ u.role = "admin"
  <2> HIDE DEF u
  <2>1. QED BY <1>1, <1>2 DEF AdminRemains, Empty, EnabledAdmins, Enabled
<1>5. Write(n, u)
  BY DEF SetPassword
<1>6. QED
  <2> HIDE DEF u
  <2>1. QED BY <1>1, <1>2, <1>3, <1>4, <1>5, WriteLegal

\* A deletion, checked by guardLastAdmin.
LEMMA DeleteLegal ==
  ASSUME TableOK, AdminRemains, NEW n \in Names, Delete(n) PROVE TableStep
<1>1. \E m \in Names \ {n} : Enabled(m) /\ user[m].role = "admin"
  BY DEF Delete, guardLastAdmin, AdminRemains, Empty, EnabledAdmins
<1>2. QED BY <1>1, WriteLegal DEF Delete

\* A new user is legal beside others, and so is a first one who is an
\* administrator.
LEMMA InsertLegal ==
  ASSUME TableOK, AdminRemains, NEW n \in Names, NEW p \in Passwords, NEW r \in Roles,
         ~Exists(n), Insert(n, p, r), ~Empty \/ r = "admin"
  PROVE  TableStep
<1> DEFINE u == [pw |-> p, role |-> r, off |-> FALSE, must |-> TRUE, ver |-> clk + 1]
<1>1. u \in User /\ u.ver = clk + 1 /\ u.role = r /\ u.off = FALSE
  BY DEF User, TableOK
<1>2. u # NoUser
  BY <1>1, AccountsAssumption DEF User
<1>3. \/ \E m \in Names \ {n} : Enabled(m) /\ user[m].role = "admin"
      \/ ~u.off /\ u.role = "admin"
  BY <1>1 DEF AdminRemains, EnabledAdmins, Enabled
<1>4. QED BY <1>1, <1>2, <1>3, WriteLegal DEF Insert

\* The recovery command makes an enabled administrator.
LEMMA ResetAdminLegal ==
  ASSUME TableOK, AdminRemains, NEW p \in Passwords, ResetAdmin(p) PROVE TableStep
<1> DEFINE u == [pw |-> p, role |-> "admin", off |-> FALSE, must |-> TRUE, ver |-> user[Admin].ver + 1]
<1>0. Admin \in Names
  BY AccountsAssumption
<1>1. CASE Exists(Admin) /\ Write(Admin, u)
  <2>1. user[Admin] \in User
    BY <1>0, <1>1 DEF Exists, TableOK
  <2>2. u \in User /\ u.ver = user[Admin].ver + 1 /\ u.role = "admin" /\ u.off = FALSE
    BY <2>1 DEF User, Roles
  <2>3. u # NoUser
    BY <2>2, AccountsAssumption DEF User
  <2>4. QED BY <1>0, <1>1, <2>2, <2>3, WriteLegal
<1>2. CASE ~Exists(Admin) /\ Insert(Admin, p, "admin")
  BY <1>0, <1>2, InsertLegal DEF Roles
<1>3. QED BY <1>1, <1>2 DEF ResetAdmin
-----------------------------------------------------------------------------
(* The limiter's counts stay in range. *)

\* An attempt is counted only below the limits.
LEMMA AllowKeeps ==
  ASSUME LimitOK, NEW n, NEW i \in IPs, Allow(n, i) PROVE LimitOK'
<1>1. addr' \in [IPs -> 0 .. IPLimit]
  BY AccountsAssumption DEF LimitOK, Allow, blocked
<1>2. pair' \in [Names \X IPs -> 0 .. PairLimit]
  <2>1. CASE n \in Names
    <3>1. <<n, i>> \in Names \X IPs /\ pair[<<n, i>>] \in 0 .. PairLimit /\ pair[<<n, i>>] < PairLimit
      BY <2>1, AccountsAssumption DEF LimitOK, Allow, blocked
    <3>2. pair' = [pair EXCEPT ![<<n, i>>] = pair[<<n, i>>] + 1]
      BY <2>1 DEF Allow
    <3>3. pair[<<n, i>>] + 1 \in 0 .. PairLimit
      BY <3>1, AccountsAssumption
    <3>4. QED BY <3>2, <3>3 DEF LimitOK
  <2>2. CASE n \notin Names
    BY <2>2 DEF LimitOK, Allow
  <2>3. QED BY <2>1, <2>2
<1>3. QED BY <1>1, <1>2 DEF LimitOK, Allow

\* A reservation is taken back only where there is one, whatever window it came from.
LEMMA SuccessKeeps ==
  ASSUME LimitOK, NEW n, NEW i, Success(n, i) PROVE LimitOK'
<1>1. \A k \in 0 .. IPLimit : (IF k > 0 THEN k - 1 ELSE 0) \in 0 .. IPLimit
  BY AccountsAssumption
<1>2. addr' \in [IPs -> 0 .. IPLimit]
  <2>1. CASE i \in IPs
    BY <1>1, <2>1 DEF LimitOK, Success
  <2>2. CASE i \notin IPs
    BY <2>2 DEF LimitOK, Success
  <2>3. QED BY <2>1, <2>2
<1>3. 0 \in 0 .. PairLimit
  BY AccountsAssumption
<1>4. pair' \in [Names \X IPs -> 0 .. PairLimit]
  BY <1>3 DEF LimitOK, Success
<1>5. QED BY <1>2, <1>4 DEF LimitOK, Success

\* A failure stays counted.
LEMMA FailedKeeps ==
  ASSUME LimitOK, NEW i, Failed(i) PROVE LimitOK'
<1>1. wrong' \in [IPs -> Nat]
  <2>1. CASE i \in IPs
    BY <2>1 DEF LimitOK, Failed
  <2>2. CASE i \notin IPs
    BY <2>2 DEF LimitOK, Failed
  <2>3. QED BY <2>1, <2>2
<1>2. QED BY <1>1 DEF LimitOK, Failed

\* Most steps leave the limiter alone.
LEMMA LimitsSame ==
  ASSUME LimitOK, UNCHANGED limitVars PROVE LimitOK'
BY DEF LimitOK, limitVars

-----------------------------------------------------------------------------
(* What a request does with its row. *)

\* A handler that returns drops its row.
LEMMA DoneKeeps ==
  ASSUME RequestOK, RowsHeld, NEW q \in Requests, Done(q) PROVE RequestOK' /\ RowStep
<1>1. RequestOK'
  BY DEF RequestOK, Done, At, PCs, Wish, NoWish, Roles
<1>2. RowStep
  BY DEF RequestOK, RowsHeld, Done, At, RowStep, Holding
<1>3. QED BY <1>1, <1>2

\* A row just read is the table's.
LEMMA LoadKeeps ==
  ASSUME TableOK, RequestOK, RowsHeld, NEW q \in Requests, NEW n \in Names, NEW l \in Holding,
         Exists(n), Load(q, n), At(q, l), UNCHANGED tableVars,
         rip' \in [Requests -> IPs \cup {NoIP}], rwant' \in [Requests -> Wish]
  PROVE  RequestOK' /\ RowStep
<1>1. RequestOK'
  BY DEF RequestOK, TableOK, Load, At, PCs, Holding
<1>2. RowStep
  <2>1. SUFFICES ASSUME NEW k \in Requests
                 PROVE  /\ \/ /\ rrow'[k] = rrow[k] /\ rname'[k] = rname[k] /\ rat'[k] = rat[k]
                              /\ rpc'[k] \in Holding <=> rpc[k] \in Holding
                           \/ rpc'[k] \in Holding /\ Loaded(k) /\ UNCHANGED tableVars
                        /\ rpc'[k] \in Holding \cup {"check"} => ~Empty
    BY DEF RowStep
  <2>2. CASE k = q
    <3>1. rpc'[q] = l /\ rname'[q] = n /\ rrow'[q] = user[n] /\ rat'[q] = changed[n]
      BY DEF RequestOK, Load, At
    <3>2. ~Empty /\ user[n] # NoUser
      BY DEF Empty, Exists
    <3>3. QED BY <2>2, <3>1, <3>2 DEF Loaded
  <2>3. CASE k # q
    BY <2>3 DEF RequestOK, RowsHeld, Load, At
  <2>4. QED BY <2>2, <2>3
<1>3. QED BY <1>1, <1>2

\* A handler that goes on keeps its row.
LEMMA MoveKeeps ==
  ASSUME RequestOK, RowsHeld, NEW q \in Requests, NEW l \in Holding, rpc[q] \in Holding, At(q, l),
         UNCHANGED <<rname, rip, rrow, rwant, rat>>
  PROVE  RequestOK' /\ RowStep
<1>1. RequestOK'
  BY DEF RequestOK, At, PCs, Holding
<1>2. RowStep
  BY DEF RequestOK, RowsHeld, At, RowStep
<1>3. QED BY <1>1, <1>2

-----------------------------------------------------------------------------
(* One lemma per group of actions. *)

\* Login, refresh, change of password and the middleware.
LEMMA SessionOK == ASSUME IInv, NEW q \in Requests, Session(q) PROVE StepOK
<1>0. /\ TableOK /\ LimitOK /\ RequestOK /\ tokens \subseteq Token /\ RowsHeld /\ AdminRemains
  BY DEF IInv, TypeOK, TableOK, LimitOK, RequestOK
<1>1. ASSUME NEW n \in Names \cup {Junk}, NEW i \in IPs, LoginAllow(q, n, i) PROVE StepOK
  <2>1. LimitOK'
    BY <1>0, <1>1, AllowKeeps DEF LoginAllow
  <2>2. RequestOK'
    BY <1>0, <1>1 DEF LoginAllow, RequestOK, At, PCs
  <2>3. RowStep
    <3>1. ~Empty
      BY <1>1 DEF LoginAllow, HasEnabledUsers, Enabled, Empty
    <3>2. rrow[q] = NoUser
      BY <1>0, <1>1 DEF LoginAllow, RowsHeld, Holding
    <3>3. QED BY <1>0, <1>1, <3>1, <3>2 DEF LoginAllow, RequestOK, RowStep, RowsHeld, At, Holding
  <2>4. QED BY <1>0, <1>1, <2>1, <2>2, <2>3 DEF LoginAllow, StepOK, TableStep, TokenStep
<1>2. ASSUME NEW p \in Passwords, LoginCheck(q, p) PROVE StepOK
  <2>1. CASE /\ rname[q] \in Names /\ Enabled(rname[q]) /\ Success(rname[q], rip[q])
             /\ At(q, "issue") /\ Load(q, rname[q]) /\ UNCHANGED <<rip, rwant>>
    <3>1. LimitOK' BY <1>0, <2>1, SuccessKeeps
    <3>2. RequestOK' /\ RowStep
      BY <1>0, <1>2, <2>1, LoadKeeps DEF LoginCheck, RequestOK, Enabled, Holding
    <3>3. QED BY <1>0, <1>2, <3>1, <3>2 DEF LoginCheck, StepOK, TableStep, TokenStep
  <2>2. CASE Failed(rip[q]) /\ Done(q)
    BY <1>0, <1>2, <2>2, FailedKeeps, DoneKeeps DEF LoginCheck, StepOK, TableStep, TokenStep
  <2>3. QED BY <1>2, <2>1, <2>2 DEF LoginCheck
<1>3. ASSUME NEW p \in Passwords, ChangeWrite(q, p) PROVE StepOK
  <2>0. rname[q] \in Names /\ LimitOK' /\ TokenStep /\ tokens' \subseteq Token
    BY <1>0, <1>3, LimitsSame DEF ChangeWrite, RowsHeld, Holding, TokenStep
  <2>1. CASE SetPassword(rname[q], p, FALSE) /\ At(q, "cp_read") /\ UNCHANGED <<rname, rip, rrow, rwant, rat>>
    <3>1. TableStep BY <1>0, <2>0, <2>1, SetPasswordLegal
    <3>2. RequestOK' /\ RowStep BY <1>0, <1>3, <2>1, MoveKeeps DEF ChangeWrite, Holding
    <3>3. QED BY <2>0, <3>1, <3>2 DEF StepOK
  <2>2. CASE Done(q) /\ UNCHANGED tableVars
    BY <1>0, <2>0, <2>2, DoneKeeps DEF StepOK, TableStep
  <2>3. QED BY <1>3, <2>1, <2>2 DEF ChangeWrite
<1>4. ASSUME NEW t \in tokens, refresh(q, t) PROVE StepOK
  <2>1. t.sub \in Names /\ Exists(t.sub)
    BY <1>0, <1>4 DEF refresh, userForToken, Enabled, Token
  <2>2. RequestOK' /\ RowStep
    BY <1>0, <1>4, <2>1, LoadKeeps DEF refresh, RequestOK, Holding
  <2>3. QED BY <1>0, <1>4, <2>2, LimitsSame DEF refresh, StepOK, TableStep, TokenStep
<1>5. ASSUME NEW t \in tokens, Middleware(q, t) PROVE StepOK
  <2>1. t.sub \in Names /\ Exists(t.sub)
    BY <1>0, <1>5 DEF Middleware, userForToken, Enabled, Token
  <2>2. RequestOK' /\ RowStep
    BY <1>0, <1>5, <2>1, LoadKeeps DEF Middleware, RequestOK, Holding
  <2>3. QED BY <1>0, <1>5, <2>2, LimitsSame DEF Middleware, StepOK, TableStep, TokenStep
<1>6. ASSUME NEW t \in tokens, NEW i \in IPs, ChangeStart(q, t, i) PROVE StepOK
  <2>1. t.sub \in Names /\ Exists(t.sub)
    BY <1>0, <1>6 DEF ChangeStart, userForToken, Enabled, Token
  <2>2. LimitOK'
    BY <1>0, <1>6, AllowKeeps DEF ChangeStart
  <2>3. RequestOK' /\ RowStep
    BY <1>0, <1>6, <2>1, LoadKeeps DEF ChangeStart, RequestOK, Holding
  <2>4. QED BY <1>0, <1>6, <2>2, <2>3 DEF ChangeStart, StepOK, TableStep, TokenStep
<1>7. CASE ChangeCheck(q)
  <2>0. TableStep /\ TokenStep /\ tokens' \subseteq Token
    BY <1>0, <1>7 DEF ChangeCheck, TableStep, TokenStep
  <2>1. CASE Failed(rip[q]) /\ Done(q)
    BY <1>0, <2>0, <2>1, FailedKeeps, DoneKeeps DEF StepOK
  <2>2. CASE Success(rname[q], rip[q]) /\ Done(q)
    BY <1>0, <2>0, <2>2, SuccessKeeps, DoneKeeps DEF StepOK
  <2>3. CASE Success(rname[q], rip[q]) /\ At(q, "cp_write") /\ UNCHANGED <<rname, rip, rrow, rwant, rat>>
    BY <1>0, <1>7, <2>0, <2>3, SuccessKeeps, MoveKeeps DEF ChangeCheck, StepOK, Holding
  <2>4. QED BY <1>7, <2>1, <2>2, <2>3 DEF ChangeCheck
<1>8. CASE ChangeRead(q)
  <2>0. TableStep /\ LimitOK' /\ TokenStep /\ tokens' \subseteq Token /\ rname[q] \in Names
    BY <1>0, <1>8, LimitsSame DEF ChangeRead, TableStep, TokenStep, RowsHeld, Holding
  <2>1. CASE Exists(rname[q]) /\ Load(q, rname[q]) /\ At(q, "issue") /\ UNCHANGED <<rip, rwant>>
    <3>1. RequestOK' /\ RowStep
      BY <1>0, <1>8, <2>0, <2>1, LoadKeeps DEF ChangeRead, RequestOK, Holding
    <3>2. QED BY <2>0, <3>1 DEF StepOK
  <2>2. CASE Done(q)
    BY <1>0, <2>0, <2>2, DoneKeeps DEF StepOK
  <2>3. QED BY <1>8, <2>1, <2>2 DEF ChangeRead
<1>9. CASE issueSession(q)
  <2>0. rpc[q] \in Holding /\ rname[q] \in Names /\ rrow[q] \in User /\ rat[q] \in Nat
    BY <1>0, <1>9 DEF issueSession, RowsHeld, RequestOK, Holding
  <2> DEFINE t == [sub |-> rname[q], ver |-> rrow[q].ver, at |-> rat[q]]
  <2>1. t \in Token
    BY <2>0 DEF Token, User
  <2>2. t.sub = rname[q] /\ t.ver = rrow[q].ver /\ t.at = rat[q]
    OBVIOUS
  <2>3. tokens' = tokens \cup {t}
    BY <1>9 DEF issueSession
  <2>4. TokenStep /\ tokens' \subseteq Token
    <3> HIDE DEF t
    <3>1. QED BY <1>0, <2>0, <2>1, <2>2, <2>3 DEF TokenStep
  <2>5. QED BY <1>0, <1>9, <2>4, LimitsSame, DoneKeeps DEF issueSession, StepOK, TableStep
<1>10. QED BY <1>1, <1>2, <1>3, <1>4, <1>5, <1>6, <1>7, <1>8, <1>9 DEF Session

\* The console's user pages and the event stream.
LEMMA ConsoleOK == ASSUME IInv, NEW q \in Requests, Console(q) PROVE StepOK
<1>0. /\ TableOK /\ LimitOK /\ RequestOK /\ tokens \subseteq Token /\ RowsHeld /\ AdminRemains
  BY DEF IInv, TypeOK, TableOK, LimitOK, RequestOK
\* A handler that writes at most once and returns.
<1>1. ASSUME TableStep, Done(q), UNCHANGED <<limitVars, tokens>> PROVE StepOK
  BY <1>0, <1>1, DoneKeeps, LimitsSame DEF StepOK, TokenStep
<1>2. ASSUME NEW n \in Names, NEW p \in Passwords, resetUserPassword(q, n, p) PROVE StepOK
  <2>1. TableStep
    BY <1>0, <1>2, SetPasswordLegal DEF resetUserPassword, TableStep
  <2>2. QED BY <1>1, <1>2, <2>1 DEF resetUserPassword
<1>3. ASSUME NEW n \in Names, NEW p \in Passwords, NEW r \in Roles, createUser(q, n, p, r) PROVE StepOK
  <2>1. ~Empty
    BY <1>0, <1>3 DEF createUser, requireAdmin, RowsHeld, Holding
  <2>2. TableStep
    BY <1>0, <1>3, <2>1, InsertLegal DEF createUser, TableStep
  <2>3. QED BY <1>1, <1>3, <2>2 DEF createUser
<1>4. ASSUME NEW n \in Names, deleteUser(q, n) PROVE StepOK
  <2>1. TableStep
    BY <1>0, <1>4, DeleteLegal DEF deleteUser, TableStep
  <2>2. QED BY <1>1, <1>4, <2>1 DEF deleteUser
<1>5. ASSUME NEW n \in Names, NEW w \in Wish, PatchRead(q, n, w) PROVE StepOK
  <2>1. rip' \in [Requests -> IPs \cup {NoIP}] /\ rwant' \in [Requests -> Wish]
    BY <1>0, <1>5 DEF PatchRead, RequestOK
  <2>2. PICK l \in Holding : At(q, l)
    BY <1>5 DEF PatchRead, Holding
  <2>3. Exists(n) /\ Load(q, n) /\ UNCHANGED tableVars /\ UNCHANGED limitVars /\ UNCHANGED tokens
    BY <1>5 DEF PatchRead
  <2>4. RequestOK' /\ RowStep
    BY <1>0, <2>1, <2>2, <2>3, LoadKeeps
  <2>5. QED BY <1>0, <2>3, <2>4, LimitsSame DEF StepOK, TableStep, TokenStep
<1>6. CASE PatchRole(q)
  <2>1. rpc[q] \in Holding /\ rname[q] \in Names /\ rwant[q].role \in Roles
    BY <1>0, <1>6 DEF PatchRole, RowsHeld, Holding, RequestOK, Wish
  <2>2. TableStep
    BY <1>0, <1>6, <2>1, SetRoleLegal DEF PatchRole, TableStep
  <2>3. CASE At(q, "patch_off") /\ UNCHANGED <<rname, rip, rrow, rwant, rat>>
    <3>1. RequestOK' /\ RowStep
      BY <1>0, <2>1, <2>3, MoveKeeps DEF Holding
    <3>2. QED BY <1>0, <1>6, <2>2, <3>1, LimitsSame DEF PatchRole, StepOK, TokenStep
  <2>4. CASE Done(q)
    BY <1>1, <1>6, <2>2, <2>4 DEF PatchRole
  <2>5. QED BY <1>6, <2>3, <2>4 DEF PatchRole
<1>7. CASE PatchOff(q)
  <2>1. rname[q] \in Names /\ rwant[q].off \in BOOLEAN
    BY <1>0, <1>7 DEF PatchOff, RowsHeld, Holding, RequestOK, Wish
  <2>2. TableStep
    BY <1>0, <1>7, <2>1, SetDisabledLegal DEF PatchOff, TableStep
  <2>3. QED BY <1>1, <1>7, <2>2 DEF PatchOff
<1>8. CASE StreamOpen(q)
  <2>1. RequestOK' /\ RowStep
    BY <1>0, <1>8, MoveKeeps DEF StreamOpen, Holding
  <2>2. QED BY <1>0, <1>8, <2>1, LimitsSame DEF StreamOpen, StepOK, TableStep, TokenStep
<1>9. CASE Heartbeat(q) \/ StreamClose(q)
  BY <1>1, <1>9 DEF Heartbeat, StreamClose, TableStep
<1>10. QED BY <1>2, <1>3, <1>4, <1>5, <1>6, <1>7, <1>8, <1>9 DEF Console

\* Processes that start.
LEMMA BootOK == ASSUME IInv, NEW q \in Requests, Boot(q) PROVE StepOK
<1>0. /\ TableOK /\ LimitOK /\ RequestOK /\ tokens \subseteq Token /\ RowsHeld /\ AdminRemains
  BY DEF IInv, TypeOK, TableOK, LimitOK, RequestOK
<1>1. CASE BootCount(q)
  <2>1. RequestOK'
    BY <1>0, <1>1 DEF BootCount, RequestOK, At, PCs
  <2>2. RowStep
    BY <1>0, <1>1 DEF BootCount, RequestOK, RowsHeld, RowStep, At, Holding
  <2>3. QED BY <1>0, <1>1, <2>1, <2>2, LimitsSame DEF BootCount, StepOK, TableStep, TokenStep
<1>2. ASSUME NEW p \in Passwords, BootInsert(q, p) PROVE StepOK
  <2>1. ASSUME Empty, Insert(Admin, p, "admin") PROVE TableStep
    BY <1>0, <2>1, InsertLegal, AccountsAssumption DEF Empty, Roles
  <2>2. TableStep
    BY <1>2, <2>1 DEF BootInsert, TableStep
  <2>3. QED BY <1>0, <1>2, <2>2, DoneKeeps, LimitsSame DEF BootInsert, StepOK, TokenStep
<1>3. QED BY <1>1, <1>2 DEF Boot

\* The recovery command and the limiter's clock.
LEMMA OtherOK ==
  ASSUME IInv, (\E p \in Passwords : ResetAdmin(p)) \/ WindowEnds \/ UNCHANGED vars
  PROVE  StepOK
<1>0. /\ TableOK /\ LimitOK /\ RequestOK /\ tokens \subseteq Token /\ RowsHeld /\ AdminRemains
  BY DEF IInv, TypeOK, TableOK, LimitOK, RequestOK
<1>1. ASSUME UNCHANGED requestVars PROVE RequestOK' /\ RowStep
  BY <1>0, <1>1 DEF RequestOK, RowsHeld, RowStep, requestVars
<1>2. ASSUME NEW p \in Passwords, ResetAdmin(p) PROVE StepOK
  BY <1>0, <1>1, <1>2, ResetAdminLegal, LimitsSame DEF ResetAdmin, StepOK, TokenStep
<1>3. CASE WindowEnds
  <2>1. 0 \in 0 .. PairLimit /\ 0 \in 0 .. IPLimit /\ 0 \in Nat
    BY AccountsAssumption
  <2>2. LimitOK'
    BY <1>0, <1>3, <2>1 DEF WindowEnds, LimitOK
  <2>3. QED BY <1>0, <1>1, <1>3, <2>2 DEF WindowEnds, StepOK, TableStep, TokenStep
<1>4. CASE UNCHANGED vars
  BY <1>0, <1>1, <1>4, LimitsSame DEF vars, StepOK, TableStep, TokenStep
<1>5. QED BY <1>2, <1>3, <1>4
-----------------------------------------------------------------------------
(* The theorems *)

\* The invariant holds at the start,
LEMMA InvInit == Init => IInv
<1> SUFFICES ASSUME Init PROVE IInv
  OBVIOUS
<1>1. TypeOK
  BY AccountsAssumption DEF Init, Start, TypeOK, PCs, Wish, NoWish, Roles
<1>2. Versions /\ TokensSound /\ AdminRemains
  BY DEF Init, Start, Versions, TokensSound, AdminRemains, Empty, Exists
<1>3. RowsHeld
  BY DEF Init, Start, RowsHeld, Holding
<1>4. QED BY <1>1, <1>2, <1>3 DEF IInv

\* every step keeps it,
LEMMA InvNext == IInv /\ [Next]_vars => IInv'
<1> SUFFICES ASSUME IInv, [Next]_vars PROVE IInv'
  OBVIOUS
<1>1. StepOK
  BY SessionOK, ConsoleOK, BootOK, OtherOK DEF Next
<1>2. QED BY <1>1, StepKeeps

\* and so it always holds.
LEMMA InvHolds == Spec => []IInv
BY InvInit, InvNext, PTL DEF Spec

\* Every variable keeps its type; in particular no limiter count leaves its
\* range, however late a Success arrives.
THEOREM AccountsTyped == Spec => []TypeOK
<1>1. IInv => TypeOK
  BY DEF IInv
<1>2. QED BY <1>1, InvHolds, PTL

\* However the console's requests, starting processes and the recovery command
\* interleave, a table with users has an enabled administrator.
THEOREM AdminAlwaysRemains == Spec => []AdminRemains
<1>1. IInv => AdminRemains
  BY DEF IInv
<1>2. QED BY <1>1, InvHolds, PTL

\* No token outlives a change of its user's rights, a deletion and a new user of
\* the same name included.
THEOREM TokensDie == Spec => []NoRevivedToken
<1>1. IInv => NoRevivedToken
  BY DEF IInv, NoRevivedToken, TokensSound, Sound, userForToken, Enabled, Exists
<1>2. QED BY <1>1, InvHolds, PTL

\* A stream opened before such a change is never found valid again.
THEOREM StreamsEnd == Spec => []StreamRevoked
<1>1. IInv => StreamRevoked
  BY DEF IInv, StreamRevoked, RowsHeld, Sound, Recheck, Enabled, Exists, Holding
<1>2. QED BY <1>1, InvHolds, PTL
-----------------------------------------------------------------------------
(* The limiter charges an address for what it did.  Nothing bounds the       *)
(* number of goroutines; that those being checked are finitely many at any   *)
(* moment is part of the invariant.                                          *)

Checking == {"check", "cp_check"}

EarnedInv ==
  \A i \in IPs : IsFiniteSet(Pending(i)) /\ addr[i] <= wrong[i] + Cardinality(Pending(i))

\* Request q enters a check from address i, leaves one, or does neither.
Enters(q, i) ==
  /\ rpc[q] \notin Checking /\ rpc'[q] \in Checking /\ rip'[q] = i
  /\ \A p \in Requests \ {q} : rpc'[p] = rpc[p] /\ rip'[p] = rip[p]

Leaves(q) ==
  /\ rpc[q] \in Checking /\ rpc'[q] \notin Checking
  /\ \A p \in Requests \ {q} : rpc'[p] = rpc[p] /\ rip'[p] = rip[p]

Apart(q) ==
  /\ rpc[q] \notin Checking /\ rpc'[q] \notin Checking
  /\ \A p \in Requests \ {q} : rpc'[p] = rpc[p] /\ rip'[p] = rip[p]

LEMMA EarnedSame ==
  ASSUME EarnedInv, LimitOK, LimitOK', \A i \in IPs : Pending(i)' = Pending(i),
         \A i \in IPs : (addr'[i] = addr[i] /\ wrong'[i] = wrong[i]) \/ addr'[i] = 0
  PROVE  EarnedInv'
<1> SUFFICES ASSUME NEW i \in IPs
             PROVE  IsFiniteSet(Pending(i)') /\ addr'[i] <= wrong'[i] + Cardinality(Pending(i)')
  BY DEF EarnedInv
<1>1. IsFiniteSet(Pending(i)) /\ Pending(i)' = Pending(i) /\ addr[i] <= wrong[i] + Cardinality(Pending(i))
  BY DEF EarnedInv
<1>2. PICK k \in Nat : k = Cardinality(Pending(i))
  BY <1>1, FS_CardinalityType
<1>3. wrong'[i] \in Nat
  BY DEF LimitOK
<1>4. addr'[i] <= wrong'[i] + k
  BY <1>1, <1>2, <1>3
<1> QED
  BY <1>1, <1>2, <1>4

LEMMA EarnedApart ==
  ASSUME EarnedInv, LimitOK, NEW q \in Requests, Apart(q), UNCHANGED <<addr, wrong>>
  PROVE  EarnedInv'
<1>1. \A i \in IPs : Pending(i)' = Pending(i)
  BY DEF Pending, Apart, Checking
<1> QED
  BY <1>1 DEF EarnedInv

\* The reservation is charged before the check.
LEMMA EarnedEnter ==
  ASSUME EarnedInv, LimitOK, NEW q \in Requests, NEW n, NEW i \in IPs, Enters(q, i), Allow(n, i)
  PROVE  EarnedInv'
<1> SUFFICES ASSUME NEW j \in IPs
             PROVE  IsFiniteSet(Pending(j)') /\ addr'[j] <= wrong'[j] + Cardinality(Pending(j)')
  BY DEF EarnedInv
<1>1. IsFiniteSet(Pending(j)) /\ addr[j] <= wrong[j] + Cardinality(Pending(j))
  BY DEF EarnedInv
<1>2. addr' = [addr EXCEPT ![i] = @ + 1] /\ wrong' = wrong
  BY DEF Allow
<1>3. CASE j = i
  <2>1. Pending(j)' = Pending(j) \cup {q} /\ q \notin Pending(j)
    BY <1>3 DEF Pending, Enters, Checking
  <2>2. IsFiniteSet(Pending(j)') /\ Cardinality(Pending(j)') = Cardinality(Pending(j)) + 1
    BY <1>1, <2>1, FS_AddElement
  <2>3. PICK k \in Nat : k = Cardinality(Pending(j))
    BY <1>1, FS_CardinalityType
  <2>4. addr[j] \in Nat /\ wrong[j] \in Nat /\ addr'[j] = addr[j] + 1 /\ wrong'[j] = wrong[j]
    BY <1>2, <1>3 DEF LimitOK
  <2>5. addr'[j] <= wrong'[j] + (k + 1)
    BY <1>1, <2>3, <2>4
  <2> QED
    BY <2>2, <2>3, <2>5
<1>4. CASE j # i
  <2>1. Pending(j)' = Pending(j)
    BY <1>4 DEF Pending, Enters, Checking
  <2>2. addr'[j] = addr[j] /\ wrong'[j] = wrong[j]
    BY <1>2, <1>4 DEF LimitOK
  <2> QED
    BY <1>1, <2>1, <2>2
<1> QED
  BY <1>3, <1>4

\* After it the attempt is either a wrong one or taken back.
LEMMA EarnedLeave ==
  ASSUME EarnedInv, LimitOK, NEW q \in Requests, Leaves(q), Failed(rip[q]) \/ \E n : Success(n, rip[q])
  PROVE  EarnedInv'
<1> SUFFICES ASSUME NEW j \in IPs
             PROVE  IsFiniteSet(Pending(j)') /\ addr'[j] <= wrong'[j] + Cardinality(Pending(j)')
  BY DEF EarnedInv
<1>1. IsFiniteSet(Pending(j)) /\ addr[j] <= wrong[j] + Cardinality(Pending(j))
  BY DEF EarnedInv
<1>2. addr[j] \in Nat /\ wrong[j] \in Nat
  BY DEF LimitOK
<1>3. CASE j = rip[q]
  <2>1. Pending(j)' = Pending(j) \ {q} /\ q \in Pending(j)
    BY <1>3 DEF Pending, Leaves, Checking
  <2>2. IsFiniteSet(Pending(j)') /\ Cardinality(Pending(j)') = Cardinality(Pending(j)) - 1
    BY <1>1, <2>1, FS_RemoveElement
  <2>3. PICK k \in Nat : k = Cardinality(Pending(j)')
    BY <2>2, FS_CardinalityType
  <2>4. PICK m \in Nat : m = Cardinality(Pending(j))
    BY <1>1, FS_CardinalityType
  <2>5. k = m - 1 /\ addr[j] <= wrong[j] + m
    BY <1>1, <2>2, <2>3, <2>4
  <2>6. CASE Failed(rip[q])
    <3>1. addr'[j] = addr[j] /\ wrong'[j] = wrong[j] + 1
      BY <1>3, <2>6 DEF Failed, LimitOK
    <3> QED
      BY <1>2, <2>2, <2>3, <2>5, <3>1
  <2>7. CASE \E n : Success(n, rip[q])
    <3>1. addr'[j] = (IF addr[j] > 0 THEN addr[j] - 1 ELSE 0) /\ wrong'[j] = wrong[j]
      BY <1>3, <2>7 DEF Success, LimitOK
    <3>2. addr'[j] <= wrong'[j] + k
      BY <1>2, <2>5, <3>1
    <3> QED
      BY <2>2, <2>3, <3>2
  <2> QED
    BY <2>6, <2>7
<1>4. CASE j # rip[q]
  <2>1. Pending(j)' = Pending(j)
    BY <1>4 DEF Pending, Leaves, Checking
  <2>2. addr'[j] = addr[j] /\ wrong'[j] = wrong[j]
    BY <1>4 DEF Failed, Success, LimitOK
  <2> QED
    BY <1>1, <2>1, <2>2
<1> QED
  BY <1>3, <1>4

\* A request is at one place at a time.
LEMMA Places ==
  ASSUME RequestOK, NEW q \in Requests
  PROVE  /\ \A l : At(q, l) => rpc'[q] = l /\ \A p \in Requests \ {q} : rpc'[p] = rpc[p]
         /\ Done(q) => /\ rpc'[q] = "idle"
                       /\ \A p \in Requests \ {q} : rpc'[p] = rpc[p] /\ rip'[p] = rip[p]
BY DEF RequestOK, At, Done

LEMMA EarnedSession ==
  ASSUME EarnedInv, LimitOK, RequestOK, NEW q \in Requests, Session(q)
  PROVE  EarnedInv'
<1>1. ASSUME NEW n \in Names \cup {Junk}, NEW i \in IPs, LoginAllow(q, n, i) PROVE EarnedInv'
  <2>1. Enters(q, i)
    BY <1>1, Places DEF LoginAllow, Enters, Checking, RequestOK
  <2> QED
    BY <1>1, <2>1, EarnedEnter DEF LoginAllow
<1>2. ASSUME NEW p \in Passwords, LoginCheck(q, p) PROVE EarnedInv'
  <2>1. Leaves(q)
    BY <1>2, Places DEF LoginCheck, Leaves, Checking
  <2> QED
    BY <1>2, <2>1, EarnedLeave DEF LoginCheck
<1>3. ASSUME NEW p \in Passwords, ChangeWrite(q, p) PROVE EarnedInv'
  <2>1. Apart(q)
    BY <1>3, Places DEF ChangeWrite, Apart, Checking
  <2> QED
    BY <1>3, <2>1, EarnedApart DEF ChangeWrite, limitVars
<1>4. ASSUME NEW t \in tokens, refresh(q, t) \/ Middleware(q, t) PROVE EarnedInv'
  <2>1. Apart(q)
    BY <1>4, Places DEF refresh, Middleware, Apart, Checking
  <2> QED
    BY <1>4, <2>1, EarnedApart DEF refresh, Middleware, limitVars
<1>5. ASSUME NEW t \in tokens, NEW i \in IPs, ChangeStart(q, t, i) PROVE EarnedInv'
  <2>1. Enters(q, i)
    BY <1>5, Places DEF ChangeStart, Enters, Checking, RequestOK
  <2> QED
    BY <1>5, <2>1, EarnedEnter DEF ChangeStart
<1>6. CASE ChangeCheck(q)
  <2>1. Leaves(q)
    BY <1>6, Places DEF ChangeCheck, Leaves, Checking
  <2> QED
    BY <1>6, <2>1, EarnedLeave DEF ChangeCheck
<1>7. CASE ChangeRead(q) \/ issueSession(q)
  <2>1. Apart(q)
    BY <1>7, Places DEF ChangeRead, issueSession, Apart, Checking
  <2> QED
    BY <1>7, <2>1, EarnedApart DEF ChangeRead, issueSession, limitVars
<1> QED
  BY <1>1, <1>2, <1>3, <1>4, <1>5, <1>6, <1>7 DEF Session

LEMMA EarnedOther ==
  ASSUME EarnedInv, LimitOK, RequestOK, NEW q \in Requests, Console(q) \/ Boot(q)
  PROVE  EarnedInv'
<1>1. UNCHANGED <<addr, wrong>>
  BY DEF Console, Boot, resetUserPassword, createUser, deleteUser, PatchRead, PatchRole, PatchOff,
         StreamOpen, Heartbeat, StreamClose, BootCount, BootInsert, limitVars
<1>2. rpc[q] \notin Checking
  BY DEF Console, Boot, resetUserPassword, createUser, deleteUser, PatchRead, PatchRole, PatchOff,
         StreamOpen, Heartbeat, StreamClose, BootCount, BootInsert, requireAdmin, Checking
<1>3. Done(q) \/ \E l \in {"patch_role", "patch_off", "stream", "boot"} : At(q, l) /\ rip' = rip
  BY DEF Console, Boot, resetUserPassword, createUser, deleteUser, PatchRead, PatchRole, PatchOff,
         StreamOpen, Heartbeat, StreamClose, BootCount, BootInsert
<1>4. Apart(q)
  BY <1>2, <1>3, Places DEF Apart, Checking
<1> QED
  BY <1>1, <1>4, EarnedApart

\* No success is ever charged to an address: what blocks it are attempts that
\* failed in the current window or are being checked (LoginLimiter).
THEOREM LockoutsEarned == Spec => []LockoutEarned
<1>1. Init => EarnedInv
  <2> SUFFICES ASSUME Init, NEW i \in IPs
               PROVE  IsFiniteSet(Pending(i)) /\ addr[i] <= wrong[i] + Cardinality(Pending(i))
    BY DEF EarnedInv
  <2>1. Pending(i) = {} /\ addr[i] = 0 /\ wrong[i] = 0
    BY DEF Init, Start, Pending
  <2> QED
    BY <2>1, FS_EmptySet
<1>2. EarnedInv /\ IInv /\ IInv' /\ [Next]_vars => EarnedInv'
  <2> SUFFICES ASSUME EarnedInv, IInv, IInv', [Next]_vars PROVE EarnedInv'
    OBVIOUS
  <2>1. LimitOK /\ LimitOK' /\ RequestOK
    BY DEF IInv, TypeOK, LimitOK, RequestOK
  <2>2. CASE \E q \in Requests : Session(q) \/ Console(q) \/ Boot(q)
    BY <2>1, <2>2, EarnedSession, EarnedOther
  <2>3. CASE (\E p \in Passwords : ResetAdmin(p)) \/ WindowEnds \/ UNCHANGED vars
    <3>1. \A i \in IPs : Pending(i)' = Pending(i)
      BY <2>3 DEF Pending, ResetAdmin, WindowEnds, vars, requestVars
    <3>2. \A i \in IPs : (addr'[i] = addr[i] /\ wrong'[i] = wrong[i]) \/ addr'[i] = 0
      BY <2>1, <2>3 DEF ResetAdmin, WindowEnds, vars, limitVars, LimitOK
    <3> QED
      BY <2>1, <3>1, <3>2, EarnedSame
  <2> QED
    BY <2>2, <2>3 DEF Next
<1>3. EarnedInv => LockoutEarned
  BY DEF EarnedInv, LockoutEarned
<1> QED
  BY <1>1, <1>2, <1>3, InvHolds, PTL DEF Spec
=============================================================================
