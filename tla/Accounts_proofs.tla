--------------------------- MODULE Accounts_proofs ---------------------------
(***************************************************************************)
(* The safety of Accounts for any set of accounts, any finite set of       *)
(* threads and any limits.  Typed is inductive by itself; each of the      *)
(* three promises rests on it and on an invariant of its own.              *)
(***************************************************************************)
EXTENDS Access, FiniteSetTheorems, TLAPS

(***************************************************************************)
(* What a thread may be at.                                                *)
(***************************************************************************)
Asked == [pc : {"idle", "bump", "sign", "issue", "set", "wrong", "use", "fail", "lock", "succeed", "password",
                "guard", "write"},
          op : {"none", "logout", "otp", "reset", "login", "change", "master", "patch", "remove"},
          u : Accts, row : User \union {None}, field : {"none", "role", "active"},
          value : Roles \union BOOLEAN \union {None}, takes : BOOLEAN]

\* Which requests come to which steps.
Fits(r) ==
    /\ r.pc \in {"issue", "set", "wrong", "use"} => r.op \in Kinds
    /\ r.pc \in {"fail", "lock", "succeed"} => r.op \in Scopes
    /\ r.pc \in {"guard", "write"} => r.op \in {"patch", "remove"} /\ r.row # None
    /\ r.op = "remove" => r.takes
    /\ r.op = "patch" => /\ r.takes = Takes(r.field, r.value)
                         /\ \/ r.field = "role" /\ r.value \in Roles
                            \/ r.field = "active" /\ r.value \in BOOLEAN

Stored ==
    /\ TypeOK
    /\ cookies \subseteq [u : Accts, sv : Nat, at : Nat]
    /\ smtp \in BOOLEAN
    /\ work \in Nat
    /\ changes \in [Accts -> Nat]

Serving == th \in [Threads -> Asked] /\ \A t \in Threads : Fits(th[t])

Typed == Stored /\ Serving

LEMMA InitTyped == Init => Typed
<1> SUFFICES ASSUME Init PROVE Typed
  OBVIOUS
<1> USE AccountsAssumption DEF Init, TypeOK
<1>1. \A r \in Roles : NewUser(r, "active") \in User /\ NewUser(r, "accepted") \in User
  BY DEF NewUser, User
<1>2. users \in [Accts -> User \union {None, Gone}]
  BY <1>1 DEF Roles
<1>3. code \in [Kinds \X Accts -> Code \union {None}]
  <2>1. FreshCode \in Code
    BY DEF FreshCode, Code
  <2>. QED
    BY <2>1 DEF NoCode
<1>4. Stored
  BY <1>2, <1>3 DEF Stored, Unlocked
<1>5. Idle \in Asked /\ Fits(Idle)
  BY DEF Idle, Asked, Fits
<1>. QED
  BY <1>4, <1>5 DEF Typed, Serving

\* A request is begun or goes on, and is one that may come to that step.
LEMMA Becomes ==
  ASSUME Serving, NEW t \in Threads, NEW r \in Asked, Fits(r), th' = [th EXCEPT ![t] = r]
  PROVE  Serving'
BY DEF Serving

LEMMA Ends == ASSUME Serving, NEW t \in Threads, End(t) PROVE Serving'
<1>1. Idle \in Asked /\ Fits(Idle)
  BY AccountsAssumption DEF Idle, Asked, Fits
<1>. QED
  BY <1>1, Becomes DEF End

LEMMA Goes ==
  ASSUME Serving, NEW t \in Threads, NEW pc, Goto(t, pc),
         th[t].pc \notin {"idle", "guard", "write"},
         \/ pc = "bump"
         \/ pc = "sign"
         \/ pc = "password"
         \/ pc \in {"set", "wrong", "use"} /\ th[t].op \in Kinds
         \/ pc \in {"fail", "lock", "succeed"} /\ th[t].op \in Scopes
  PROVE  Serving'
<1> DEFINE r == [th[t] EXCEPT !.pc = pc]
<1>1. r \in Asked
  BY DEF Serving, Asked
<1>2. th[t] \in Asked /\ r.pc = pc /\ r.op = th[t].op /\ r.row = th[t].row /\ r.field = th[t].field
      /\ r.value = th[t].value /\ r.takes = th[t].takes
  BY DEF Serving, Asked
<1>3. Fits(r)
  BY <1>2 DEF Fits, Serving
<1>4. th' = [th EXCEPT ![t] = r]
  BY DEF Goto, Serving
<1>. QED
  BY <1>1, <1>3, <1>4, Becomes

LEMMA Begins ==
  ASSUME Serving, NEW t \in Threads, NEW pc, NEW op, NEW u \in Accts,
         Begin(t, Request(pc, op, u)),
         \/ pc = "bump" /\ op = "logout"
         \/ pc = "password" /\ op \in {"change", "master"}
         \/ pc \in {"issue", "wrong"} /\ op \in Kinds
         \/ pc \in {"fail", "succeed"} /\ op \in Scopes
  PROVE  Serving'
<1> DEFINE r == Request(pc, op, u)
<1>1. r \in Asked
  BY AccountsAssumption DEF Request, Idle, Asked, Kinds, Scopes
<1>2. Fits(r)
  BY DEF Request, Idle, Fits, Kinds, Scopes
<1>. QED
  BY <1>1, <1>2, Becomes DEF Begin

\* A removal or a patch begins.
LEMMA BeginsRemoval ==
  ASSUME Serving, NEW t \in Threads, NEW pc \in {"guard", "write"}, NEW u \in Accts, NEW row \in User,
         Begin(t, [Request(pc, "remove", u) EXCEPT !.row = row, !.takes = TRUE])
  PROVE  Serving'
<1> DEFINE r == [Request(pc, "remove", u) EXCEPT !.row = row, !.takes = TRUE]
<1>1. r \in Asked
  BY AccountsAssumption DEF Request, Idle, Asked
<1>2. Fits(r)
  BY AccountsAssumption DEF Request, Idle, Fits, Kinds, Scopes
<1>. QED
  BY <1>1, <1>2, Becomes DEF Begin

LEMMA BeginsPatch ==
  ASSUME Serving, NEW t \in Threads, NEW u \in Accts, NEW row \in User, NEW field, NEW value,
         (field = "role" /\ value \in Roles) \/ (field = "active" /\ value \in BOOLEAN),
         Begin(t, [Request("guard", "patch", u) EXCEPT !.row = row, !.field = field, !.value = value,
                                                       !.takes = Takes(field, value)])
  PROVE  Serving'
<1> DEFINE r == [Request("guard", "patch", u) EXCEPT !.row = row, !.field = field, !.value = value,
                                                     !.takes = Takes(field, value)]
<1>1. r \in Asked
  BY AccountsAssumption DEF Request, Idle, Asked, Takes
<1>2. Fits(r)
  BY AccountsAssumption DEF Request, Idle, Fits, Kinds, Scopes
<1>. QED
  BY <1>1, <1>2, Becomes DEF Begin

\* A patch or a removal goes on, past the guard or past the write.
LEMMA Writes ==
  ASSUME Serving, NEW t \in Threads, NEW pc, Goto(t, pc), th[t].pc \in {"guard", "write"}, pc \in {"write", "bump"}
  PROVE  Serving'
<1> DEFINE r == [th[t] EXCEPT !.pc = pc]
<1>1. r \in Asked
  BY DEF Serving, Asked
<1>2. th[t] \in Asked /\ r.pc = pc /\ r.op = th[t].op /\ r.row = th[t].row /\ r.field = th[t].field
      /\ r.value = th[t].value /\ r.takes = th[t].takes
  BY DEF Serving, Asked
<1>3. Fits(r)
  BY <1>2 DEF Fits, Serving
<1>4. th' = [th EXCEPT ![t] = r]
  BY DEF Goto, Serving
<1>. QED
  BY <1>1, <1>3, <1>4, Becomes

LEMMA BumpTyped ==
  ASSUME users \in [Accts -> User \union {None, Gone}], NEW u \in Accts
  PROVE  /\ Bumped(u) \in [Accts -> User \union {None, Gone}]
         /\ IsUser(u) => Bumped(u)[u] = [users[u] EXCEPT !.sv = @ + 1] /\ Bumped(u)[u] \in User
         /\ \A v \in Accts : v # u \/ ~IsUser(v) => Bumped(u)[v] = users[v]
<1>1. CASE IsUser(u)
  <2>1. users[u] \in User /\ [users[u] EXCEPT !.sv = @ + 1] \in User
    BY <1>1 DEF IsUser, User
  <2>2. Bumped(u) = [users EXCEPT ![u] = [users[u] EXCEPT !.sv = @ + 1]]
    BY <1>1 DEF Bumped
  <2>. QED
    BY <1>1, <2>1, <2>2
<1>2. CASE ~IsUser(u)
  BY <1>2 DEF Bumped
<1>. QED
  BY <1>1, <1>2

\* What bumping and setting a password leave alone.
LEMMA BumpKeeps ==
  ASSUME Stored, NEW u \in Accts, NEW v \in Accts, IsUser(v),
         \/ users' = Bumped(u)
         \/ users' = (IF IsUser(u) THEN [Bumped(u) EXCEPT ![u].pw = TRUE] ELSE users)
  PROVE  /\ users'[v] \in User /\ users'[v].role = users[v].role /\ users'[v].active = users[v].active
         /\ users'[v].sv = IF v = u THEN users[v].sv + 1 ELSE users[v].sv
<1>1. users[v] \in User
  BY DEF IsUser, Stored, TypeOK
<1>2. v = u => Bumped(u)[v] = [users[v] EXCEPT !.sv = @ + 1] /\ Bumped(u)[v] \in User
  BY BumpTyped DEF Stored, TypeOK
<1>3. v # u => Bumped(u)[v] = users[v]
  BY BumpTyped DEF Stored, TypeOK
<1>4. Bumped(u) \in [Accts -> User \union {None, Gone}]
  BY BumpTyped DEF Stored, TypeOK
<1>5. CASE users' = Bumped(u)
  BY <1>1, <1>2, <1>3, <1>5 DEF User
<1>6. CASE IsUser(u) /\ users' = [Bumped(u) EXCEPT ![u] = [@ EXCEPT !.pw = TRUE]]
  BY <1>1, <1>2, <1>3, <1>4, <1>6, ZenonT(60) DEF User
<1>7. CASE ~IsUser(u) /\ users' = users
  BY <1>1, <1>7
<1>. QED
  BY <1>5, <1>6, <1>7

LEMMA StepTyped == Typed /\ [Next]_vars => Typed'
<1> SUFFICES ASSUME Stored, Serving, [Next]_vars PROVE Stored' /\ Serving'
  BY DEF Typed
<1> USE AccountsAssumption DEF limits, history
<1>1. ASSUME NEW t \in Threads, Bump(t) PROVE Stored' /\ Serving'
  <2>1. th[t].u \in Accts
    BY DEF Serving, Asked
  <2>. QED
    BY <1>1, <2>1, BumpTyped, Ends DEF Bump, Stored, TypeOK
<1>2. ASSUME NEW t \in Threads, SignIn(t) PROVE Stored' /\ Serving'
  <2>1. th[t].u \in Accts
    BY DEF Serving, Asked
  <2>. QED
    BY <1>2, <2>1, Ends DEF SignIn, Sign, IsUser, User, Stored, TypeOK
<1>3. ASSUME NEW t \in Threads, TryIssue(t) PROVE Stored' /\ Serving'
  <2>1. th[t].op \in Kinds /\ th[t].pc = "issue"
    BY <1>3 DEF TryIssue, At, Serving, Fits
  <2>2. Stored'
    BY <1>3, <2>1 DEF TryIssue, Stored, TypeOK
  <2>3. Serving'
    BY <1>3, <2>1, Ends, Goes DEF TryIssue
  <2>. QED
    BY <2>2, <2>3
<1>4. ASSUME NEW t \in Threads, SetCode(t) PROVE Stored' /\ Serving'
  BY <1>4, Ends DEF SetCode, FreshCode, Code, Stored, TypeOK
<1>5. ASSUME NEW t \in Threads, WrongCode(t) PROVE Stored' /\ Serving'
  <2>1. th[t].op \in Kinds /\ th[t].pc = "wrong"
    BY <1>5 DEF WrongCode, At, Serving, Fits
  <2>2. Stored'
    <3>1. \A k \in Kinds \X Accts : code[k] # None => [code[k] EXCEPT !.tries = @ + 1] \in Code
      BY DEF Code, Stored, TypeOK
    <3>. QED
      BY <1>5, <2>1, <3>1 DEF WrongCode, Stored, TypeOK
  <2>3. Serving'
    BY <1>5, <2>1, Goes DEF WrongCode, Kinds, Scopes
  <2>. QED
    BY <2>2, <2>3
<1>6. ASSUME NEW t \in Threads, UseCode(t) PROVE Stored' /\ Serving'
  <2>1. th[t].pc = "use"
    BY <1>6 DEF UseCode, At
  <2>2. Stored'
    BY <1>6, <2>1 DEF UseCode, Stored, TypeOK
  <2>3. Serving'
    BY <1>6, <2>1, Goes DEF UseCode
  <2>. QED
    BY <2>2, <2>3
<1>7. ASSUME NEW t \in Threads, Fail(t) PROVE Stored' /\ Serving'
  <2>1. th[t].pc = "fail" /\ th[t].op \in Scopes /\ th[t].u \in Accts
    BY <1>7 DEF Fail, At, Serving, Fits, Asked
  <2>2. Stored'
    <3>1. \A k \in Scopes \X Accts : [throttle[k] EXCEPT !.count = @ + 1] \in [count : Nat, locked : BOOLEAN]
      BY DEF Stored, TypeOK
    <3>. QED
      BY <1>7, <2>1, <3>1 DEF Fail, Key, Stored, TypeOK
  <2>3. Serving'
    BY <1>7, <2>1, Goes, Ends DEF Fail
  <2>. QED
    BY <2>2, <2>3
<1>8. ASSUME NEW t \in Threads, Lock(t) PROVE Stored' /\ Serving'
  BY <1>8, Ends DEF Lock, Key, Stored, TypeOK
<1>9. ASSUME NEW t \in Threads, Succeed(t) PROVE Stored' /\ Serving'
  <2>1. th[t].pc = "succeed" /\ th[t].op \in Scopes /\ (th[t].op # "login" => th[t].op \in Kinds)
    BY <1>9 DEF Succeed, At, Serving, Fits, Scopes
  <2>2. Stored'
    BY <1>9, <2>1 DEF Succeed, Key, Unlocked, Stored, TypeOK
  <2>3. Serving'
    BY <1>9, <2>1, Goes DEF Succeed
  <2>. QED
    BY <2>2, <2>3
<1>10. ASSUME NEW t \in Threads, SetPassword(t) PROVE Stored' /\ Serving'
  <2>1. th[t].pc = "password" /\ th[t].u \in Accts
    BY <1>10 DEF SetPassword, At, Serving, Asked
  <2>2. Stored'
    <3>1. users' \in [Accts -> User \union {None, Gone}]
      <4>1. CASE IsUser(th[t].u) 
        <5>1. users' = [Bumped(th[t].u) EXCEPT ![th[t].u] = [@ EXCEPT !.pw = TRUE]]
          BY <1>10, <4>1 DEF SetPassword
        <5>2. Bumped(th[t].u)[th[t].u] \in User
          BY <4>1, <2>1, BumpTyped DEF Stored, TypeOK
        <5>. QED
          BY <5>1, <5>2, <2>1, BumpTyped DEF User, Stored, TypeOK
      <4>2. CASE ~IsUser(th[t].u)
        BY <1>10, <4>2 DEF SetPassword, Stored, TypeOK
      <4>. QED
        BY <4>1, <4>2
    <3>. QED
      BY <1>10, <3>1 DEF SetPassword, Stored, TypeOK
  <2>3. Serving'
    BY <1>10, <2>1, Goes, Ends DEF SetPassword
  <2>. QED
    BY <2>2, <2>3
<1>11. ASSUME NEW t \in Threads, GuardLast(t) PROVE Stored' /\ Serving'
  <2>1. Stored'
    BY <1>11 DEF GuardLast, Stored, TypeOK
  <2>2. ASSUME Goto(t, "write") PROVE Serving'
    BY <1>11, <2>2, Writes DEF GuardLast, At
  <2>. QED
    BY <1>11, <2>1, <2>2, Ends DEF GuardLast
<1>12. ASSUME NEW t \in Threads, WritePatch(t) PROVE Stored' /\ Serving'
  <2>1. Serving'
    BY <1>12, Ends, Writes DEF WritePatch, At
  <2>2. th[t].u \in Accts
    BY DEF Serving, Asked
  <2>. DEFINE field == th[t].field  value == th[t].value
  <2>6. (field = "role" /\ value \in Roles) \/ (field = "active" /\ value \in BOOLEAN)
    <3>1. Fits(th[t]) /\ th[t].op = "patch"
      BY <1>12 DEF WritePatch, Serving
    <3>. QED
      BY <3>1 DEF Fits
  <2>3. ASSUME IsUser(th[t].u) PROVE users' \in [Accts -> User \union {None, Gone}]
    <3>1. users[th[t].u] \in User
      BY <2>2, <2>3 DEF IsUser, Stored, TypeOK
    <3>2. [users[th[t].u] EXCEPT ![field] = value] \in User
      <4>. HIDE DEF field, value
      <4>. QED
        BY <2>6, <3>1 DEF User
    <3>. QED
      BY <1>12, <2>2, <2>3, <3>2 DEF WritePatch, Stored, TypeOK
  <2>4. changes' \in [Accts -> Nat]
    BY <1>12, <2>2 DEF WritePatch, Stored
  <2>5. Stored'
    BY <1>12, <2>3, <2>4 DEF WritePatch, Stored, TypeOK
  <2>. QED
    BY <2>1, <2>5
<1>13. ASSUME NEW t \in Threads, WriteRemove(t) PROVE Stored' /\ Serving'
  BY <1>13, Ends DEF WriteRemove, Stored, TypeOK
<1>14. ASSUME NEW t \in Threads, NEW u \in Accts,
              Logout(t, u) \/ ChangePassword(t, u) \/ MasterReset(t, u)
       PROVE Stored' /\ Serving'
  <2>1. Serving'
    BY <1>14, Begins DEF Logout, ChangePassword, MasterReset
  <2>. QED
    BY <1>14, <2>1 DEF Logout, ChangePassword, MasterReset, Begin, Stored, TypeOK
<1>15. ASSUME NEW t \in Threads, NEW u \in Accts, FirstUser(t, u) PROVE Stored' /\ Serving'
  <2>1. Serving'
    BY <1>15, Begins DEF FirstUser, Kinds
  <2>2. NewUser("admin", "active") \in User
    BY DEF NewUser, User, Roles
  <2>. QED
    BY <1>15, <2>1, <2>2 DEF FirstUser, Begin, Stored, TypeOK
<1>16. ASSUME NEW t \in Threads, NEW u \in Accts, NEW kind \in Kinds, RequestCode(t, kind, u)
       PROVE Stored' /\ Serving'
  <2>1. Serving'
    BY <1>16, Begins DEF RequestCode
  <2>. QED
    BY <1>16, <2>1 DEF RequestCode, Begin, Stored, TypeOK
<1>17. ASSUME NEW t \in Threads, NEW u \in Accts, NEW right \in BOOLEAN, LoginPassword(t, u, right)
       PROVE Stored' /\ Serving'
  <2>1. Serving'
    BY <1>17, Begins DEF LoginPassword, Scopes
  <2>. QED
    BY <1>17, <2>1 DEF LoginPassword, Begin, Stored, TypeOK
<1>18. ASSUME NEW t \in Threads, NEW kind \in Kinds, NEW u \in Accts, NEW right \in BOOLEAN,
              VerifyCode(t, kind, u, right)
       PROVE Stored' /\ Serving'
  <2>1. Serving'
    BY <1>18, Begins DEF VerifyCode, Scopes
  <2>2. code[<<kind, u>>] # None => [code[<<kind, u>>] EXCEPT !.guesses = @ + 1] \in Code
    BY SMTT(30) DEF Code, Stored, TypeOK
  <2>3. code' \in [Kinds \X Accts -> Code \union {None}]
    BY <1>18, <2>2 DEF VerifyCode, Stored, TypeOK
  <2>. QED
    BY <1>18, <2>1, <2>3 DEF VerifyCode, Begin, Stored, TypeOK
<1>19. ASSUME NEW t \in Threads, NEW a \in Accts, NEW u \in Accts, Remove(t, a, u) \/ CancelInvite(t, a, u)
       PROVE Stored' /\ Serving'
  <2>1. users[u] \in User
    BY <1>19 DEF Remove, CancelInvite, IsUser, Stored, TypeOK
  <2>2. Serving'
    BY <1>19, <2>1, BeginsRemoval DEF Remove, CancelInvite
  <2>. QED
    BY <1>19, <2>2 DEF Remove, CancelInvite, Begin, Stored, TypeOK
<1>20. ASSUME NEW t \in Threads, NEW a \in Accts, NEW u \in Accts, NEW role \in Roles, Invite(t, a, u, role)
       PROVE Stored' /\ Serving'
  <2>1. NewUser(role, "pending") \in User
    BY DEF NewUser, User, Roles
  <2>. QED
    BY <1>20, <2>1 DEF Invite, Stored, Serving, TypeOK
<1>21. ASSUME NEW t \in Threads, NEW a \in Accts, NEW u \in Accts, NEW field, NEW value,
              (field = "role" /\ value \in Roles) \/ (field = "active" /\ value \in BOOLEAN),
              Patch(t, a, u, field, value)
       PROVE Stored' /\ Serving'
  <2>1. users[u] \in User
    BY <1>21 DEF Patch, IsUser, Stored, TypeOK
  <2>2. Serving'
    BY <1>21, <2>1, BeginsPatch DEF Patch
  <2>. QED
    BY <1>21, <2>2 DEF Patch, Begin, Stored, TypeOK
<1>22. ASSUME NEW u \in Accts, Accept(u) \/ Decline(u) PROVE Stored' /\ Serving'
  <2>1. users[u] \in User /\ IsUser(u)
    BY <1>22 DEF Accept, Decline, SignedIn, Accepted, IsUser, Stored, TypeOK
  <2>2. /\ [users[u] EXCEPT !.invite = "accepted"] \in User
        /\ [users[u] EXCEPT !.invite = "declined", !.active = FALSE] \in User
    BY <2>1 DEF User
  <2>3. users' \in [Accts -> User \union {None, Gone}]
    BY <1>22, <2>2 DEF Accept, Decline, Stored, TypeOK
  <2>. QED
    BY <1>22, <2>3 DEF Accept, Decline, Stored, Serving, TypeOK
<1>23. ASSUME NEW k \in Kinds \X Accts, CodeExpires(k) \/ WindowEnds(k) PROVE Stored' /\ Serving'
  <2>1. code[k] # None => [code[k] EXCEPT !.live = FALSE] \in Code
    BY DEF Code, Stored, TypeOK
  <2>2. CASE CodeExpires(k)
    BY <2>1, <2>2 DEF CodeExpires, Stored, Serving, TypeOK
  <2>3. CASE WindowEnds(k)
    BY <2>3 DEF WindowEnds, Stored, Serving, TypeOK
  <2>. QED
    BY <1>23, <2>2, <2>3
<1>24. ASSUME NEW k \in Scopes \X Accts, LockEnds(k) PROVE Stored' /\ Serving'
  BY <1>24 DEF LockEnds, Unlocked, Stored, Serving, TypeOK
<1>25. ASSUME UNCHANGED vars PROVE Stored' /\ Serving'
  BY <1>25 DEF vars, Stored, Serving, TypeOK
<1>26. ASSUME NEW t \in Threads, Steps(t) PROVE Stored' /\ Serving'
  BY <1>26, <1>1, <1>2, <1>3, <1>4, <1>5, <1>6, <1>7, <1>8, <1>9, <1>10, <1>11, <1>12, <1>13 DEF Steps
<1>27. ASSUME NEW t \in Threads, Requests(t) PROVE Stored' /\ Serving'
  <2>1. ASSUME NEW a \in Accts, NEW u \in Accts, NEW role \in Roles, Patch(t, a, u, "role", role)
        PROVE Stored' /\ Serving'
    BY <2>1, <1>21
  <2>2. ASSUME NEW a \in Accts, NEW u \in Accts, NEW active \in BOOLEAN, Patch(t, a, u, "active", active)
        PROVE Stored' /\ Serving'
    BY <2>2, <1>21
  <2>. QED
    BY <1>27, <1>14, <1>15, <1>16, <1>17, <1>18, <1>19, <1>20, <2>1, <2>2 DEF Requests
<1>28. ASSUME Lapses PROVE Stored' /\ Serving'
  BY <1>28, <1>23, <1>24 DEF Lapses
<1>. QED
  BY <1>22, <1>25, <1>26, <1>27, <1>28 DEF Next

(* The stores and the requests keep their types.                           *)
LEMMA SpecTyped == Spec => []Typed
  BY InitTyped, StepTyped, PTL DEF Spec

\* What is stored, and what each request is at, has the shape the code gives it.
THEOREM TypeCorrect == Spec => []TypeOK
<1>1. Typed => TypeOK
  BY DEF Typed, Stored
<1>. QED
  BY <1>1, SpecTyped, PTL

-----------------------------------------------------------------------------
(* Wrong codes *)

\* The threads whose wrong answer is not counted yet.
Comparing(k) == {t \in Threads : At(t, "wrong") /\ Key(t) = k}

GuessInv ==
    \A k \in Kinds \X Accts : code[k] # None =>
        /\ code[k].guesses <= code[k].tries + Cardinality(Comparing(k))
        /\ code[k].guesses <= MaxTries + Cardinality(Threads) - 1

LEMMA ComparingFinite ==
  ASSUME NEW k
  PROVE  IsFiniteSet(Comparing(k)) /\ Cardinality(Comparing(k)) \in Nat /\ Cardinality(Threads) \in Nat
BY AccountsAssumption, FS_Subset, FS_CardinalityType DEF Comparing

LEMMA OneMore ==
  ASSUME NEW T, IsFiniteSet(T), NEW S \in SUBSET T, NEW x \in T, x \notin S
  PROVE  Cardinality(S) <= Cardinality(T) - 1 /\ Cardinality(S \union {x}) = Cardinality(S) + 1
<1>1. IsFiniteSet(S) /\ S \in SUBSET (T \ {x})
  BY FS_Subset
<1>2. IsFiniteSet(T \ {x}) /\ Cardinality(T \ {x}) = Cardinality(T) - 1
  BY FS_RemoveElement
<1>3. Cardinality(S) <= Cardinality(T \ {x})
  BY <1>1, <1>2, FS_Subset
<1>. QED
  BY <1>1, <1>2, <1>3, FS_AddElement

\* A code is replaced by none, by a fresh one, or keeps its numbers.
Settled(k) ==
    \/ code'[k] = None
    \/ code'[k].guesses = 0 /\ code'[k].tries = 0
    \/ code[k] # None /\ code'[k].guesses = code[k].guesses /\ code'[k].tries = code[k].tries

\* No thread begins or ends to compare.
Aside == \A t \in Threads : At(t, "wrong") \/ At(t, "wrong")' => th'[t] = th[t]

LEMMA BeginsAside ==
  ASSUME Serving, NEW t \in Threads, NEW pc, NEW op, NEW u, pc # "wrong", Begin(t, Request(pc, op, u))
  PROVE  Aside
BY DEF Serving, Begin, Aside, At, Idle, Request

LEMMA BeginsChangeAside ==
  ASSUME Serving, NEW t \in Threads, NEW pc, NEW op, NEW u, NEW row, NEW field, NEW value, NEW takes,
         pc # "wrong",
         \/ Begin(t, [Request(pc, op, u) EXCEPT !.row = row, !.takes = takes])
         \/ Begin(t, [Request(pc, op, u) EXCEPT !.row = row, !.field = field, !.value = value, !.takes = takes])
  PROVE  Aside
<1> DEFINE r == [Request(pc, op, u) EXCEPT !.row = row, !.takes = takes]
           q == [Request(pc, op, u) EXCEPT !.row = row, !.field = field, !.value = value, !.takes = takes]
<1>1. r.pc # "wrong" /\ q.pc # "wrong"
  BY DEF Request, Idle
<1>2. Begin(t, r) \/ Begin(t, q)
  OBVIOUS
<1>. HIDE DEF r, q
<1>. QED
  BY <1>1, <1>2 DEF Serving, Begin, Aside, At, Idle

LEMMA GuessKept ==
  ASSUME Typed, Typed', GuessInv, Aside,
         \A k \in Kinds \X Accts : Settled(k)
  PROVE  GuessInv'
<1> SUFFICES ASSUME NEW k \in Kinds \X Accts, code'[k] # None
             PROVE  /\ code'[k].guesses <= code'[k].tries + Cardinality(Comparing(k)')
                    /\ code'[k].guesses <= MaxTries + Cardinality(Threads) - 1
  BY DEF GuessInv
<1>1. Comparing(k)' = Comparing(k)
  BY DEF Comparing, At, Key, Aside
<1>2. Cardinality(Comparing(k)) \in Nat /\ Cardinality(Threads) \in Nat /\ Cardinality(Threads) >= 0
  BY ComparingFinite
<1>3. CASE code'[k].guesses = 0 /\ code'[k].tries = 0
  <2>1. Cardinality(Threads) >= 0 /\ MaxTries >= 1 /\ MaxTries \in Nat
    BY <1>2, AccountsAssumption
  <2>. QED
    BY <1>1, <1>2, <1>3, <2>1
<1>4. CASE code[k] # None /\ code'[k].guesses = code[k].guesses /\ code'[k].tries = code[k].tries
  BY <1>1, <1>4 DEF GuessInv
<1>. QED
  BY <1>3, <1>4 DEF Settled

LEMMA StepGuess == Typed /\ Typed' /\ GuessInv /\ [Next]_vars => GuessInv'
<1> SUFFICES ASSUME Typed, Typed', GuessInv, [Next]_vars PROVE GuessInv'
  OBVIOUS
<1> USE DEF limits, history, Serving, Stored, TypeOK, Typed
<1> DEFINE Kept == \A k \in Kinds \X Accts : Settled(k)
<1>1. UNCHANGED code => Kept
  BY DEF Settled
<1>2. ASSUME NEW t \in Threads, NEW kind \in Kinds, NEW u \in Accts, NEW right \in BOOLEAN,
             VerifyCode(t, kind, u, right)
      PROVE GuessInv'
  <2> DEFINE k == <<kind, u>>
  <2>1. th[t] = Idle /\ ~At(t, "wrong")
    BY <1>2 DEF VerifyCode, Begin, At, Idle
  <2>2. CASE UNCHANGED code /\ \E pc \in {"fail", "succeed"} : Begin(t, Request(pc, kind, u))
    <3>1. Aside
      BY <2>2, BeginsAside
    <3>. QED
      BY <1>1, <2>2, <3>1, GuessKept
  <2>3. CASE /\ code[k] # None /\ TriesLeft(code[k])
             /\ Begin(t, Request("wrong", kind, u))
             /\ code' = [code EXCEPT ![k].guesses = @ + 1]
    <3> SUFFICES ASSUME NEW j \in Kinds \X Accts, code'[j] # None
                 PROVE  /\ code'[j].guesses <= code'[j].tries + Cardinality(Comparing(j)')
                        /\ code'[j].guesses <= MaxTries + Cardinality(Threads) - 1
      BY DEF GuessInv
    <3>1. th' = [th EXCEPT ![t] = Request("wrong", kind, u)] /\ th'[t].pc = "wrong" /\ Key(t)' = k
      BY <2>3 DEF Begin, Request, Idle, Key
    <3>2. CASE j = k
      <4>1. Comparing(k)' = Comparing(k) \union {t}
        BY <3>1 DEF Comparing, At, Key
      <4>2. Comparing(k) \subseteq Threads \ {t} /\ t \notin Comparing(k)
        BY <2>1 DEF Comparing
      <4>3. Comparing(k) \in SUBSET Threads
        BY DEF Comparing
      <4>4. /\ Cardinality(Comparing(k)) <= Cardinality(Threads) - 1
            /\ Cardinality(Comparing(k)') = Cardinality(Comparing(k)) + 1
        <5>. HIDE DEF k
        <5>1. IsFiniteSet(Threads)
          BY AccountsAssumption
        <5>. QED
          BY ONLY <4>1, <4>2, <4>3, <5>1, t \in Threads, OneMore
      <4>5. code[k] \in Code /\ code'[k].guesses = code[k].guesses + 1 /\ code'[k].tries = code[k].tries
        BY <2>3 DEF Code
      <4>6. code[k].guesses <= code[k].tries + Cardinality(Comparing(k)) /\ code[k].tries < MaxTries
        BY <2>3 DEF GuessInv, TriesLeft
      <4>7. code[k].guesses \in Nat /\ code[k].tries \in Nat /\ MaxTries \in Nat
        BY <4>5, AccountsAssumption DEF Code
      <4>. QED
        BY <3>2, <4>4, <4>5, <4>6, <4>7, ComparingFinite
    <3>3. CASE j # k
      <4>1. Comparing(j)' = Comparing(j)
        BY <2>1, <3>1, <3>3 DEF Comparing, At, Key
      <4>2. code'[j] = code[j]
        BY <2>3, <3>3
      <4>. QED
        BY <4>1, <4>2 DEF GuessInv
    <3>. QED
      BY <3>2, <3>3
  <2>. QED
    BY <1>2, <2>2, <2>3 DEF VerifyCode
<1>3. ASSUME NEW t \in Threads, WrongCode(t) PROVE GuessInv'
  <2> SUFFICES ASSUME NEW j \in Kinds \X Accts, code'[j] # None
               PROVE  /\ code'[j].guesses <= code'[j].tries + Cardinality(Comparing(j)')
                      /\ code'[j].guesses <= MaxTries + Cardinality(Threads) - 1
    BY DEF GuessInv
  <2>1. At(t, "wrong") /\ th'[t].pc = "fail" /\ \A s \in Threads \ {t} : th'[s] = th[s]
    BY <1>3 DEF WrongCode, Goto, At, Asked
  <2>2. CASE j = Key(t)
    <3>1. Comparing(j)' = Comparing(j) \ {t} /\ t \in Comparing(j)
      <4>1. Key(t)' = Key(t)
        BY <1>3 DEF WrongCode, Goto, Key, Asked
      <4>. QED
        BY <2>1, <2>2, <4>1 DEF Comparing, At, Key
    <3>2. Cardinality(Comparing(j)') = Cardinality(Comparing(j)) - 1
      <4>1. IsFiniteSet(Comparing(j))
        BY ComparingFinite
      <4>. QED
        BY ONLY <3>1, <4>1, FS_RemoveElement
    <3>3. code[j] \in Code /\ code'[j].guesses = code[j].guesses /\ code'[j].tries = code[j].tries + 1
      BY <1>3, <2>2 DEF WrongCode, Key, Code
    <3>4. code[j].guesses \in Nat /\ code[j].tries \in Nat
      BY <3>3 DEF Code
    <3>. QED
      BY <2>2, <3>2, <3>3, <3>4, ComparingFinite, AccountsAssumption DEF GuessInv
  <2>3. CASE j # Key(t)
    <3>1. Comparing(j)' = Comparing(j)
      BY <2>1, <2>3, <1>3 DEF Comparing, At, Key, WrongCode, Goto, Asked
    <3>2. code'[j] = code[j]
      BY <1>3, <2>3 DEF WrongCode, Key
    <3>. QED
      BY <3>1, <3>2 DEF GuessInv
  <2>. QED
    BY <2>2, <2>3
<1>4. ASSUME NEW t \in Threads,
             \/ Bump(t) \/ SignIn(t) \/ TryIssue(t) \/ Fail(t) \/ Lock(t) \/ Succeed(t) \/ SetPassword(t)
             \/ GuardLast(t) \/ WritePatch(t)
      PROVE GuessInv'
  <2>1. UNCHANGED code
    BY <1>4 DEF Bump, SignIn, TryIssue, Fail, Lock, Succeed, SetPassword, GuardLast, WritePatch
  <2>2. Aside
    BY <1>4 DEF Bump, SignIn, TryIssue, Fail, Lock, Succeed, SetPassword, GuardLast, WritePatch, At, Goto, End,
                Idle, Asked, Aside
  <2>. QED
    BY <1>1, <2>1, <2>2, GuessKept
<1>5. ASSUME NEW t \in Threads, SetCode(t) \/ UseCode(t) \/ WriteRemove(t) PROVE GuessInv'
  <2>1. Kept
    <3>1. CASE SetCode(t)
      BY <3>1 DEF SetCode, FreshCode, Settled
    <3>2. CASE UseCode(t)
      BY <3>2 DEF UseCode, Settled
    <3>3. CASE WriteRemove(t)
      BY <3>3 DEF WriteRemove, Settled
    <3>. QED
      BY <1>5, <3>1, <3>2, <3>3
  <2>2. Aside
    BY <1>5 DEF SetCode, UseCode, WriteRemove, At, Goto, End, Idle, Asked, Aside
  <2>. QED
    BY <2>1, <2>2, GuessKept
<1>6. ASSUME NEW t \in Threads, NEW u \in Accts,
             \/ Logout(t, u) \/ ChangePassword(t, u) \/ MasterReset(t, u) \/ FirstUser(t, u)
             \/ \E kind \in Kinds : RequestCode(t, kind, u)
             \/ \E right \in BOOLEAN : LoginPassword(t, u, right)
      PROVE GuessInv'
  <2>1. UNCHANGED code
    BY <1>6 DEF Logout, ChangePassword, MasterReset, FirstUser, RequestCode, LoginPassword
  <2>2. Aside
    BY <1>6, BeginsAside DEF Logout, ChangePassword, MasterReset, FirstUser, RequestCode, LoginPassword
  <2>. QED
    BY <1>1, <2>1, <2>2, GuessKept
<1>7. ASSUME NEW t \in Threads, NEW a \in Accts, NEW u \in Accts,
             \/ Remove(t, a, u) \/ CancelInvite(t, a, u)
             \/ \E role \in Roles : Invite(t, a, u, role) \/ Patch(t, a, u, "role", role)
             \/ \E active \in BOOLEAN : Patch(t, a, u, "active", active)
      PROVE GuessInv'
  <2>1. UNCHANGED code
    BY <1>7 DEF Remove, CancelInvite, Invite, Patch
  <2>2. Aside
    <3>1. CASE Remove(t, a, u) \/ CancelInvite(t, a, u)
      BY <3>1, BeginsChangeAside DEF Remove, CancelInvite
    <3>2. ASSUME NEW role \in Roles, Invite(t, a, u, role) PROVE Aside
      BY <3>2 DEF Invite, Aside
    <3>3. ASSUME NEW field, NEW value, Patch(t, a, u, field, value) PROVE Aside
      BY <3>3, BeginsChangeAside DEF Patch
    <3>. QED
      BY <1>7, <3>1, <3>2, <3>3
  <2>. QED
    BY <1>1, <2>1, <2>2, GuessKept
<1>8. ASSUME NEW u \in Accts, Accept(u) \/ Decline(u) PROVE GuessInv'
  <2>1. UNCHANGED <<code, th>>
    BY <1>8 DEF Accept, Decline
  <2>. QED
    BY <1>1, <2>1, GuessKept DEF Aside
<1>9. ASSUME NEW k \in Kinds \X Accts, CodeExpires(k) PROVE GuessInv'
  <2>1. Kept
    BY <1>9 DEF CodeExpires, Settled, Code
  <2>. QED
    BY <1>9, <2>1, GuessKept DEF CodeExpires, Aside
<1>10. ASSUME (\E k \in Kinds \X Accts : WindowEnds(k)) \/ (\E k \in Scopes \X Accts : LockEnds(k)) PROVE GuessInv'
  <2>1. UNCHANGED <<code, th>>
    BY <1>10 DEF WindowEnds, LockEnds
  <2>. QED
    BY <1>1, <2>1, GuessKept DEF Aside
<1>11. ASSUME UNCHANGED vars PROVE GuessInv'
  BY <1>1, <1>11, GuessKept DEF vars, Aside
<1>. QED
  BY <1>2, <1>3, <1>4, <1>5, <1>6, <1>7, <1>8, <1>9, <1>10, <1>11 DEF Next, Requests, Steps, Lapses

LEMMA InitGuess == Init => GuessInv
<1> SUFFICES ASSUME Init, NEW k \in Kinds \X Accts, code[k] # None
             PROVE  /\ code[k].guesses <= code[k].tries + Cardinality(Comparing(k))
                    /\ code[k].guesses <= MaxTries + Cardinality(Threads) - 1
  BY DEF GuessInv
<1>1. code[k] = FreshCode
  BY DEF Init, NoCode
<1>2. Cardinality(Comparing(k)) \in Nat /\ Cardinality(Threads) \in Nat
  BY ComparingFinite
<1>. QED
  BY <1>1, <1>2, AccountsAssumption DEF FreshCode

(* However many threads compare a code at once, and however the counting   *)
(* of their failures interleaves, the wrong codes compared with it exceed  *)
(* the limit by less than the number of threads.                           *)
THEOREM GuessesLimited == Spec => []GuessesBounded
<1>1. Typed /\ GuessInv => GuessesBounded
  BY DEF Typed, Stored, TypeOK, GuessInv, GuessesBounded
<1>2. Spec => []GuessInv
  BY InitGuess, StepGuess, SpecTyped, PTL DEF Spec
<1>. QED
  BY <1>1, <1>2, SpecTyped, PTL

-----------------------------------------------------------------------------
(* The last administrator *)

Quiet == "overlap" \notin excused /\ "declined" \notin excused

\* Requests that may take their account's administrator away: before the
\* count, with a row that the count will not look at, and before the write.
Passing(t) == At(t, "guard") /\ th[t].takes /\ ~(th[t].row.role = "admin" /\ th[t].row.active)
Writing(t) == At(t, "write") /\ th[t].takes

AdminInv ==
    Quiet =>
        /\ ActiveAdmins # {}
        /\ \A s, t \in Threads : Writing(s) /\ Writing(t) => s = t
        /\ \A t \in Threads : Writing(t) \/ Passing(t) => ActiveAdmins \ {th[t].u} # {}
        /\ \A s, t \in Threads : Writing(s) /\ Passing(t) => ActiveAdmins \ {th[s].u, th[t].u} # {}

\* Nobody stops being an active administrator.
AdminsStay == \A u \in ActiveAdmins : IsUser(u)' /\ users'[u].role = "admin" /\ users'[u].active

\* No request comes to the write or, with a row that is not counted, to the
\* guard.
NoneLeaves == \A t \in Threads : (Writing(t) \/ Passing(t))' => th'[t] = th[t]

LEMMA AdminKept ==
  ASSUME AdminInv, excused \subseteq excused', Quiet' => AdminsStay, NoneLeaves
  PROVE  AdminInv'
<1> SUFFICES ASSUME Quiet' PROVE AdminInv'
  BY DEF AdminInv
<1>1. Quiet /\ ActiveAdmins \subseteq ActiveAdmins'
  BY DEF Quiet, AdminsStay, ActiveAdmins
<1>2. \A t \in Threads : /\ Writing(t)' => Writing(t) /\ th'[t] = th[t]
                         /\ Passing(t)' => Passing(t) /\ th'[t] = th[t]
  BY DEF NoneLeaves, Writing, Passing, At
<1>. QED
  BY <1>1, <1>2 DEF AdminInv

\* A request that takes nobody away yet joins.
LEMMA AdminJoined ==
  ASSUME AdminInv, NEW t \in Threads, UNCHANGED users, excused \subseteq excused',
         ~Writing(t)', Passing(t)' => th'[t].u \notin ActiveAdmins,
         \A s \in Threads \ {t} : th'[s] = th[s]
  PROVE  AdminInv'
<1> SUFFICES ASSUME Quiet' PROVE AdminInv'
  BY DEF AdminInv
<1>1. Quiet /\ ActiveAdmins' = ActiveAdmins
  BY DEF Quiet, ActiveAdmins, IsUser
<1>2. \A s \in Threads \ {t} : (Writing(s)' <=> Writing(s)) /\ (Passing(s)' <=> Passing(s))
  BY DEF Writing, Passing, At
<1>. QED
  BY <1>1, <1>2 DEF AdminInv

\* A request that may take away comes to the write, alone.
LEMMA AdminPassed ==
  ASSUME AdminInv, NEW t \in Threads, UNCHANGED users,
         excused' = excused \union (IF th'[t].takes /\ Leaving(t) THEN {"overlap"} ELSE {}),
         At(t, "write")', th'[t].takes => ActiveAdmins \ {th'[t].u} # {},
         \A s \in Threads \ {t} : th'[s] = th[s]
  PROVE  AdminInv'
<1> SUFFICES ASSUME Quiet' PROVE AdminInv'
  BY DEF AdminInv
<1>1. Quiet /\ ActiveAdmins' = ActiveAdmins /\ (th'[t].takes => ~Leaving(t))
  BY DEF Quiet, ActiveAdmins, IsUser
<1>2. \A s \in Threads \ {t} : (Writing(s)' <=> Writing(s)) /\ (Passing(s)' <=> Passing(s))
  BY DEF Writing, Passing, At
<1>3. ~Passing(t)' /\ (Writing(t)' <=> th'[t].takes)
  BY DEF Writing, Passing, At
<1>4. th'[t].takes => \A s \in Threads \ {t} : ~Writing(s) /\ ~Passing(s)
  BY <1>1 DEF Leaving, Writing, Passing, At
<1>. QED
  BY <1>1, <1>2, <1>3, <1>4 DEF AdminInv

\* The write, with which one account at most stops being an administrator.
LEMMA AdminWritten ==
  ASSUME AdminInv, NEW t \in Threads, Writing(t), UNCHANGED excused, ~At(t, "write")', ~At(t, "guard")',
         \A s \in Threads \ {t} : th'[s] = th[s],
         ActiveAdmins \ {th[t].u} \subseteq ActiveAdmins'
  PROVE  AdminInv'
<1> SUFFICES ASSUME Quiet' PROVE AdminInv'
  BY DEF AdminInv
<1>1. Quiet
  BY DEF Quiet
<1>2. \A s \in Threads \ {t} : (Writing(s)' <=> Writing(s)) /\ (Passing(s)' <=> Passing(s))
  BY DEF Writing, Passing, At
<1>3. \A s \in Threads : ~Writing(s)'
  BY <1>1, <1>2 DEF AdminInv, Writing, At
<1>4. ~Passing(t)'
  BY DEF Passing, At
<1>5. ActiveAdmins' # {}
  BY <1>1 DEF AdminInv
<1>6. ASSUME NEW s \in Threads, Passing(s)' PROVE ActiveAdmins' \ {th'[s].u} # {}
  <2>1. s # t /\ Passing(s) /\ th'[s] = th[s]
    BY <1>2, <1>4, <1>6
  <2>2. ActiveAdmins \ {th[t].u, th[s].u} # {}
    BY <1>1, <2>1 DEF AdminInv
  <2>. QED
    BY <2>1, <2>2
<1>. QED
  BY <1>3, <1>5, <1>6 DEF AdminInv

LEMMA TwoAdmins ==
  ASSUME NEW u, ~(Cardinality(ActiveAdmins) <= 1) PROVE ActiveAdmins \ {u} # {}
<1> SUFFICES ASSUME ActiveAdmins \ {u} = {} PROVE FALSE
  OBVIOUS
<1>1. ActiveAdmins = {} \/ ActiveAdmins = {u}
  OBVIOUS
<1>2. CASE ActiveAdmins = {}
  <2>1. Cardinality(ActiveAdmins) = 0
    BY ONLY <1>2, FS_EmptySet
  <2>. QED
    BY <2>1
<1>3. CASE ActiveAdmins = {u}
  <2>1. Cardinality({u}) = 1
    BY ONLY FS_Singleton
  <2>. QED
    BY <1>3, <2>1
<1>. QED
  BY <1>1, <1>2, <1>3

\* What a patch writes.
LEMMA PatchWrites ==
  ASSUME Typed, NEW t \in Threads, WritePatch(t), IsUser(th[t].u)
  PROVE  /\ users'[th[t].u] \notin {None, Gone}
         /\ users'[th[t].u] \in User /\ users'[th[t].u].sv = users[th[t].u].sv
         /\ \/ /\ th[t].field = "role" /\ th[t].value \in Roles
               /\ users'[th[t].u].role = th[t].value /\ users'[th[t].u].active = users[th[t].u].active
            \/ /\ th[t].field = "active" /\ th[t].value \in BOOLEAN
               /\ users'[th[t].u].role = users[th[t].u].role /\ users'[th[t].u].active = th[t].value
<1> DEFINE u == th[t].u  v == th[t].value
<1>1. u \in Accts /\ users \in [Accts -> User \union {None, Gone}] /\ users[u] \in User
  BY DEF Typed, Stored, TypeOK, Serving, Asked, IsUser
<1>2. \/ th[t].field = "role" /\ v \in Roles
      \/ th[t].field = "active" /\ v \in BOOLEAN
  BY DEF Typed, Serving, Fits, WritePatch
<1>3. users' = [users EXCEPT ![u] = [users[u] EXCEPT ![th[t].field] = v]]
  BY DEF WritePatch
<1>4. CASE th[t].field = "role" /\ v \in Roles
  <2>1. users'[u] = [users[u] EXCEPT !.role = v]
    BY <1>1, <1>3, <1>4
  <2>2. users'[u] \in User /\ users'[u].role = v /\ users'[u].active = users[u].active
        /\ users'[u].sv = users[u].sv
    BY <1>1, <1>4, <2>1 DEF User
  <2>3. users'[u] \notin {None, Gone}
    BY <2>2, AccountsAssumption
  <2>. QED
    BY <1>4, <2>2, <2>3
<1>5. CASE th[t].field = "active" /\ v \in BOOLEAN
  <2>1. users'[u] = [users[u] EXCEPT !.active = v]
    BY <1>1, <1>3, <1>5
  <2>2. users'[u] \in User /\ users'[u].role = users[u].role /\ users'[u].active = v
        /\ users'[u].sv = users[u].sv
    BY <1>1, <1>5, <2>1 DEF User
  <2>3. users'[u] \notin {None, Gone}
    BY <2>2, AccountsAssumption
  <2>. QED
    BY <1>5, <2>2, <2>3
<1>. QED
  BY <1>2, <1>4, <1>5

LEMMA StepAdmin == Typed /\ Typed' /\ AdminInv /\ [Next]_vars => AdminInv'
<1> SUFFICES ASSUME Typed, Typed', AdminInv, [Next]_vars PROVE AdminInv'
  OBVIOUS
<1> USE DEF limits, history, Serving, Stored, TypeOK, Typed
<1>1. ASSUME NEW t \in Threads,
             \/ Bump(t) \/ SignIn(t) \/ TryIssue(t) \/ SetCode(t) \/ WrongCode(t) \/ UseCode(t)
             \/ Fail(t) \/ Lock(t) \/ Succeed(t) \/ SetPassword(t)
      PROVE AdminInv'
  <2>1. NoneLeaves
    BY <1>1 DEF Bump, SignIn, TryIssue, SetCode, WrongCode, UseCode, Fail, Lock, Succeed, SetPassword,
                At, Goto, End, Idle, Asked, NoneLeaves, Writing, Passing
  <2>2. AdminsStay
    <3>1. CASE UNCHANGED users
      BY <3>1 DEF AdminsStay, ActiveAdmins, IsUser
    <3>2. CASE Bump(t) \/ SetPassword(t)
      <4>1. th[t].u \in Accts
        BY DEF Asked
      <4>. QED
        BY <3>2, <4>1, BumpKeeps, AccountsAssumption DEF Bump, SetPassword, AdminsStay, ActiveAdmins, IsUser
    <3>. QED
      BY <1>1, <3>1, <3>2 DEF Bump, SignIn, TryIssue, SetCode, WrongCode, UseCode, Fail, Lock, Succeed
  <2>3. UNCHANGED excused
    BY <1>1 DEF Bump, SignIn, TryIssue, SetCode, WrongCode, UseCode, Fail, Lock, Succeed, SetPassword
  <2>. QED
    BY <2>1, <2>2, <2>3, AdminKept
<1>2. ASSUME NEW t \in Threads, GuardLast(t) PROVE AdminInv'
  <2>1. CASE End(t) /\ UNCHANGED excused
    <3>1. NoneLeaves
      BY <2>1 DEF End, Idle, NoneLeaves, Writing, Passing, At
    <3>. QED
      BY <1>2, <2>1, <3>1, AdminKept DEF GuardLast, AdminsStay, ActiveAdmins, IsUser
  <2>2. CASE /\ ~(th[t].row.role = "admin" /\ th[t].row.active /\ th[t].takes /\ TooFew)
             /\ Goto(t, "write")
             /\ excused' = excused \union (IF th[t].takes /\ Leaving(t) THEN {"overlap"} ELSE {})
    <3>1. th'[t].u = th[t].u /\ th'[t].takes = th[t].takes /\ At(t, "write")'
          /\ \A s \in Threads \ {t} : th'[s] = th[s]
      BY <2>2 DEF Goto, Asked, At
    <3>2. CASE Quiet'
      <4>1. Quiet
        BY <2>2, <3>2 DEF Quiet
      <4>2. ASSUME th[t].takes PROVE ActiveAdmins \ {th[t].u} # {}
        <5>1. CASE th[t].row.role = "admin" /\ th[t].row.active
          <6>1. ~(Cardinality(ActiveAdmins) <= 1)
            BY <2>2, <4>2, <5>1 DEF TooFew
          <6>. QED
            BY <6>1, TwoAdmins
        <5>2. CASE ~(th[t].row.role = "admin" /\ th[t].row.active)
          BY <1>2, <4>1, <4>2, <5>2 DEF GuardLast, AdminInv, Passing
        <5>. QED
          BY <5>1, <5>2
      <4>. QED
        BY <1>2, <2>2, <3>1, <4>2, AdminPassed DEF GuardLast
    <3>3. CASE ~Quiet'
      BY <3>3 DEF AdminInv
    <3>. QED
      BY <3>2, <3>3
  <2>. QED
    BY <1>2, <2>1, <2>2 DEF GuardLast
<1>3. ASSUME NEW t \in Threads, WritePatch(t) PROVE AdminInv'
  <2>. DEFINE u == th[t].u
  <2>1. u \in Accts /\ th[t] \in Asked /\ Fits(th[t]) /\ th[t].op = "patch" /\ At(t, "write")
    BY <1>3 DEF WritePatch, Asked
  <2>2. ~At(t, "write")' /\ ~At(t, "guard")' /\ \A s \in Threads \ {t} : th'[s] = th[s]
    BY <1>3 DEF WritePatch, Goto, End, Idle, At, Asked
  <2>3. \A v \in Accts : v # u => users'[v] = users[v]
    BY <1>3 DEF WritePatch
  <2>4. CASE th[t].takes
    <3>1. Writing(t)
      BY <2>1, <2>4 DEF Writing
    <3>2. ActiveAdmins \ {u} \subseteq ActiveAdmins'
      BY <2>3 DEF ActiveAdmins, IsUser
    <3>. QED
      BY <1>3, <2>2, <3>1, <3>2, AdminWritten DEF WritePatch
  <2>5. CASE ~th[t].takes
    <3>1. NoneLeaves
      BY <2>2 DEF NoneLeaves, Writing, Passing
    <3>2. AdminsStay
      <4>1. ~Takes(th[t].field, th[t].value)
        BY <2>1, <2>5 DEF Fits
      <4>2. ASSUME u \in ActiveAdmins PROVE users'[u].role = "admin" /\ users'[u].active /\ users'[u] \notin {None, Gone}
        <5>1. IsUser(u) /\ users[u].role = "admin" /\ users[u].active
          BY <4>2 DEF ActiveAdmins
        <5>2. /\ users'[u] \notin {None, Gone} /\ users'[u] \in User
              /\ \/ th[t].field = "role" /\ users'[u].role = th[t].value /\ users'[u].active = users[u].active
                 \/ th[t].field = "active" /\ users'[u].role = users[u].role /\ users'[u].active = th[t].value
          BY <1>3, <5>1, PatchWrites
        <5>3. CASE th[t].field = "role" /\ users'[u].role = th[t].value /\ users'[u].active = users[u].active
          BY <4>1, <5>1, <5>2, <5>3 DEF Takes, IsUser
        <5>4. CASE th[t].field = "active" /\ users'[u].role = users[u].role /\ users'[u].active = th[t].value
          BY <4>1, <5>1, <5>2, <5>4 DEF Takes, IsUser
        <5>. QED
          BY <5>2, <5>3, <5>4
      <4>. QED
        BY <2>3, <4>2 DEF AdminsStay, ActiveAdmins, IsUser
    <3>. QED
      BY <1>3, <3>1, <3>2, AdminKept DEF WritePatch
  <2>. QED
    BY <2>4, <2>5
<1>4. ASSUME NEW t \in Threads, WriteRemove(t) PROVE AdminInv'
  <2>1. th[t].takes /\ At(t, "write")
    BY <1>4 DEF WriteRemove, Fits
  <2>2. ~At(t, "write")' /\ ~At(t, "guard")' /\ \A s \in Threads \ {t} : th'[s] = th[s]
    BY <1>4 DEF WriteRemove, End, Idle, At
  <2>3. ActiveAdmins \ {th[t].u} \subseteq ActiveAdmins'
    BY <1>4 DEF WriteRemove, ActiveAdmins, IsUser
  <2>. QED
    BY <1>4, <2>1, <2>2, <2>3, AdminWritten DEF WriteRemove, Writing
<1>5. ASSUME NEW t \in Threads, NEW u \in Accts,
             \/ Logout(t, u) \/ ChangePassword(t, u) \/ MasterReset(t, u)
             \/ \E kind \in Kinds : RequestCode(t, kind, u)
             \/ \E right \in BOOLEAN : LoginPassword(t, u, right) \/ \E k \in Kinds : VerifyCode(t, k, u, right)
      PROVE AdminInv'
  <2>1. UNCHANGED <<users, excused>>
    BY <1>5 DEF Logout, ChangePassword, MasterReset, RequestCode, LoginPassword, VerifyCode
  <2>2. \E pc, op : pc # "guard" /\ pc # "write" /\ Begin(t, Request(pc, op, u))
    BY <1>5 DEF Logout, ChangePassword, MasterReset, RequestCode, LoginPassword, VerifyCode
  <2>3. NoneLeaves
    BY <2>2 DEF Begin, Request, Idle, NoneLeaves, Writing, Passing, At
  <2>. QED
    BY <2>1, <2>3, AdminKept DEF AdminsStay, ActiveAdmins, IsUser
<1>6. ASSUME NEW t \in Threads, NEW u \in Accts, FirstUser(t, u) PROVE AdminInv'
  <2>1. NoneLeaves
    BY <1>6 DEF FirstUser, Begin, Request, Idle, NoneLeaves, Writing, Passing, At
  <2>2. AdminsStay
    BY <1>6 DEF FirstUser, AdminsStay, ActiveAdmins, IsUser
  <2>. QED
    BY <1>6, <2>1, <2>2, AdminKept DEF FirstUser
<1>7. ASSUME NEW t \in Threads, NEW a \in Accts, NEW u \in Accts, Remove(t, a, u) PROVE AdminInv'
  <2>1. users[u] \in User
    BY <1>7 DEF Remove, IsUser
  <2>2. th' = [th EXCEPT ![t] = [Request("guard", "remove", u) EXCEPT !.row = users[u], !.takes = TRUE]]
    BY <1>7 DEF Remove, Begin
  <2>3. th'[t].u = u /\ th'[t].row = users[u] /\ At(t, "guard")' /\ \A s \in Threads \ {t} : th'[s] = th[s]
    BY <2>2 DEF Request, Idle, At
  <2>. QED
    BY <1>7, <2>3, AdminJoined DEF Remove, Passing, Writing, At, ActiveAdmins
<1>8. ASSUME NEW t \in Threads, NEW a \in Accts, NEW u \in Accts, NEW field, NEW value, Patch(t, a, u, field, value)
      PROVE AdminInv'
  <2>1. users[u] \in User
    BY <1>8 DEF Patch, IsUser
  <2>2. th' = [th EXCEPT ![t] = [Request("guard", "patch", u) EXCEPT !.row = users[u], !.field = field,
                                    !.value = value, !.takes = Takes(field, value)]]
    BY <1>8 DEF Patch, Begin
  <2>3. th'[t].u = u /\ th'[t].row = users[u] /\ At(t, "guard")' /\ \A s \in Threads \ {t} : th'[s] = th[s]
    BY <2>2 DEF Request, Idle, At
  <2>. QED
    BY <1>8, <2>3, AdminJoined DEF Patch, Passing, Writing, At, ActiveAdmins
<1>9. ASSUME NEW t \in Threads, NEW a \in Accts, NEW u \in Accts, CancelInvite(t, a, u) PROVE AdminInv'
  <2>1. th' = [th EXCEPT ![t] = [Request("write", "remove", u) EXCEPT !.row = users[u], !.takes = TRUE]]
    BY <1>9 DEF CancelInvite, Begin
  <2>2. th'[t].u = u /\ th'[t].takes = TRUE /\ At(t, "write")' /\ \A s \in Threads \ {t} : th'[s] = th[s]
    BY <2>1 DEF Request, Idle, At
  <2>3. a \in ActiveAdmins /\ a # u
    BY <1>9 DEF CancelInvite, Administers, SignedIn, Accepted, ActiveAdmins
  <2>. QED
    BY <1>9, <2>2, <2>3, AdminPassed DEF CancelInvite
<1>10. ASSUME NEW t \in Threads, NEW a \in Accts, NEW u \in Accts, NEW role \in Roles, Invite(t, a, u, role)
       PROVE AdminInv'
  BY <1>10, AdminKept DEF Invite, NoneLeaves, AdminsStay, ActiveAdmins, IsUser
<1>11. ASSUME NEW u \in Accts, Accept(u) PROVE AdminInv'
  <2>1. users[u] \in User /\ users' = [users EXCEPT ![u] = [users[u] EXCEPT !.invite = "accepted"]]
    BY <1>11 DEF Accept, SignedIn, Accepted, IsUser
  <2>2. AdminsStay
    BY <2>1, AccountsAssumption DEF AdminsStay, ActiveAdmins, IsUser, User
  <2>. QED
    BY <1>11, <2>2, AdminKept DEF Accept, NoneLeaves
<1>12. ASSUME NEW u \in Accts, Decline(u) PROVE AdminInv'
  <2>1. Quiet' => users[u].role # "admin"
    BY <1>12 DEF Decline, Quiet
  <2>2. Quiet' => AdminsStay
    BY <1>12, <2>1 DEF Decline, AdminsStay, ActiveAdmins, IsUser
  <2>. QED
    BY <1>12, <2>2, AdminKept DEF Decline, NoneLeaves
<1>13. ASSUME Lapses \/ UNCHANGED vars PROVE AdminInv'
  <2>1. UNCHANGED <<users, excused, th>>
    BY <1>13 DEF Lapses, CodeExpires, WindowEnds, LockEnds, vars
  <2>. QED
    BY <2>1, AdminKept DEF NoneLeaves, AdminsStay, ActiveAdmins, IsUser
<1>. QED
  BY <1>1, <1>2, <1>3, <1>4, <1>5, <1>6, <1>7, <1>8, <1>9, <1>10, <1>11, <1>12, <1>13
     DEF Next, Requests, Steps

LEMMA InitAdmin == Init => AdminInv
<1> SUFFICES ASSUME Init PROVE AdminInv
  OBVIOUS
<1>1. \A t \in Threads : ~Writing(t) /\ ~Passing(t)
  BY DEF Init, Idle, Writing, Passing, At
<1>2. users[Local].role = "admin" /\ users[Local].active /\ users[Local] \in User
  <2>1. CASE users = [u \in Accts |-> IF u = Local THEN NewUser("admin", "active") ELSE None]
    BY <2>1, AccountsAssumption DEF NewUser, User, Roles
  <2>2. CASE users \in [Accts -> {NewUser(r, "accepted") : r \in Roles}] /\ users[Local].role = "admin"
    <3>1. PICK r \in Roles : users[Local] = NewUser(r, "accepted")
      BY <2>2, AccountsAssumption
    <3>. QED
      BY <2>2, <3>1 DEF NewUser, User
  <2>. QED
    BY <2>1, <2>2 DEF Init
<1>. QED
  BY <1>1, <1>2, AccountsAssumption DEF AdminInv, ActiveAdmins, IsUser

(* Demoting, disabling, removing and cancelling always leave an active     *)
(* administrator, unless two such requests overlapped or an administrator  *)
(* declined: the count before the write is enough for requests that do not *)
(* overlap, whatever else runs beside them.                                *)
THEOREM LastAdminKept == Spec => []AdminRemains
<1>1. AdminInv => AdminRemains
  BY DEF AdminInv, Quiet, AdminRemains
<1>2. Spec => []AdminInv
  BY InitAdmin, StepAdmin, SpecTyped, PTL DEF Spec
<1>. QED
  BY <1>1, <1>2, PTL

-----------------------------------------------------------------------------
(* Sessions *)

Patching(t) == th[t].op = "patch"

\* Patches of one account exclude one another, and know what they change
\* until they have changed it.
OnePatch == \A s, t \in Threads :
                Patching(s) /\ Patching(t) /\ th[s].u = th[t].u /\ th[s].u \notin excused => s = t
RowCurrent == \A t \in Threads : Patching(t) =>
                  /\ users[th[t].u] # None
                  /\ ~At(t, "bump") /\ IsUser(th[t].u) /\ th[t].u \notin excused =>
                        th[t].row.role = users[th[t].u].role /\ th[t].row.active = users[th[t].u].active

\* The version of an account never falls back below that of a session of it,
\* and a session of the present version saw every change.
Issued == \A c \in cookies : users[c.u] # None /\ (IsUser(c.u) => c.sv <= users[c.u].sv)
Bumping(u) == \E t \in Threads : Patching(t) /\ At(t, "bump") /\ th[t].u = u
Seen == \A c \in cookies : IsUser(c.u) /\ c.sv = users[c.u].sv /\ c.u \notin excused =>
            c.at = changes[c.u] \/ ~users[c.u].active \/ Bumping(c.u)

SessionInv == OnePatch /\ RowCurrent /\ Issued /\ Seen

\* An account keeps what it may do, whatever becomes of its version.
RightsStay == \A v \in Accts : users[v] # None =>
                 /\ users'[v] # None
                 /\ IsUser(v)' => /\ IsUser(v) /\ users'[v].sv >= users[v].sv
                                  /\ users'[v].role = users[v].role /\ users'[v].active = users[v].active

\* A patch goes on as it began; a bump is kept until it is done.
PatchesStay == \A t \in Threads :
                  /\ Patching(t)' => /\ Patching(t) /\ th'[t].u = th[t].u /\ th'[t].row = th[t].row
                                     /\ At(t, "bump") <=> At(t, "bump")'
                  /\ Patching(t) /\ At(t, "bump") =>
                        \/ th'[t] = th[t]
                        \/ IsUser(th[t].u) => users'[th[t].u].sv > users[th[t].u].sv

NewSessions == \A c \in cookies' \ cookies :
                  /\ IsUser(c.u)' /\ c.sv = users'[c.u].sv /\ c.at = changes'[c.u]

LEMMA SessionKept ==
  ASSUME Typed, Typed', SessionInv, excused \subseteq excused', UNCHANGED changes,
         RightsStay, PatchesStay, NewSessions
  PROVE  SessionInv'
<1> USE DEF SessionInv
<1>1. \A t \in Threads : th[t].u \in Accts /\ th'[t].u \in Accts
  BY DEF Typed, Serving, Asked
<1>2. \A c \in cookies : c.u \in Accts /\ c.sv \in Nat
  BY DEF Typed, Stored
<1>3. \A v \in Accts : (IsUser(v) => users[v].sv \in Nat) /\ (IsUser(v)' => users'[v].sv \in Nat)
  BY DEF Typed, Stored, TypeOK, IsUser, User
<1>4. OnePatch'
  BY DEF OnePatch, PatchesStay
<1>5. RowCurrent'
  <2> SUFFICES ASSUME NEW t \in Threads, Patching(t)'
               PROVE  /\ users'[th'[t].u] # None
                      /\ ~At(t, "bump")' /\ IsUser(th[t].u)' /\ th'[t].u \notin excused' =>
                            /\ th'[t].row.role = users'[th'[t].u].role
                            /\ th'[t].row.active = users'[th'[t].u].active
    BY DEF RowCurrent
  <2>1. Patching(t) /\ th'[t].u = th[t].u /\ th'[t].row = th[t].row /\ (At(t, "bump") <=> At(t, "bump")')
    BY DEF PatchesStay
  <2>2. users[th[t].u] # None
    BY <2>1 DEF RowCurrent
  <2>. QED
    BY <2>1, <2>2, <1>1 DEF RowCurrent, RightsStay
<1>6. Issued'
  <2> SUFFICES ASSUME NEW c \in cookies' PROVE users'[c.u] # None /\ (IsUser(c.u)' => c.sv <= users'[c.u].sv)
    BY DEF Issued
  <2>1. CASE c \in cookies
    BY <2>1, <1>2, <1>3 DEF Issued, RightsStay
  <2>2. CASE c \notin cookies
    <3>1. c.sv \in Nat
      BY DEF Typed, Stored
    <3>. QED
      BY <2>2, <3>1 DEF NewSessions, IsUser
  <2>. QED
    BY <2>1, <2>2
<1>7. Seen'
  <2> SUFFICES ASSUME NEW c \in cookies', IsUser(c.u)', c.sv = users'[c.u].sv, c.u \notin excused'
               PROVE  c.at = changes'[c.u] \/ ~users'[c.u].active \/ Bumping(c.u)'
    BY DEF Seen
  <2>1. CASE c \in cookies
    <3>1. c.u \in Accts /\ users[c.u] # None
      BY <2>1, <1>2 DEF Issued
    <3>2. /\ IsUser(c.u) /\ users'[c.u].active = users[c.u].active
          /\ users'[c.u].sv >= users[c.u].sv /\ c.sv <= users[c.u].sv
      BY <2>1, <3>1 DEF RightsStay, Issued
    <3>3. c.sv = users[c.u].sv /\ users'[c.u].sv = users[c.u].sv
      BY <2>1, <3>1, <3>2, <1>2, <1>3
    <3>4. ASSUME Bumping(c.u) PROVE Bumping(c.u)'
      <4>1. PICK t \in Threads : Patching(t) /\ At(t, "bump") /\ th[t].u = c.u
        BY <3>4 DEF Bumping
      <4>2. th'[t] = th[t]
        BY <4>1, <3>1, <3>2, <3>3, <1>3 DEF PatchesStay
      <4>. QED
        BY <4>1, <4>2 DEF Bumping, Patching, At
    <3>. QED
      BY <2>1, <3>1, <3>2, <3>3, <3>4 DEF Seen
  <2>2. CASE c \notin cookies
    BY <2>2 DEF NewSessions
  <2>. QED
    BY <2>1, <2>2
<1>. QED
  BY <1>4, <1>5, <1>6, <1>7

LEMMA StepSession == Typed /\ Typed' /\ SessionInv /\ [Next]_vars => SessionInv'
<1> SUFFICES ASSUME Typed, Typed', SessionInv, [Next]_vars PROVE SessionInv'
  OBVIOUS
<1> USE DEF limits, history
<1>0. /\ \A t \in Threads : th[t].u \in Accts /\ th[t] \in Asked
      /\ users \in [Accts -> User \union {None, Gone}] /\ th \in [Threads -> Asked]
      /\ cookies \subseteq [u : Accts, sv : Nat, at : Nat]
  BY DEF Typed, Serving, Asked, Stored, TypeOK
<1>1. ASSUME NEW t \in Threads, Bump(t) \/ SetPassword(t) PROVE SessionInv'
  <2>1. ASSUME NEW v \in Accts, IsUser(v)
        PROVE  /\ users'[v] \in User /\ users'[v].role = users[v].role /\ users'[v].active = users[v].active
               /\ users'[v].sv = IF v = th[t].u THEN users[v].sv + 1 ELSE users[v].sv
    BY <1>0, <1>1, <2>1, BumpKeeps DEF Bump, SetPassword, Typed
  <2>2. ASSUME NEW v \in Accts, ~IsUser(v) PROVE users'[v] = users[v]
    <3>1. CASE IsUser(th[t].u)
      BY <1>0, <1>1, <2>2, <3>1 DEF Bump, SetPassword, Bumped
    <3>2. CASE ~IsUser(th[t].u)
      BY <1>1, <3>2 DEF Bump, SetPassword, Bumped
    <3>. QED
      BY <3>1, <3>2
  <2>3. \A v \in Accts : IsUser(v) => users[v].sv \in Nat
    BY <1>0 DEF IsUser, User
  <2>4. RightsStay
    <3> SUFFICES ASSUME NEW v \in Accts, users[v] # None
                 PROVE  /\ users'[v] # None
                        /\ IsUser(v)' => /\ IsUser(v) /\ users'[v].sv >= users[v].sv
                                         /\ users'[v].role = users[v].role /\ users'[v].active = users[v].active
      BY DEF RightsStay
    <3>1. CASE IsUser(v)
      BY <2>1, <2>3, <3>1, AccountsAssumption
    <3>2. CASE ~IsUser(v)
      BY <2>2, <3>2 DEF IsUser
    <3>. QED
      BY <3>1, <3>2
  <2>5. PatchesStay
    <3>1. \A s \in Threads \ {t} : th'[s] = th[s]
      BY <1>0, <1>1 DEF Bump, SetPassword, Goto, End
    <3>2. IsUser(th[t].u) => users'[th[t].u].sv > users[th[t].u].sv
      BY <1>0, <2>1, <2>3
    <3>3. ~Patching(t)'
      <4>1. CASE End(t)
        BY <1>0, <4>1 DEF End, Idle, Patching
      <4>2. CASE th[t].op = "change" /\ Goto(t, "sign")
        BY <1>0, <4>2 DEF Goto, Asked, Patching
      <4>. QED
        BY <1>1, <4>1, <4>2 DEF Bump, SetPassword
    <3>. QED
      BY <3>1, <3>2, <3>3 DEF PatchesStay, Patching, At
  <2>. QED
    BY <1>1, <2>4, <2>5, SessionKept DEF Bump, SetPassword, NewSessions
\* The steps that leave the accounts alone.
<1>2. ASSUME UNCHANGED <<users, changes>>, excused \subseteq excused', NewSessions, PatchesStay PROVE SessionInv'
  <2>1. RightsStay
    BY <1>0, <1>2 DEF RightsStay, IsUser, User
  <2>. QED
    BY <1>2, <2>1, SessionKept
<1>3. ASSUME NEW t \in Threads, End(t) \/ (\E pc : Goto(t, pc) /\ pc # "bump"), ~At(t, "bump") PROVE PatchesStay
  <2>1. \A s \in Threads \ {t} : th'[s] = th[s]
    BY <1>0, <1>3 DEF Goto, End
  <2>2. CASE End(t)
    BY <1>0, <1>3, <2>1, <2>2 DEF End, Idle, PatchesStay, Patching, At
  <2>3. CASE \E pc : Goto(t, pc) /\ pc # "bump"
    <3>1. PICK pc : Goto(t, pc) /\ pc # "bump"
      BY <2>3
    <3>2. th'[t] = [th[t] EXCEPT !.pc = pc] /\ th[t] \in Asked
      BY <1>0, <3>1 DEF Goto
    <3>3. th'[t].pc # "bump" /\ th'[t].op = th[t].op /\ th'[t].u = th[t].u /\ th'[t].row = th[t].row
      BY <3>1, <3>2 DEF Asked
    <3>. QED
      BY <1>3, <2>1, <3>3 DEF PatchesStay, Patching, At
  <2>. QED
    BY <1>3, <2>2, <2>3
<1>4. ASSUME NEW t \in Threads,
             \/ SignIn(t) \/ TryIssue(t) \/ SetCode(t) \/ WrongCode(t) \/ UseCode(t)
             \/ Fail(t) \/ Lock(t) \/ Succeed(t) \/ GuardLast(t)
      PROVE SessionInv'
  <2>1. ~At(t, "bump")
    BY <1>4 DEF SignIn, TryIssue, SetCode, WrongCode, UseCode, Fail, Lock, Succeed, GuardLast, At
  <2>2. End(t) \/ (\E pc : Goto(t, pc) /\ pc # "bump")
    BY <1>4 DEF SignIn, TryIssue, SetCode, WrongCode, UseCode, Fail, Lock, Succeed, GuardLast
  <2>3. PatchesStay
    BY <1>3, <2>1, <2>2
  <2>4. NewSessions
    BY <1>4 DEF SignIn, Sign, TryIssue, SetCode, WrongCode, UseCode, Fail, Lock, Succeed, GuardLast, NewSessions, IsUser
  <2>5. UNCHANGED <<users, changes>> /\ excused \subseteq excused'
    BY <1>4 DEF SignIn, TryIssue, SetCode, WrongCode, UseCode, Fail, Lock, Succeed, GuardLast
  <2>. QED
    BY <1>2, <2>3, <2>4, <2>5
\* A request that is no patch begins.
<1>5. ASSUME NEW t \in Threads, NEW r, Begin(t, r), r.op # "patch" PROVE PatchesStay
  BY <1>0, <1>5 DEF Begin, Idle, PatchesStay, Patching, At
<1>6. ASSUME NEW t \in Threads, NEW u \in Accts,
             \/ Logout(t, u) \/ ChangePassword(t, u) \/ MasterReset(t, u)
             \/ \E kind \in Kinds : RequestCode(t, kind, u)
             \/ \E right \in BOOLEAN : LoginPassword(t, u, right) \/ \E k \in Kinds : VerifyCode(t, k, u, right)
      PROVE SessionInv'
  <2>1. \E pc, op : op # "patch" /\ Begin(t, Request(pc, op, u))
    BY <1>6 DEF Logout, ChangePassword, MasterReset, RequestCode, LoginPassword, VerifyCode, Kinds
  <2>2. PatchesStay
    BY <2>1, <1>5 DEF Request, Idle
  <2>3. UNCHANGED <<users, cookies, changes, excused>>
    BY <1>6 DEF Logout, ChangePassword, MasterReset, RequestCode, LoginPassword, VerifyCode
  <2>. QED
    BY <1>2, <2>2, <2>3 DEF NewSessions
<1>7. ASSUME NEW t \in Threads, NEW a \in Accts, NEW u \in Accts, Remove(t, a, u) \/ CancelInvite(t, a, u)
      PROVE SessionInv'
  <2>1. \/ Begin(t, [Request("guard", "remove", u) EXCEPT !.row = users[u], !.takes = TRUE])
        \/ Begin(t, [Request("write", "remove", u) EXCEPT !.row = users[u], !.takes = TRUE])
    BY <1>7 DEF Remove, CancelInvite
  <2>2. PatchesStay
    BY <2>1, <1>5 DEF Request, Idle
  <2>. QED
    BY <1>2, <1>7, <2>2 DEF Remove, CancelInvite, NewSessions
<1>8. ASSUME NEW t \in Threads, NEW a \in Accts, NEW u \in Accts, NEW role \in Roles,
             FirstUser(t, u) \/ Invite(t, a, u, role)
      PROVE SessionInv'
  <2>1. users[u] = None /\ (\A v \in Accts : v # u => users'[v] = users[v])
    BY <1>0, <1>8 DEF FirstUser, Invite
  <2>2. RightsStay
    BY <1>0, <2>1 DEF RightsStay, IsUser, User
  <2>3. PatchesStay
    <3>1. CASE FirstUser(t, u)
      BY <3>1, <1>5 DEF FirstUser, Request, Idle
    <3>2. CASE Invite(t, a, u, role)
      BY <3>2 DEF Invite, PatchesStay, Patching, At
    <3>. QED
      BY <1>8, <3>1, <3>2
  <2>. QED
    BY <1>8, <2>2, <2>3, SessionKept DEF FirstUser, Invite, NewSessions
<1>9. ASSUME NEW t \in Threads, WriteRemove(t) PROVE SessionInv'
  <2>1. PatchesStay
    BY <1>3, <1>9 DEF WriteRemove, At
  <2>2. RightsStay
    BY <1>0, <1>9, AccountsAssumption DEF WriteRemove, RightsStay, IsUser, User
  <2>. QED
    BY <1>9, <2>1, <2>2, SessionKept DEF WriteRemove, NewSessions
<1>10. ASSUME NEW u \in Accts, Accept(u) PROVE SessionInv'
  <2>1. users[u] \in User /\ users' = [users EXCEPT ![u] = [users[u] EXCEPT !.invite = "accepted"]]
    BY <1>0, <1>10 DEF Accept, SignedIn, Accepted, IsUser
  <2>2. RightsStay
    BY <1>0, <2>1, AccountsAssumption DEF RightsStay, IsUser, User
  <2>3. PatchesStay /\ NewSessions
    BY <1>10 DEF Accept, PatchesStay, Patching, At, NewSessions
  <2>. QED
    BY <1>10, <2>2, <2>3, SessionKept DEF Accept
<1>11. ASSUME Lapses \/ UNCHANGED vars PROVE SessionInv'
  <2>1. UNCHANGED <<users, excused, th, cookies, changes>>
    BY <1>11 DEF Lapses, CodeExpires, WindowEnds, LockEnds, vars
  <2>. QED
    BY <2>1, <1>2 DEF PatchesStay, Patching, At, NewSessions
<1>12. ASSUME NEW u \in Accts, Decline(u) PROVE SessionInv'
  <2>1. users[u] \in User /\ IsUser(u)
    BY <1>0, <1>12 DEF Decline, SignedIn, Accepted, IsUser
  <2>2. users' = [users EXCEPT ![u] = [users[u] EXCEPT !.invite = "declined", !.active = FALSE]]
    BY <1>0, <1>12 DEF Decline
  <2>3. users'[u] \in User /\ users'[u].active = FALSE /\ users'[u].sv = users[u].sv
        /\ \A v \in Accts : v # u => users'[v] = users[v] /\ changes'[v] = changes[v]
    BY <1>0, <1>12, <2>1, <2>2 DEF User, Decline, Typed, Stored
  <2>4. UNCHANGED <<th, cookies>> /\ excused \subseteq excused'
    BY <1>12 DEF Decline
  <2>5. \A t \in Threads : Patching(t) /\ th[t].u = u => u \in excused'
    BY <1>12 DEF Decline, Patched, Patching, Idle
  <2>6. OnePatch'
    BY <2>4 DEF SessionInv, OnePatch, Patching
  <2>7. RowCurrent'
    BY <1>0, <2>3, <2>4, <2>5, AccountsAssumption DEF SessionInv, RowCurrent, Patching, At, IsUser
  <2>8. Issued'
    BY <1>0, <2>1, <2>3, <2>4, AccountsAssumption DEF SessionInv, Issued, IsUser
  <2>9. Seen'
    BY <1>0, <2>1, <2>3, <2>4 DEF SessionInv, Seen, IsUser, Bumping, Patching, At
  <2>. QED
    BY <2>6, <2>7, <2>8, <2>9 DEF SessionInv
<1>13. ASSUME NEW t \in Threads, NEW a \in Accts, NEW u \in Accts, NEW field, NEW value, Patch(t, a, u, field, value)
       PROVE SessionInv'
  <2>1. th[t] = Idle /\ IsUser(u) /\ users[u] \in User
    BY <1>0, <1>13 DEF Patch, Begin, IsUser
  <2>2. th' = [th EXCEPT ![t] = [Request("guard", "patch", u) EXCEPT !.row = users[u], !.field = field,
                                    !.value = value, !.takes = Takes(field, value)]]
    BY <1>13 DEF Patch, Begin
  <2>3. th'[t].u = u /\ th'[t].row = users[u] /\ At(t, "guard")' /\ \A s \in Threads \ {t} : th'[s] = th[s]
    BY <1>0, <2>2 DEF Request, Idle, At
  <2>4. UNCHANGED <<users, cookies, changes>> /\ excused \subseteq excused'
    BY <1>13 DEF Patch
  <2>5. \A s \in Threads : Patching(s) /\ th[s].u = u => u \in excused'
    BY <1>13 DEF Patch, Patched, Patching, Idle
  <2>6. OnePatch'
    BY <2>3, <2>4, <2>5 DEF SessionInv, OnePatch, Patching
  <2>7. RowCurrent'
    BY <1>0, <2>1, <2>3, <2>4 DEF SessionInv, RowCurrent, Patching, At, IsUser
  <2>8. Issued'
    BY <2>4 DEF SessionInv, Issued, IsUser
  <2>9. Seen'
    BY <2>1, <2>3, <2>4 DEF SessionInv, Seen, IsUser, Bumping, Patching, At, Idle
  <2>. QED
    BY <2>6, <2>7, <2>8, <2>9 DEF SessionInv
<1>14. ASSUME NEW t \in Threads, WritePatch(t) PROVE SessionInv'
  <2>1. Patching(t) /\ At(t, "write") /\ ~At(t, "bump")
    BY <1>14 DEF WritePatch, Patching, At
  <2>2. UNCHANGED <<cookies, excused>>
    BY <1>14 DEF WritePatch
  <2>3. /\ \A s \in Threads \ {t} : th'[s] = th[s]
        /\ Patching(t)' => At(t, "bump")' /\ th'[t].u = th[t].u
    <3>1. CASE Goto(t, "bump")
      BY <1>0, <3>1 DEF Goto, Asked, At
    <3>2. CASE End(t)
      BY <1>0, <3>2 DEF End, Idle, Patching
    <3>. QED
      BY <1>14, <3>1, <3>2 DEF WritePatch
  <2>4. CASE ~IsUser(th[t].u)
    <3>1. UNCHANGED <<users, changes>>
      BY <1>14, <2>4 DEF WritePatch
    <3>2. OnePatch'
      BY <2>1, <2>2, <2>3 DEF SessionInv, OnePatch, Patching
    <3>3. RowCurrent'
      BY <2>1, <2>2, <2>3, <3>1 DEF SessionInv, RowCurrent, Patching, At, IsUser
    <3>4. Issued' /\ Seen'
      BY <2>1, <2>2, <2>3, <3>1 DEF SessionInv, Issued, Seen, Bumping, Patching, At, IsUser
    <3>. QED
      BY <3>2, <3>3, <3>4 DEF SessionInv
  <2>5. CASE IsUser(th[t].u)
    <3>1. /\ users'[th[t].u] \notin {None, Gone}
          /\ users'[th[t].u] \in User /\ users'[th[t].u].sv = users[th[t].u].sv
          /\ \/ /\ th[t].field = "role" /\ th[t].value \in Roles
                /\ users'[th[t].u].role = th[t].value /\ users'[th[t].u].active = users[th[t].u].active
             \/ /\ th[t].field = "active" /\ th[t].value \in BOOLEAN
                /\ users'[th[t].u].role = users[th[t].u].role /\ users'[th[t].u].active = th[t].value
      BY <1>14, <2>5, PatchWrites
    <3>2. \A v \in Accts : v # th[t].u => users'[v] = users[v] /\ changes'[v] = changes[v]
      BY <1>0, <1>14, <2>5 DEF WritePatch, Typed, Stored
    <3>3. OnePatch'
      BY <2>1, <2>2, <2>3 DEF SessionInv, OnePatch, Patching
    <3>4. RowCurrent'
      <4> SUFFICES ASSUME NEW s \in Threads, Patching(s)'
                   PROVE  /\ users'[th'[s].u] # None
                          /\ ~At(s, "bump")' /\ users'[th'[s].u] \notin {None, Gone} /\ th'[s].u \notin excused' =>
                                /\ th'[s].row.role = users'[th'[s].u].role
                                /\ th'[s].row.active = users'[th'[s].u].active
        BY DEF RowCurrent, IsUser
      <4>1. CASE s = t
        BY <2>3, <3>1, <4>1
      <4>2. CASE s # t /\ th[s].u = th[t].u
        BY <2>1, <2>2, <2>3, <3>1, <4>2 DEF SessionInv, OnePatch, Patching
      <4>3. CASE s # t /\ th[s].u # th[t].u
        BY <1>0, <2>2, <2>3, <3>2, <4>3 DEF SessionInv, RowCurrent, Patching, At, IsUser
      <4>. QED
        BY <4>1, <4>2, <4>3
    <3>5. Issued'
      BY <1>0, <2>2, <2>5, <3>1, <3>2 DEF SessionInv, Issued, IsUser
    <3>6. Seen'
      <4> SUFFICES ASSUME NEW c \in cookies, users'[c.u] \notin {None, Gone}, c.sv = users'[c.u].sv, c.u \notin excused
                   PROVE  c.at = changes'[c.u] \/ ~users'[c.u].active \/ Bumping(c.u)'
        BY <2>2 DEF Seen, IsUser
      <4>0. \A s \in Threads : Patching(s) /\ At(s, "bump") => s # t /\ Patching(s)' /\ At(s, "bump")' /\ th'[s].u = th[s].u
        BY <2>1, <2>3 DEF Patching, At
      <4>1. CASE c.u # th[t].u
        BY <1>0, <2>2, <3>2, <4>0, <4>1 DEF SessionInv, Seen, IsUser, Bumping
      <4>2. CASE c.u = th[t].u /\ AfterWrite(th[t]) = "bump"
        <5>1. Patching(t)' /\ At(t, "bump")' /\ th'[t].u = c.u
          BY <1>0, <1>14, <4>2 DEF WritePatch, Goto, Asked, Patching, At
        <5>. QED
          BY <5>1 DEF Bumping
      <4>3. CASE c.u = th[t].u /\ AfterWrite(th[t]) # "bump"
        <5>1. th[t].row[th[t].field] = th[t].value
          BY <4>3 DEF AfterWrite
        <5>2. th[t].row.role = users[c.u].role /\ th[t].row.active = users[c.u].active
          BY <2>1, <2>5, <4>3 DEF SessionInv, RowCurrent
        <5>3. users[c.u][th[t].field] = th[t].value
          BY <3>1, <5>1, <5>2
        <5>4. changes'[c.u] = changes[c.u]
          BY <1>0, <1>14, <2>5, <4>3, <5>3 DEF WritePatch, Typed, Stored
        <5>5. users'[c.u].active = users[c.u].active
          BY <3>1, <4>3, <5>3
        <5>. QED
          BY <2>5, <3>1, <4>0, <4>3, <5>4, <5>5 DEF SessionInv, Seen, Bumping
      <4>. QED
        BY <4>1, <4>2, <4>3
    <3>. QED
      BY <3>3, <3>4, <3>5, <3>6 DEF SessionInv
  <2>. QED
    BY <2>4, <2>5
<1>15. ASSUME NEW t \in Threads, NEW u \in Accts, FirstUser(t, u) PROVE SessionInv'
  BY <1>8, <1>15 DEF Roles
<1>16. ASSUME NEW t \in Threads, Requests(t) PROVE SessionInv'
  BY <1>6, <1>7, <1>8, <1>13, <1>15, <1>16 DEF Requests
<1>. QED
  BY <1>1, <1>4, <1>9, <1>10, <1>11, <1>12, <1>14, <1>16 DEF Next, Steps

LEMMA InitSession == Init => SessionInv
<1> SUFFICES ASSUME Init PROVE SessionInv
  OBVIOUS
<1>1. \A t \in Threads : ~Patching(t)
  BY DEF Init, Idle, Patching
<1>2. \A c \in cookies : c.sv = 0 /\ users[c.u] # None /\ c.at = changes[c.u]
                         /\ (IsUser(c.u) => users[c.u].sv = 0)
  <2>1. CASE cookies = {}
    BY <2>1
  <2>2. CASE /\ users \in [Accts -> {NewUser(r, "accepted") : r \in Roles}]
             /\ cookies = {[u |-> u, sv |-> 0, at |-> 0] : u \in Accts}
    <3>1. ASSUME NEW u \in Accts PROVE users[u] \in User /\ users[u].sv = 0
      <4>1. PICK r \in Roles : users[u] = NewUser(r, "accepted")
        BY <2>2
      <4>. QED
        BY <4>1 DEF NewUser, User
    <3>. QED
      BY <2>2, <3>1, AccountsAssumption DEF Init
  <2>. QED
    BY <2>1, <2>2 DEF Init
<1>. QED
  BY <1>1, <1>2 DEF SessionInv, OnePatch, RowCurrent, Issued, Seen

(* A session is accepted only while its account may do what it could when  *)
(* the session began: a patch compares with the row that it read, and as   *)
(* long as no other patch of the account comes between, the bump follows.  *)
THEOREM SessionsKept == Spec => []SessionsCurrent
<1>1. Typed /\ SessionInv => SessionsCurrent
  BY DEF SessionInv, Seen, SessionsCurrent, Accepted, Bumping, Patching, At
<1>2. Spec => []SessionInv
  BY InitSession, StepSession, SpecTyped, PTL DEF Spec
<1>. QED
  BY <1>1, <1>2, SpecTyped, PTL
-----------------------------------------------------------------------------
(* Requests *)

Principals == [role : {"viewer", "editor"}, all : BOOLEAN, projects : SUBSET Projects, active : BOOLEAN, expired : BOOLEAN]
Callers == [bearer : Principals \union {None}, failures : {0, MaxTokenFailures},
            cookie : [user : Members \union {None}, sv : {0, 1}]]
CallerInv == caller = None \/ caller \in Callers

LEMMA BearersTyped == Bearers \subseteq Principals \union {None}
<1>1. ASSUME NEW t \in Tokens PROVE t \in Principals \union {None}
  <2>1. PICK role \in {"viewer", "editor", "admin"}, all \in BOOLEAN, wanted \in SUBSET Wanted :
               t = Gate!NewToken(role, all, wanted, Projects)
    BY <1>1 DEF Tokens
  <2> DEFINE projects == IF all THEN {} ELSE wanted \intersect Projects
             kept == IF role \in {"viewer", "editor"} THEN role ELSE "viewer"
  <2>2. t = None \/ t = [role |-> kept, all |-> all, projects |-> projects, active |-> TRUE, expired |-> FALSE]
    BY <2>1 DEF Gate!NewToken
  <2>3. kept \in {"viewer", "editor"} /\ projects \in SUBSET Projects
    OBVIOUS
  <2> HIDE DEF kept, projects
  <2>4. [role |-> kept, all |-> all, projects |-> projects, active |-> TRUE, expired |-> FALSE] \in Principals
    BY <2>1, <2>3, Zenon DEF Principals
  <2>. QED
    BY <2>2, <2>4
<1>2. ASSUME NEW t \in Principals PROVE Gate!revoke_api_token(t) \in Principals /\ [t EXCEPT !.expired = TRUE] \in Principals
  BY <1>2 DEF Gate!revoke_api_token, Principals
<1>. QED
  BY <1>1, <1>2 DEF Bearers

LEMMA CallersTyped == CallerSpec => []CallerInv
<1>1. caller = None => CallerInv
  BY DEF CallerInv
<1>2. CallerInv /\ [PickPrincipal]_caller => CallerInv'
  BY BearersTyped DEF CallerInv, PickPrincipal, Callers
<1>. QED
  BY <1>1, <1>2, PTL DEF CallerSpec

\* Who a request is taken for when the gateway lets it pass: a token with the
\* rights it was created with, or an account.
LEMMA PrincipalTyped ==
    ASSUME caller \in Callers, NEW req, req.bearer = caller.bearer, req.cookie = caller.cookie,
           Gate!Authenticated(Gate!resolve_principal(req))
    PROVE  LET user == Gate!resolve_principal(req).user IN
           /\ user.role \in {"viewer", "editor", "admin"} /\ user.projects \subseteq Projects
           /\ Gate!Usable(req.bearer) /\ ~(req.failures >= MaxTokenFailures) => user.role # "admin"
<1> DEFINE token == Gate!TokenPrincipal(req.bearer, req.failures)
<1>1. CASE Gate!Usable(req.bearer) /\ ~(req.failures >= MaxTokenFailures)
  <2>1. req.bearer \in Principals
    BY <1>1 DEF Gate!Usable, Callers
  <2>2. /\ token.role = req.bearer.role /\ token.projects = req.bearer.projects /\ token.all = req.bearer.all
        /\ token = [role |-> req.bearer.role, active |-> TRUE, invite |-> None, sv |-> 0,
                    all |-> req.bearer.all, projects |-> req.bearer.projects]
    BY <1>1 DEF Gate!TokenPrincipal
  <2>3. token \in GateUsers
    BY <2>1, <2>2 DEF GateUsers, Principals
  <2>4. token # None
    BY <2>3, GateAssumption
  <2>5. Gate!resolve_principal(req).user = token
    BY <2>4 DEF Gate!resolve_principal
  <2>. QED
    BY <2>1, <2>2, <2>5 DEF Principals
<1>2. CASE ~(Gate!Usable(req.bearer) /\ ~(req.failures >= MaxTokenFailures))
  <2>1. Gate!resolve_principal(req) = req.cookie
    BY <1>2 DEF Gate!resolve_principal, Gate!TokenPrincipal
  <2>2. req.cookie.user \in GateUsers
    BY <2>1, GateAssumption DEF Gate!Authenticated, Callers
  <2>. QED
    BY <1>2, <2>1, <2>2 DEF GateUsers
<1>. QED
  BY <1>1, <1>2

\* What a path leads to is within its caller's projects.
LEMMA PathWithin ==
    ASSUME NEW user, ~Gate!_user_all_projects(user), NEW path \in Paths \ {None}, Gate!InScope(World, user, path)
    PROVE  /\ path[1] = "project" => path[2] \in user.projects
           /\ path[1] # "project" /\ path \in DOMAIN World => World[path].projects \intersect user.projects # {}
<1>1. path[1] \in Gate!PathKinds
  BY GateAssumption
<1>2. \A p \in Gate!_target_project_for_path(World, path) : p \in user.projects
  BY <1>1 DEF Gate!InScope, Gate!_user_can_access_project
<1>3. ASSUME path[1] = "project" PROVE path[2] \in user.projects
  BY <1>2, <1>3 DEF Gate!_target_project_for_path
<1>4. ASSUME path[1] # "project", path \in DOMAIN World PROVE World[path].projects \intersect user.projects # {}
  <2>1. World[path].projects # {}
    BY <1>1, <1>4, GateAssumption DEF Gate!PathKinds
  <2>2. PICK p \in World[path].projects : TRUE
    BY <2>1
  <2>3. p \in user.projects
    BY <1>2, <1>4, <2>2 DEF Gate!_target_project_for_path
  <2>. QED
    BY <2>2, <2>3
<1>. QED
  BY <1>3, <1>4

\* So is what a handler guards.
LEMMA GuardedWithin ==
    ASSUME NEW user, ~Gate!_user_all_projects(user), NEW r, Gate!Guarded(World, user, r), r \in DOMAIN World \/ r[1] = "project"
    PROVE  Gate!Belongs(World, r) \intersect user.projects # {}
<1>1. CASE r[1] = "project"
  BY <1>1 DEF Gate!Guarded, Gate!_user_can_access_project, Gate!Belongs
<1>2. CASE r[1] # "project"
  <2>1. Gate!ProjectsOf(World, r) \intersect user.projects # {}
    BY <1>2 DEF Gate!Guarded, Gate!Accessible
  <2>2. Gate!ProjectsOf(World, r) \subseteq Gate!Belongs(World, r)
    BY <1>2 DEF Gate!ProjectsOf, Gate!Belongs
  <2>. QED
    BY <2>1, <2>2
<1>. QED
  BY <1>1, <1>2

\* core/security.py: whatever the resources, projects, accounts and tokens, a
\* request that is served reaches only what belongs to a project of its caller,
\* and a token nothing that is an administrator's: a path is compared with the
\* project it leads to, which features, repositories and cycles have; what a
\* handler guards with the projects it is resolved to, which are among its own;
\* and an import is one of the feature in the path, which was compared.
THEOREM ScopesHold == CallerSpec => []ScopeHolds
<1>1. CallerInv => ScopeHolds
  <2>1. SUFFICES ASSUME caller \in Callers, NEW method \in Methods, NEW area \in Areas, NEW path \in Paths, NEW named \in Bodies
                 PROVE  Gate!ScopeHolds(World, Call(method, area, path, named))
    BY DEF CallerInv, ScopeHolds
  <2> DEFINE req == Call(method, area, path, named)
             user == Gate!resolve_principal(req).user
  <2>2. /\ req.bearer = caller.bearer /\ req.cookie = caller.cookie /\ req.failures = caller.failures
        /\ req.path = path /\ req.named = named /\ req.area = area
    BY DEF Call
  <2> HIDE DEF req
  <2>3. SUFFICES ASSUME Gate!Served(World, req), area # "public"
                 PROVE  /\ user.role = "admin" \/ user.all
                           \/ \A r \in Gate!Reached(World, req) : Gate!Belongs(World, r) \intersect user.projects # {}
                        /\ Gate!Usable(req.bearer) /\ req.failures < MaxTokenFailures => Gate!_min_role(req) # "admin"
    BY <2>2 DEF Gate!ScopeHolds, req
  <2>4. /\ Gate!Authenticated(Gate!resolve_principal(req)) /\ Gate!has_role(user.role, Gate!_min_role(req))
        /\ Gate!InScope(World, user, path)
        /\ \A r \in named : Gate!OfFeature(World, path, r) /\ (r[1] = "import" \/ Gate!Guarded(World, user, r))
    BY <2>2, <2>3 DEF Gate!Served, Gate!auth_gateway
  <2>5. /\ user.role \in {"viewer", "editor", "admin"}
        /\ Gate!Usable(req.bearer) /\ ~(req.failures >= MaxTokenFailures) => user.role # "admin"
    BY <2>1, <2>2, <2>4, PrincipalTyped
  <2> HIDE DEF user
  <2>6. ASSUME Gate!Usable(req.bearer), req.failures < MaxTokenFailures PROVE Gate!_min_role(req) # "admin"
    <3>1. req.failures \in {0, MaxTokenFailures} /\ MaxTokenFailures \in Nat
      BY <2>1, <2>2, GateAssumption DEF Callers
    <3>2. user.role \in {"viewer", "editor"}
      BY <2>5, <2>6, <3>1
    <3>3. Gate!has_role(user.role, Gate!_min_role(req))
      BY <2>4
    <3>. QED
      BY <3>2, <3>3 DEF Gate!has_role, Gate!ROLE_RANK
  <2>7. ASSUME ~(user.role = "admin" \/ user.all), NEW r \in Gate!Reached(World, req)
        PROVE  Gate!Belongs(World, r) \intersect user.projects # {}
    <3>1. ~Gate!_user_all_projects(user)
      BY <2>7 DEF Gate!_user_all_projects
    <3>2. (r \in DOMAIN World \/ r[1] = "project") /\ ~Gate!Stray(World, r) /\ (r \in named \/ (r = path /\ path # None))
      BY <2>2, <2>7 DEF Gate!Reached
    <3>3. path # None => /\ path[1] = "project" => path[2] \in user.projects
                         /\ path[1] # "project" /\ path \in DOMAIN World => World[path].projects \intersect user.projects # {}
      BY <2>1, <2>4, <3>1, PathWithin
    <3>4. CASE r \notin named
      BY <3>2, <3>3, <3>4 DEF Gate!Belongs
    <3>5. CASE r \in named /\ r[1] # "import"
      BY <2>4, <3>1, <3>2, <3>5, GuardedWithin
    <3>6. CASE r \in named /\ r[1] = "import"
      <4>1. r \in DOMAIN World /\ World[r].via = path /\ path \in DOMAIN World /\ path # None /\ path[1] = "feature"
        BY <2>4, <3>2, <3>6, GateAssumption DEF Gate!OfFeature, Gate!Stray
      <4>. QED
        BY <3>3, <3>6, <4>1 DEF Gate!Belongs
    <3>. QED
      BY <3>4, <3>5, <3>6
  <2>. QED
    BY <2>6, <2>7
<1>. QED
  BY <1>1, CallersTyped, PTL
=============================================================================
