------------------------------ MODULE Accounts ------------------------------
(***************************************************************************)
(* User accounts and their sessions (src/app/api/routes/auth.py and        *)
(* users.py, store/users_auth.py, core/throttle.py, app/auth.py).          *)
(*                                                                         *)
(* A request reads the account once, decides on what it read and then      *)
(* writes, each write a database operation and a step of the thread that   *)
(* serves it.  Time only passes by codes, windows and locks lapsing.       *)
(* Codes, passwords and the cookie's signature are left out: a request     *)
(* either presents the right one or it does not.                           *)
(***************************************************************************)
EXTENDS Integers, FiniteSets

CONSTANTS Accts, Local,   \* accounts; the one named "admin", which has no address
          Threads, None, Gone,
          MaxTries,       \* OTP_MAX_ATTEMPTS
          MaxIssues,      \* OTP_MAX_PER_WINDOW and RESET_CODE_MAX_PER_WINDOW
          MaxFailures,    \* AUTH_MAX_FAILURES_PER_ACCOUNT
          MaxWork         \* bound: requests begun

Roles == {"admin", "viewer"}
User == [role : Roles, active : BOOLEAN, sv : Nat, pw : BOOLEAN,
         invite : {"active", "pending", "accepted", "declined"}]
Code == [tries : Nat, live : BOOLEAN, guesses : Nat]

\* An account that is not there, or was deleted, is no account, no code none.
ASSUME AccountsAssumption ==
    /\ Local \in Accts /\ IsFiniteSet(Threads)
    /\ {MaxTries, MaxIssues, MaxFailures} \subseteq Nat \ {0} /\ MaxWork \in Nat
    /\ None # Gone /\ {None, Gone} \intersect User = {} /\ None \notin Code

VARIABLES
    users,     \* account -> None, Gone, or [role, active, invite, sv, pw]
    code,      \* <<kind, account>> -> None or [tries, live, guesses]
    issues,    \* <<kind, account>> -> codes issued in the window
    throttle,  \* <<scope, account>> -> [count, locked]
    smtp,      \* email is configured
    cookies,   \* sessions handed out: [u, sv, at]
    th,        \* thread -> the request it serves
    work,      \* requests begun
    changes,   \* history: account -> changes of what it may do
    excused    \* history: why there may be no administrator, or an old session

vars == <<users, code, issues, throttle, smtp, cookies, th, work, changes, excused>>

Kinds == {"otp", "reset"}
Scopes == Kinds \union {"login"}
Idle == [pc |-> "idle", op |-> "none", u |-> Local, row |-> None,
         field |-> "none", value |-> None, takes |-> FALSE]
Request(pc, op, u) == [Idle EXCEPT !.pc = pc, !.op = op, !.u = u]

IsUser(u) == users[u] \notin {None, Gone}
NewUser(role, invite) == [role |-> role, active |-> TRUE, invite |-> invite, sv |-> 0, pw |-> FALSE]
Unlocked == [count |-> 0, locked |-> FALSE]

NoCode == [k \in Kinds \X Accts |-> None]
FreshCode == [tries |-> 0, live |-> TRUE, guesses |-> 0]

\* A new installation, or one where every account was invited and signed in
\* and has asked for another code; that counts as a request.
Init ==
    /\ \/ /\ users = [u \in Accts |-> IF u = Local THEN NewUser("admin", "active") ELSE None]
          /\ cookies = {} /\ code = NoCode /\ work = 0
       \/ /\ users \in [Accts -> {NewUser(r, "accepted") : r \in Roles}]
          /\ users[Local].role = "admin"
          /\ cookies = {[u |-> u, sv |-> 0, at |-> 0] : u \in Accts}
          /\ code = [k \in Kinds \X Accts |-> IF k[1] = "otp" /\ k[2] # Local THEN FreshCode ELSE None]
          /\ work = 1
    /\ issues = [k \in Kinds \X Accts |-> 0]
    /\ throttle = [k \in Scopes \X Accts |-> Unlocked]
    /\ smtp \in BOOLEAN
    /\ th = [t \in Threads |-> Idle]
    /\ changes = [u \in Accts |-> 0]
    /\ excused = {}

history == <<changes, excused>>
limits == <<code, issues, throttle>>

-----------------------------------------------------------------------------
(* Sessions *)

Sign(u) == cookies' = cookies \union {[u |-> u, sv |-> users[u].sv, at |-> changes[u]]}

\* verify_session and the checks that follow it.
Accepted(c) == IsUser(c.u) /\ users[c.u].active /\ users[c.u].sv = c.sv
SignedIn(u) == \E c \in cookies : c.u = u /\ Accepted(c)

\* auth_gateway for an administrator's path.
Administers(u) == SignedIn(u) /\ users[u].role = "admin" /\ users[u].invite # "pending"

\* The thread t begins a request, or takes its next step.
Begin(t, req) == /\ th[t] = Idle /\ work < MaxWork /\ work' = work + 1
                 /\ th' = [th EXCEPT ![t] = req]
At(t, pc) == th[t].pc = pc
Goto(t, pc) == th' = [th EXCEPT ![t].pc = pc]
End(t) == th' = [th EXCEPT ![t] = Idle]

Bumped(u) == IF IsUser(u) THEN [users EXCEPT ![u].sv = @ + 1] ELSE users

Bump(t) == /\ At(t, "bump") /\ End(t) /\ users' = Bumped(th[t].u)
           /\ UNCHANGED <<limits, smtp, cookies, work, history>>

\* The account is read again for the cookie.
SignIn(t) ==
    /\ At(t, "sign") /\ End(t)
    /\ IF IsUser(th[t].u) THEN Sign(th[t].u) ELSE UNCHANGED cookies
    /\ UNCHANGED <<users, limits, smtp, work, history>>

Logout(t, u) ==
    /\ SignedIn(u) /\ Begin(t, Request("bump", "logout", u))
    /\ UNCHANGED <<users, limits, smtp, cookies, history>>

-----------------------------------------------------------------------------
(* One-time codes *)

HasRealUsers == \E u \in Accts \ {Local} : IsUser(u)

\* request_otp makes the first person to ask for a code an administrator.
FirstUser(t, u) ==
    /\ users[u] = None /\ ~HasRealUsers
    /\ Begin(t, Request("issue", "otp", u))
    /\ users' = [users EXCEPT ![u] = NewUser("admin", "active")]
    /\ UNCHANGED <<limits, smtp, cookies, history>>

RequestCode(t, kind, u) ==
    /\ IsUser(u) /\ users[u].active
    /\ IF kind = "reset" THEN smtp ELSE u # Local
    /\ Begin(t, Request("issue", kind, u))
    /\ UNCHANGED <<users, limits, smtp, cookies, history>>

\* _try_record_issue, which counts and records in one operation.
TryIssue(t) ==
    LET k == <<th[t].op, th[t].u>> IN
    /\ At(t, "issue")
    /\ IF issues[k] < MaxIssues
       THEN issues' = [issues EXCEPT ![k] = @ + 1] /\ Goto(t, "set")
       ELSE End(t) /\ UNCHANGED issues
    /\ UNCHANGED <<users, code, throttle, smtp, cookies, work, history>>

SetCode(t) ==
    /\ At(t, "set") /\ End(t)
    /\ code' = [code EXCEPT ![<<th[t].op, th[t].u>>] = FreshCode]
    /\ UNCHANGED <<users, issues, throttle, smtp, cookies, work, history>>

\* Mutant: one try too many.
TriesLeft_OneMore(c) == c.tries <= MaxTries

TriesLeft(c) == c.tries < MaxTries

\* verify_otp and reset_password up to the first write.  A code asked for too
\* often is refused without being counted.
VerifyCode(t, kind, u, right) ==
    LET k == <<kind, u>>  c == code[k]
        usable == IsUser(u) /\ users[u].active /\ c # None /\ c.live
    IN
    /\ ~throttle[k].locked
    /\ \/ /\ ~usable
          /\ Begin(t, Request("fail", kind, u)) /\ UNCHANGED code
       \/ /\ usable /\ TriesLeft(c)
          /\ Begin(t, Request(IF right THEN "succeed" ELSE "wrong", kind, u))
          /\ code' = IF right THEN code ELSE [code EXCEPT ![k].guesses = @ + 1]
    /\ UNCHANGED <<users, issues, throttle, smtp, cookies, history>>

WrongCode(t) ==
    LET k == <<th[t].op, th[t].u>> IN
    /\ At(t, "wrong") /\ Goto(t, "fail")
    /\ code' = IF code[k] = None THEN code ELSE [code EXCEPT ![k].tries = @ + 1]
    /\ UNCHANGED <<users, issues, throttle, smtp, cookies, work, history>>

\* The right code is used up, whichever is stored by now.
UseCode(t) ==
    /\ At(t, "use")
    /\ code' = [code EXCEPT ![<<th[t].op, th[t].u>>] = None]
    /\ Goto(t, IF th[t].op = "otp" THEN "sign" ELSE "password")
    /\ UNCHANGED <<users, issues, throttle, smtp, cookies, work, history>>

-----------------------------------------------------------------------------
(* Failures are counted per scope and account *)

Key(t) == <<th[t].op, th[t].u>>

\* throttle_record_failure: the count and the lock are two operations.
Fail(t) ==
    /\ At(t, "fail")
    /\ throttle' = [throttle EXCEPT ![Key(t)].count = @ + 1]
    /\ IF throttle[Key(t)].count + 1 >= MaxFailures THEN Goto(t, "lock") ELSE End(t)
    /\ UNCHANGED <<users, code, issues, smtp, cookies, work, history>>

Lock(t) ==
    /\ At(t, "lock") /\ End(t)
    /\ throttle' = [throttle EXCEPT ![Key(t)] = [count |-> 0, locked |-> TRUE]]
    /\ UNCHANGED <<users, code, issues, smtp, cookies, work, history>>

Succeed(t) ==
    /\ At(t, "succeed")
    /\ throttle' = [throttle EXCEPT ![Key(t)] = Unlocked]
    /\ Goto(t, IF th[t].op = "login" THEN "sign" ELSE "use")
    /\ UNCHANGED <<users, code, issues, smtp, cookies, work, history>>

\* Time passes: a code expires, a window of issues or failures ends.
CodeExpires(k) == /\ code[k] # None /\ code[k].live
                  /\ code' = [code EXCEPT ![k].live = FALSE]
                  /\ UNCHANGED <<users, issues, throttle, smtp, cookies, th, work, history>>
WindowEnds(k) == /\ issues[k] > 0 /\ issues' = [issues EXCEPT ![k] = 0]
                 /\ UNCHANGED <<users, code, throttle, smtp, cookies, th, work, history>>
LockEnds(k) == /\ throttle[k] # Unlocked /\ throttle' = [throttle EXCEPT ![k] = Unlocked]
               /\ UNCHANGED <<users, code, issues, smtp, cookies, th, work, history>>

-----------------------------------------------------------------------------
(* Passwords *)

\* login_password, only without email.  A deactivated account that gives the
\* right password is not counted as a failure.
LoginPassword(t, u, right) ==
    /\ ~smtp /\ ~throttle[<<"login", u>>].locked
    /\ right => IsUser(u) /\ users[u].active /\ (users[u].pw \/ u = Local)
    /\ Begin(t, Request(IF right THEN "succeed" ELSE "fail", "login", u))
    /\ UNCHANGED <<users, limits, smtp, cookies, history>>

ChangePassword(t, u) ==
    /\ SignedIn(u) /\ users[u].invite # "pending" /\ (users[u].pw \/ u = Local)
    /\ Begin(t, Request("password", "change", u))
    /\ UNCHANGED <<users, limits, smtp, cookies, history>>

\* reset_password_master and reset_password.py.
MasterReset(t, u) ==
    /\ IsUser(u) /\ users[u].active /\ users[u].role = "admin"
    /\ Begin(t, Request("password", "master", u))
    /\ UNCHANGED <<users, limits, smtp, cookies, history>>

\* set_user_password ends every session; who changed it gets a new one.
SetPassword(t) ==
    LET u == th[t].u IN
    /\ At(t, "password")
    /\ users' = IF IsUser(u) THEN [Bumped(u) EXCEPT ![u].pw = TRUE] ELSE users
    /\ IF th[t].op = "change" THEN Goto(t, "sign") ELSE End(t)
    /\ UNCHANGED <<limits, smtp, cookies, work, history>>

-----------------------------------------------------------------------------
(* Administration *)

Invite(t, a, u, role) ==
    /\ Administers(a) /\ users[u] = None /\ th[t] = Idle /\ work < MaxWork
    /\ users' = [users EXCEPT ![u] = NewUser(role, "pending")] /\ work' = work + 1
    /\ UNCHANGED <<limits, smtp, cookies, th, history>>

Accept(u) ==
    /\ SignedIn(u) /\ users[u].invite = "pending"
    /\ users' = [users EXCEPT ![u].invite = "accepted"]
    /\ UNCHANGED <<limits, smtp, cookies, th, work, history>>

\* Two requests that may each take an administrator away, and two that change
\* one account, overlap.
Leaving(t) == \E s \in Threads \ {t} : th[s].pc \in {"guard", "write"} /\ th[s].takes
Patched(u) == \E s \in Threads : th[s] # Idle /\ th[s].op = "patch" /\ th[s].u = u

\* Declining deactivates the account; nothing looks at who is left.
Decline(u) ==
    /\ SignedIn(u) /\ users[u].invite = "pending"
    /\ users' = [users EXCEPT ![u].invite = "declined", ![u].active = FALSE]
    /\ changes' = [changes EXCEPT ![u] = @ + 1]
    /\ excused' = excused \union (IF users[u].role = "admin" THEN {"declined"} ELSE {})
                         \union (IF Patched(u) THEN {u} ELSE {})
    /\ UNCHANGED <<limits, smtp, cookies, th, work>>

ActiveAdmins == {u \in Accts : IsUser(u) /\ users[u].role = "admin" /\ users[u].active}

Takes(field, value) == (field = "role" /\ value # "admin") \/ (field = "active" /\ ~value)

\* patch_user and remove_user, as far as reading the account.
Patch(t, a, u, field, value) ==
    /\ Administers(a) /\ IsUser(u)
    /\ Begin(t, [Request("guard", "patch", u) EXCEPT !.row = users[u],
                     !.field = field, !.value = value, !.takes = Takes(field, value)])
    /\ excused' = excused \union (IF Patched(u) THEN {u} ELSE {})
    /\ UNCHANGED <<users, limits, smtp, cookies, changes>>

Remove(t, a, u) ==
    /\ Administers(a) /\ IsUser(u) /\ a # u
    /\ Begin(t, [Request("guard", "remove", u) EXCEPT !.row = users[u], !.takes = TRUE])
    /\ UNCHANGED <<users, limits, smtp, cookies, history>>

\* cancel_invite does not count.
CancelInvite(t, a, u) ==
    /\ Administers(a) /\ IsUser(u) /\ users[u].invite = "pending"
    /\ Begin(t, [Request("write", "remove", u) EXCEPT !.row = users[u], !.takes = TRUE])
    /\ excused' = excused \union (IF Leaving(t) THEN {"overlap"} ELSE {})
    /\ UNCHANGED <<users, limits, smtp, cookies, changes>>

\* Mutant: the account that is being changed is not counted.
TooFew_NotZero == ActiveAdmins = {}

TooFew == Cardinality(ActiveAdmins) <= 1

\* The last active administrator may not be taken away.
GuardLast(t) ==
    /\ At(t, "guard")
    /\ IF th[t].row.role = "admin" /\ th[t].row.active /\ th[t].takes /\ TooFew
       THEN End(t) /\ UNCHANGED excused
       ELSE /\ Goto(t, "write")
            /\ excused' = excused \union
                  (IF th[t].takes /\ Leaving(t) THEN {"overlap"} ELSE {})
    /\ UNCHANGED <<users, limits, smtp, cookies, work, changes>>

\* Mutant: nobody has to sign in again after being disabled or enabled.
AfterWrite_RoleOnly(req) == IF req.field = "role" /\ req.row.role # req.value THEN "bump" ELSE "done"

\* The sessions end if the field has changed from what was read.
AfterWrite(req) == IF req.row[req.field] # req.value THEN "bump" ELSE "done"

WritePatch(t) ==
    LET u == th[t].u  f == th[t].field  v == th[t].value IN
    /\ At(t, "write") /\ th[t].op = "patch"
    /\ IF AfterWrite(th[t]) = "bump" THEN Goto(t, "bump") ELSE End(t)
    /\ IF IsUser(u) THEN /\ users' = [users EXCEPT ![u] = [@ EXCEPT ![f] = v]]
                         /\ changes' = [changes EXCEPT ![u] = IF users[u][f] # v THEN @ + 1 ELSE @]
       ELSE UNCHANGED <<users, changes>>
    /\ UNCHANGED <<limits, smtp, cookies, work, excused>>

WriteRemove(t) ==
    /\ At(t, "write") /\ th[t].op = "remove" /\ End(t)
    /\ users' = [users EXCEPT ![th[t].u] = Gone]
    /\ code' = [code EXCEPT ![<<"otp", th[t].u>>] = None, ![<<"reset", th[t].u>>] = None]
    /\ UNCHANGED <<issues, throttle, smtp, cookies, work, history>>

-----------------------------------------------------------------------------
Requests(t) == \E u \in Accts :
    \/ Logout(t, u) \/ FirstUser(t, u) \/ ChangePassword(t, u) \/ MasterReset(t, u)
    \/ \E kind \in Kinds : RequestCode(t, kind, u)
    \/ \E right \in BOOLEAN : LoginPassword(t, u, right) \/ \E k \in Kinds : VerifyCode(t, k, u, right)
    \/ \E a \in Accts :
          \/ Remove(t, a, u) \/ CancelInvite(t, a, u)
          \/ \E role \in Roles : Invite(t, a, u, role) \/ Patch(t, a, u, "role", role)
          \/ \E active \in BOOLEAN : Patch(t, a, u, "active", active)

Steps(t) ==
    \/ Bump(t) \/ SignIn(t) \/ TryIssue(t) \/ SetCode(t) \/ WrongCode(t) \/ UseCode(t)
    \/ Fail(t) \/ Lock(t) \/ Succeed(t) \/ SetPassword(t)
    \/ GuardLast(t) \/ WritePatch(t) \/ WriteRemove(t)

Lapses == \/ \E k \in Kinds \X Accts : CodeExpires(k) \/ WindowEnds(k)
          \/ \E k \in Scopes \X Accts : LockEnds(k)

Next == \/ \E t \in Threads : Requests(t) \/ Steps(t)
        \/ \E u \in Accts : Accept(u) \/ Decline(u)
        \/ Lapses

Spec == Init /\ [][Next]_vars

-----------------------------------------------------------------------------
(* Properties *)

TypeOK ==
    /\ users \in [Accts -> User \union {None, Gone}]
    /\ code \in [Kinds \X Accts -> Code \union {None}]
    /\ issues \in [Kinds \X Accts -> 0..MaxIssues]
    /\ throttle \in [Scopes \X Accts -> [count : Nat, locked : BOOLEAN]]

\* Demoting, disabling, deleting and cancelling leave an active
\* administrator, unless two such requests overlapped or an administrator
\* declined the invitation (patch_user's and remove_user's guard).
AdminRemains == {"overlap", "declined"} \intersect excused # {} \/ ActiveAdmins # {}

\* A session is accepted only while its account may do what it could when
\* the session began: a change of role, or a disabling, ends the sessions,
\* also if the account is enabled again.  Patches of one account that
\* overlap, or meet its declining, and the moment between the change and the
\* bump, are excepted.
SessionsCurrent ==
    \A c \in cookies : Accepted(c) /\ c.u \notin excused =>
        \/ c.at = changes[c.u]
        \/ \E t \in Threads : At(t, "bump") /\ th[t].op = "patch" /\ th[t].u = c.u

\* Wrong codes compared with one code exceed the limit by at most the other
\* threads that were comparing at the time.
GuessesBounded ==
    \A k \in DOMAIN code : code[k] # None =>
        code[k].guesses <= MaxTries + Cardinality(Threads) - 1
=============================================================================
