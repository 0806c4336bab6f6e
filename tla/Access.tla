------------------------------- MODULE Access --------------------------------
(***************************************************************************)
(* Who may do what: accounts and their sessions as requests change them,   *)
(* and what the gateway and the handlers' guards let a caller reach.  The  *)
(* gateway looks at one account and one token and changes neither, so the  *)
(* two share no state, and scene says which of them moves.                 *)
(***************************************************************************)
EXTENDS Accounts

CONSTANTS MaxTokenFailures,
          World,      \* the resources that exist
          Projects,   \* the projects that exist
          Wanted,     \* what a token is asked for
          Members,    \* accounts as the gateway sees them
          Paths,      \* resources that a path names, or None
          Bodies      \* the sets of resources that handlers guard

VARIABLES scene, caller

Gate == INSTANCE Gateway

Methods == {"GET", "POST"}
Areas == {"public", "adminRoute", "secret", "plain"}
GateUsers == [role : {"viewer", "editor", "admin"}, all : BOOLEAN, projects : SUBSET Projects,
              active : BOOLEAN, invite : {None, "pending"}, sv : Nat]

\* Features, repositories and cycles are created in a project, or given one by
\* the upgrade of old rows; a sheet is imported for a feature.  None is no
\* account and no token.
ASSUME GateAssumption ==
    /\ MaxTokenFailures \in Nat
    /\ \A r \in DOMAIN World : r[1] \in {"feature", "repo", "cycle"} => World[r].projects # {}
    /\ \A r \in DOMAIN World : r[1] = "import" => World[r].via # None /\ World[r].via[1] = "feature"
    /\ \A r \in Paths \ {None} : r[1] \in Gate!PathKinds
    /\ Members \subseteq GateUsers /\ None \notin GateUsers
    /\ None \notin [role : {"viewer", "editor"}, all : BOOLEAN, projects : SUBSET Projects, active : BOOLEAN, expired : BOOLEAN]

Tokens == {Gate!NewToken(role, all, wanted, Projects) :
              role \in {"viewer", "editor", "admin"}, all \in BOOLEAN, wanted \in SUBSET Wanted}
Bearers == Tokens \union {Gate!revoke_api_token(t) : t \in Tokens \ {None}}
                  \union {[t EXCEPT !.expired = TRUE] : t \in Tokens \ {None}}

\* A token as it was created, revoked or expired, and a session of now or of before.
PickPrincipal ==
    /\ caller = None
    /\ \E user \in Members \union {None}, sv \in {0, 1}, bearer \in Bearers, failures \in {0, MaxTokenFailures} :
          /\ bearer = None => failures = 0
          /\ caller' = [bearer |-> bearer, failures |-> failures, cookie |-> [user |-> user, sv |-> sv]]

CallerSpec == caller = None /\ [][PickPrincipal]_caller

\* While the gateway is asked, the accounts are those of a new installation.
AccessInit == scene \in {"accounts", "requests"} /\ Init /\ caller = None /\ (scene = "requests" => cookies = {} /\ ~smtp)
AccessNext == \/ scene = "accounts" /\ Next /\ UNCHANGED <<scene, caller>>
              \/ scene = "requests" /\ PickPrincipal /\ UNCHANGED <<scene, vars>>
AccessSpec == AccessInit /\ [][AccessNext]_<<scene, vars, caller>>

Call(method, area, path, named) ==
    [method |-> method, area |-> area, path |-> path, named |-> named, bearer |-> caller.bearer,
     cookie |-> caller.cookie, failures |-> caller.failures]

\* core/security.py: whatever a request names, by its path, by an id of its own
\* or in its body, belongs to a project of its caller, unless the caller has all;
\* and no token reaches what is an administrator's.
ScopeHolds ==
    caller # None =>
        \A method \in Methods, area \in Areas, path \in Paths, named \in Bodies :
            Gate!ScopeHolds(World, Call(method, area, path, named))
=============================================================================
