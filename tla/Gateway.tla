------------------------------ MODULE Gateway -------------------------------
(***************************************************************************)
(* Who may call what (src/app/core/security.py, core/token_auth.py,        *)
(* store/api_tokens.py and api/routes/api_tokens.py).                      *)
(*                                                                         *)
(* A request is [method, area, path, named, bearer, cookie]: area is how   *)
(* the path's prefix and pattern classify it, path the resource its shape  *)
(* names, or None, and named the resources that its handler guards, by     *)
(* their own id or from the body.  A resource is a pair <<kind, id>>; the  *)
(* database w maps those that exist to [projects, via], via being the      *)
(* resource it is resolved through when it names no project itself.        *)
(***************************************************************************)
EXTENDS Integers, FiniteSets

CONSTANTS None, MaxTokenFailures   \* TOKEN_AUTH_MAX_FAILURES_PER_WINDOW

ROLE_RANK == [viewer |-> 1, editor |-> 2, admin |-> 3]
has_role(role, minimum) == ROLE_RANK[role] >= ROLE_RANK[minimum]

\* The shapes that the gateway scopes by itself.
PathKinds == {"project", "feature", "repo", "cycle"}

-----------------------------------------------------------------------------
(* API tokens *)

\* create_api_token: no token of an administrator, and a token that is not
\* for all projects names at least one that exists.  None is a refusal.
NewToken(role, allProjects, wanted, existing) ==
    LET projects == IF allProjects THEN {} ELSE wanted \intersect existing IN
    IF ~allProjects /\ projects = {} THEN None
    ELSE [role |-> IF role \in {"viewer", "editor"} THEN role ELSE "viewer",
          all |-> allProjects, projects |-> projects, active |-> TRUE, expired |-> FALSE]

revoke_api_token(token) == [token EXCEPT !.active = FALSE]

\* get_api_token_by_hash
Usable(token) == token # None /\ token.active /\ ~token.expired

\* bearer_token_principal; failures are those of the caller's address.
TokenPrincipal(bearer, failures) ==
    IF ~Usable(bearer) \/ failures >= MaxTokenFailures THEN None
    ELSE [role |-> bearer.role, active |-> TRUE, invite |-> None, sv |-> 0,
          all |-> bearer.all, projects |-> bearer.projects]

-----------------------------------------------------------------------------
(* The gateway *)

\* What a path and method ask of a role.
_min_role(req) ==
    IF req.area \in {"admin", "adminRoute"} \/ (req.area = "secret" /\ req.method # "GET") THEN "admin"
    ELSE IF req.method # "GET" THEN IF req.area = "viewerPost" THEN "viewer" ELSE "editor"
    ELSE IF req.area = "editorRead" THEN "editor" ELSE "viewer"

\* resolve_principal: the token if there is a good one, else the session.
\* A session is [user, sv], user as the store has it now.
resolve_principal(req) ==
    LET token == TokenPrincipal(req.bearer, req.failures) IN
    IF token # None THEN [user |-> token, sv |-> token.sv] ELSE req.cookie

Authenticated(p) == p.user # None /\ p.user.active /\ p.user.sv = p.sv /\ p.user.invite # "pending"

_user_all_projects(user) == user.role = "admin" \/ user.all

_user_can_access_project(user, project) == _user_all_projects(user) \/ project \in user.projects

\* The project that a path names or leads to; a resource that does not exist
\* leads nowhere, and its handler answers 404.
_target_project_for_path(w, path) ==
    IF path[1] = "project" THEN {path[2]}
    ELSE IF path \in DOMAIN w THEN w[path].projects ELSE {}

\* Mutant: test cycles are not scoped by their path.
InScope_NoCycles(w, user, path) ==
    path = None \/ path[1] \notin PathKinds \ {"cycle"}
    \/ \A p \in _target_project_for_path(w, path) : _user_can_access_project(user, p)

InScope(w, user, path) ==
    path = None \/ path[1] \notin PathKinds
    \/ \A p \in _target_project_for_path(w, path) : _user_can_access_project(user, p)

auth_gateway(w, req) ==
    \/ req.area = "public"
    \/ LET p == resolve_principal(req) IN
       /\ Authenticated(p)
       /\ has_role(p.user.role, _min_role(req))
       /\ InScope(w, p.user, req.path)

-----------------------------------------------------------------------------
(* The guards of the handlers *)

\* The project of a run, a job or a pull request that names none is that of
\* its feature or repository.  Without either nobody limited to projects has
\* access; when the latter is gone the answer is 404.
ProjectsOf(w, r) ==
    IF w[r].projects # {} \/ w[r].via = None THEN w[r].projects
    ELSE IF w[r].via \in DOMAIN w THEN w[w[r].via].projects ELSE {}

\* Any project that a test case is associated with will do; every other
\* resource has at most one.
Accessible(w, user, r) ==
    _user_all_projects(user) \/ ProjectsOf(w, r) \intersect user.projects # {}

\* Unknown test cases in a body are left to the store; anything else that is
\* missing is answered by 404.
Guarded(w, user, r) ==
    IF r[1] = "project" THEN _user_can_access_project(user, r[2])
    ELSE IF r \in DOMAIN w THEN Accessible(w, user, r) ELSE r[1] = "case"

\* A sheet import must be one of the feature in the path.
OfFeature(w, path, r) == r[1] = "import" => r \in DOMAIN w /\ w[r].via = path

Served(w, req) ==
    /\ auth_gateway(w, req)
    /\ req.area = "public"
       \/ \A r \in req.named :
             /\ OfFeature(w, req.path, r)
             /\ r[1] = "import" \/ Guarded(w, resolve_principal(req).user, r)

-----------------------------------------------------------------------------
(* What is promised *)

\* The projects a resource belongs to, whichever way.
Belongs(w, r) ==
    IF r[1] = "project" THEN {r[2]}
    ELSE IF r \notin DOMAIN w THEN {}
    ELSE w[r].projects \union
         (IF w[r].via \in DOMAIN w THEN w[w[r].via].projects ELSE {})

\* An import outlives its feature, and is then looked up under a path of none.
Stray(w, r) == r[1] = "import" /\ r \in DOMAIN w /\ w[r].via \notin DOMAIN w

\* What a request that is served gets at: what its path and handler name, as far
\* as it exists and is nobody's stray.
Reached(w, req) ==
    {r \in req.named \union ({req.path} \ {None}) : (r \in DOMAIN w \/ r[1] = "project") /\ ~Stray(w, r)}

\* Whoever is limited to projects reaches no existing resource outside them,
\* by its path, by its own id or through a body, unless a project of its own
\* shares it; and no token reaches what is an administrator's.
ScopeHolds(w, req) ==
    Served(w, req) /\ req.area # "public" =>
        LET user == resolve_principal(req).user IN
        /\ user.role = "admin" \/ user.all
           \/ \A r \in Reached(w, req) : Belongs(w, r) \intersect user.projects # {}
        /\ Usable(req.bearer) /\ req.failures < MaxTokenFailures => _min_role(req) # "admin"
=============================================================================
