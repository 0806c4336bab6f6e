----------------------------- MODULE MCAccounts -----------------------------
(***************************************************************************)
(* Access for TLC: the local administrator and one more account; and every *)
(* caller on two projects, with resources of one, of both, of none, found  *)
(* through another, and left behind by one.                                *)
(***************************************************************************)
EXTENDS Access, TLC

Resource(projects, via) == [projects |-> projects, via |-> via]
MCWorld ==
    LET f1 == <<"feature", "f1">>  r1 == <<"repo", "r1">>  gone == <<"feature", "gone">> IN
       (f1 :> Resource({"P"}, None)) @@ (r1 :> Resource({"P"}, None))
    @@ (<<"feature", "f2">> :> Resource({"Q"}, None)) @@ (<<"cycle", "c1">> :> Resource({"Q"}, None))
    @@ (<<"case", "k1">> :> Resource({"P", "Q"}, None)) @@ (<<"case", "k2">> :> Resource({"Q"}, None))
    @@ (<<"job", "j1">> :> Resource({}, f1)) @@ (<<"pr", "p1">> :> Resource({}, r1))
    @@ (<<"run", "v1">> :> Resource({}, gone)) @@ (<<"document", "d1">> :> Resource({}, None))
    @@ (<<"import", "i1">> :> Resource({}, f1)) @@ (<<"import", "i2">> :> Resource({}, gone))

Resources == DOMAIN MCWorld \union {<<"project", "P">>, <<"project", "Q">>, <<"feature", "gone">>, <<"case", "gone">>}
MCPaths == {r \in Resources : r[1] \in {"project", "feature", "repo", "cycle"}} \union {None}
MCBodies == {{}} \union {{r} : r \in {x \in Resources : x[1] \notin {"feature", "repo"}}}
MCMembers == [role : {"viewer", "editor", "admin"}, all : BOOLEAN, projects : SUBSET {"P", "Q"},
              active : BOOLEAN, invite : {None, "pending"}, sv : {1}]

Perms == Permutations(Threads)
=============================================================================
