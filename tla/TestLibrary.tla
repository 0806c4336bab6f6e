---- MODULE TestLibrary ----
(***************************************************************************)
(* The test library: features, test cases, their shared steps and the      *)
(* associations between features and cases (store/features.py,             *)
(* store/steps_test_cases.py and the generation that fills them).  MongoDB *)
(* gives no transaction here: every request is a sequence of single-       *)
(* document operations, each an action below, interleaved with those of    *)
(* the other requests and cut anywhere by a crash.                         *)
(*                                                                         *)
(* Similarity of embeddings, identity hashes and the wording of a step are *)
(* data: whether a lookup finds something to reuse is a free choice among  *)
(* what is stored.                                                         *)
(***************************************************************************)
EXTENDS Naturals, FiniteSets

CONSTANTS
  Features,     \* feature versions, each a document of its own
  Seeded,       \* those that exist at the start
  Cases,        \* test case ids; an id is used once
  Steps,        \* test step ids; an id is used once
  Threads,      \* requests and job workers running side by side
  MaxSteps,     \* bound: steps of one case
  MaxCrashes,   \* bound: process crashes explored
  None

ASSUME LibraryAssumption ==
  /\ Seeded \subseteq Features
  /\ MaxSteps \in Nat
  /\ MaxCrashes \in Nat
  /\ None \notin Features \cup Cases \cup Steps

VARIABLES
  feature,    \* each feature: "absent", "stored" or "gone"
  case,       \* each case document, and whether it is there
  step,       \* each step: "absent", "stored" or "gone"
  assoc,      \* <<feature, case>> pairs (a unique index)
  req,        \* what each thread is doing
  crashes,    \* process crashes so far
  clash,      \* history: a deletion overlapped another request
  torn,       \* history: cases a crash left half handled
  detached    \* history: cases unlinked from the feature they came from

dataVars == <<feature, case, step, assoc>>
histVars == <<crashes, clash, torn>>
vars == <<dataVars, req, histVars, detached>>

Presence == {"absent", "stored", "gone"}
Document == [is : Presence, steps : SUBSET Steps, source : Features \cup {None}]
No(presence) == [is |-> presence, steps |-> {}, source |-> None]
Deletion == {"unlink", "delete_case", "delete_feature", "reset", "delete_step"}
Op == {"none", "generate", "create", "edit", "associate", "version"} \cup Deletion
Point == {"idle", "lookup", "steps", "insert", "link", "update", "create_version",
          "carry", "count", "drop", "drop_case", "unassoc", "unlink_all", "sweep",
          "sweep_drop", "rehome", "drop_feature", "drop_step", "scan", "purge"}

(* steps: those a case under construction has so far, or those cleanup     *)
(* found referenced.  heir: the feature a shared case is handed to.        *)
Request == [op : Op, at : Point, feat : Features \cup {None},
            case : Cases \cup {None}, steps : SUBSET Steps,
            todo : SUBSET Cases, heir : Features \cup {None}]

Idle == [op |-> "none", at |-> "idle", feat |-> None, case |-> None,
         steps |-> {}, todo |-> {}, heir |-> None]

StoredCases == {c \in Cases : case[c].is = "stored"}
StoredSteps == {s \in Steps : step[s] = "stored"}
LiveFeatures == {f \in Features : feature[f] = "stored"}
LinksOf(c) == {f \in Features : <<f, c>> \in assoc}
CasesOf(f) == {c \in Cases : <<f, c>> \in assoc}
Referenced == UNION {case[c].steps : c \in StoredCases}
Busy == {t \in Threads : req[t].at # "idle"}
Quiet == Busy = {}

TypeOK ==
  /\ feature \in [Features -> Presence]
  /\ case \in [Cases -> Document]
  /\ \A c \in StoredCases : case[c].source \in Features
  /\ step \in [Steps -> Presence]
  /\ assoc \subseteq Features \X Cases
  /\ req \in [Threads -> Request]
  /\ crashes \in 0 .. MaxCrashes
  /\ clash \in BOOLEAN
  /\ torn \subseteq Cases
  /\ detached \subseteq Cases

Init ==
  /\ feature = [f \in Features |-> IF f \in Seeded THEN "stored" ELSE "absent"]
  /\ case = [c \in Cases |-> No("absent")]
  /\ step = [s \in Steps |-> "absent"]
  /\ assoc = {}
  /\ req = [t \in Threads |-> Idle]
  /\ crashes = 0
  /\ clash = FALSE
  /\ torn = {}
  /\ detached = {}

-----------------------------------------------------------------------------
(* Requests begin, move on and end. *)

(* Every request but its reads goes through here, and `clash` notes a      *)
(* deletion that overlaps another request.                                 *)
Begin(t, r) ==
  /\ req[t] = Idle
  /\ req' = [req EXCEPT ![t] = r]
  /\ clash' = (clash \/ \E u \in Busy : r.op \in Deletion \/ req[u].op \in Deletion)
  /\ UNCHANGED <<crashes, torn>>

At(t, point) == req[t].at = point
Goto(t, point) ==
  /\ req' = [req EXCEPT ![t].at = point]
  /\ UNCHANGED histVars
End(t) ==
  /\ req' = [req EXCEPT ![t] = Idle]
  /\ UNCHANGED histVars

-----------------------------------------------------------------------------
(* Building: _persist_case of the generation pipeline, create_test_case    *)
(* and update_case of the API.                                             *)

(* A generation job starts on a feature that exists; it then persists its  *)
(* cases without looking at the feature again.                             *)
BeginGenerate(t, f) ==
  /\ f \in LiveFeatures
  /\ Begin(t, [Idle EXCEPT !.op = "generate", !.at = "lookup", !.feat = f])
  /\ UNCHANGED <<dataVars, detached>>

(* create_test_case: _require_feature_project. *)
BeginCreate(t, f) ==
  /\ f \in LiveFeatures
  /\ Begin(t, [Idle EXCEPT !.op = "create", !.at = "steps", !.feat = f])
  /\ UNCHANGED <<dataVars, detached>>

(* update_case: the editor sends back some of the steps it was shown.      *)
BeginEdit(t, c) ==
  /\ c \in StoredCases
  /\ \E kept \in SUBSET case[c].steps :
       Begin(t, [Idle EXCEPT !.op = "edit", !.at = "steps", !.case = c, !.steps = kept])
  /\ UNCHANGED <<dataVars, detached>>

(* find_case_by_identity, and the cases Fusion inherits as they are: reuse *)
(* a stored case, or build a new one.                                      *)
Lookup(t) ==
  /\ At(t, "lookup")
  /\ \/ \E c \in StoredCases :
          req' = [req EXCEPT ![t].at = "link", ![t].case = c]
     \/ req' = [req EXCEPT ![t].at = "steps"]
  /\ UNCHANGED <<dataVars, histVars, detached>>

(* get_or_create_step with something similar enough in the library.        *)
ReuseStep(t, s) ==
  /\ At(t, "steps")
  /\ Cardinality(req[t].steps) < MaxSteps
  /\ s \in StoredSteps \ req[t].steps
  /\ req' = [req EXCEPT ![t].steps = @ \cup {s}]
  /\ UNCHANGED <<dataVars, histVars, detached>>

(* get_or_create_step without. *)
NewStep(t, s) ==
  /\ At(t, "steps")
  /\ Cardinality(req[t].steps) < MaxSteps
  /\ step[s] = "absent"
  /\ step' = [step EXCEPT ![s] = "stored"]
  /\ req' = [req EXCEPT ![t].steps = @ \cup {s}]
  /\ UNCHANGED <<feature, case, assoc, histVars, detached>>

(* All steps are there.  A generated case may still turn out similar       *)
(* (find_similar_cases) to a stored one, which is then reused instead.     *)
StepsDone(t) ==
  /\ At(t, "steps")
  /\ \/ req[t].op = "edit" /\ Goto(t, "update")
     \/ req[t].op # "edit" /\ Goto(t, "insert")
     \/ /\ req[t].op = "generate"
        /\ \E c \in StoredCases :
             req' = [req EXCEPT ![t].at = "link", ![t].case = c]
        /\ UNCHANGED histVars
  /\ UNCHANGED <<dataVars, detached>>

(* create_case. *)
InsertCase(t, c) ==
  /\ At(t, "insert")
  /\ case[c].is = "absent"
  /\ case' = [case EXCEPT ![c] =
       [is |-> "stored", steps |-> req[t].steps, source |-> req[t].feat]]
  /\ req' = [req EXCEPT ![t].at = "link", ![t].case = c]
  /\ UNCHANGED <<feature, step, assoc, histVars, detached>>

(* associate: an insert that looks at neither document.  A generation goes *)
(* on with its next case.                                                  *)
Link(t) ==
  /\ At(t, "link")
  /\ assoc' = assoc \cup {<<req[t].feat, req[t].case>>}
  /\ \/ End(t)
     \/ /\ req[t].op = "generate"
        /\ req' = [req EXCEPT ![t] = [Idle EXCEPT !.op = "generate", !.at = "lookup",
                                                  !.feat = req[t].feat]]
        /\ UNCHANGED histVars
  /\ UNCHANGED <<feature, case, step, detached>>

(* update_case: no effect on a case that is gone. *)
UpdateCase(t) ==
  /\ At(t, "update")
  /\ case' = IF req[t].case \in StoredCases
               THEN [case EXCEPT ![req[t].case].steps = req[t].steps]
               ELSE case
  /\ End(t)
  /\ UNCHANGED <<feature, step, assoc, detached>>

(* The associate route: the ids come from the caller's screen. *)
BeginAssociate(t, f, c) ==
  /\ f \in LiveFeatures
  /\ c \in StoredCases
  /\ Begin(t, [Idle EXCEPT !.op = "associate", !.at = "link", !.feat = f, !.case = c])
  /\ UNCHANGED <<dataVars, detached>>

(* POST /api/steps. *)
CreateStep(s) ==
  /\ step[s] = "absent"
  /\ step' = [step EXCEPT ![s] = "stored"]
  /\ UNCHANGED <<feature, case, assoc, req, histVars, detached>>

-----------------------------------------------------------------------------
(* new_version: reads the cases of f, asks a model which to keep, creates  *)
(* the version g and associates the kept cases one by one.                 *)

BeginVersion(t, f, g) ==
  /\ f \in LiveFeatures
  /\ feature[g] = "absent"
  /\ \E kept \in SUBSET CasesOf(f) :
       Begin(t, [Idle EXCEPT !.op = "version", !.at = "create_version",
                             !.feat = g, !.todo = kept])
  /\ UNCHANGED <<dataVars, detached>>

CreateVersion(t) ==
  /\ At(t, "create_version")
  /\ feature[req[t].feat] = "absent"
  /\ feature' = [feature EXCEPT ![req[t].feat] = "stored"]
  /\ Goto(t, "carry")
  /\ UNCHANGED <<case, step, assoc, detached>>

Carry(t) ==
  /\ At(t, "carry")
  /\ \/ \E c \in req[t].todo :
          /\ assoc' = assoc \cup {<<req[t].feat, c>>}
          /\ req' = [req EXCEPT ![t].todo = @ \ {c}]
          /\ UNCHANGED histVars
     \/ req[t].todo = {} /\ End(t) /\ UNCHANGED assoc
  /\ UNCHANGED <<feature, case, step, detached>>

-----------------------------------------------------------------------------
(* Deleting. *)

DropCase(c) ==
  case' = IF c \in StoredCases THEN [case EXCEPT ![c] = No("gone")] ELSE case

(* The cases whose links to f go and that came from f. *)
Authored(f, cs) == {c \in cs \cap StoredCases : case[c].source = f}

(* unlink_case_from_feature: the association goes first. *)
BeginUnlink(t, f, c) ==
  /\ <<f, c>> \in assoc
  /\ Begin(t, [Idle EXCEPT !.op = "unlink", !.at = "count", !.case = c])
  /\ assoc' = assoc \ {<<f, c>>}
  /\ detached' = detached \cup Authored(f, {c})
  /\ UNCHANGED <<feature, case, step>>

(* Mutant: the unlinked case is dropped without counting its other links. *)
CountLinks_Skipped(t) ==
  /\ At(t, "count")
  /\ Goto(t, "drop")
  /\ UNCHANGED <<dataVars, detached>>

(* feature_count_for_case. *)
CountLinks(t) ==
  /\ At(t, "count")
  /\ IF LinksOf(req[t].case) = {} THEN Goto(t, "drop") ELSE End(t)
  /\ UNCHANGED <<dataVars, detached>>

DropUnlinked(t) ==
  /\ At(t, "drop")
  /\ DropCase(req[t].case)
  /\ Goto(t, "scan")
  /\ UNCHANGED <<feature, step, assoc, detached>>

(* delete_case: without force only a case of at most one feature. *)
BeginDeleteCase(t, c, force) ==
  /\ c \in StoredCases
  /\ force \/ Cardinality(LinksOf(c)) <= 1
  /\ Begin(t, [Idle EXCEPT !.op = "delete_case", !.at = "drop_case", !.case = c])
  /\ UNCHANGED <<dataVars, detached>>

DeleteCase(t) ==
  /\ At(t, "drop_case")
  /\ DropCase(req[t].case)
  /\ Goto(t, "unassoc")
  /\ UNCHANGED <<feature, step, assoc, detached>>

DeleteLinks(t) ==
  /\ At(t, "unassoc")
  /\ assoc' = {a \in assoc : a[2] # req[t].case}
  /\ Goto(t, "scan")
  /\ UNCHANGED <<feature, case, step, detached>>

(* delete_feature and, in "replace" mode of a new version,                 *)
(* reset_feature_content.                                                  *)
BeginClear(t, f, op) ==
  /\ f \in LiveFeatures
  /\ op \in {"delete_feature", "reset"}
  /\ Begin(t, [Idle EXCEPT !.op = op, !.at = "unlink_all", !.feat = f,
                           !.todo = CasesOf(f)])
  /\ UNCHANGED <<dataVars, detached>>

UnlinkAll(t) ==
  /\ At(t, "unlink_all")
  /\ assoc' = {a \in assoc : a[1] # req[t].feat}
  /\ detached' = IF req[t].op = "reset"
                   THEN detached \cup Authored(req[t].feat, req[t].todo)
                   ELSE detached
  /\ Goto(t, "sweep")
  /\ UNCHANGED <<feature, case, step>>

(* The next of the cases it had: drop it if nothing links it any more; if  *)
(* something does, delete_feature also reads the association that takes    *)
(* the case over.                                                          *)
SweepNext(t, c) ==
  /\ At(t, "sweep")
  /\ c \in req[t].todo
  /\ IF LinksOf(c) = {}
       THEN req' = [req EXCEPT ![t].at = "sweep_drop", ![t].case = c]
       ELSE IF req[t].op = "reset"
              THEN req' = [req EXCEPT ![t].todo = @ \ {c}]
              ELSE \E h \in LinksOf(c) :
                     req' = [req EXCEPT ![t].at = "rehome", ![t].case = c, ![t].heir = h]
  /\ UNCHANGED <<dataVars, histVars, detached>>

SweepDrop(t) ==
  /\ At(t, "sweep_drop")
  /\ DropCase(req[t].case)
  /\ req' = [req EXCEPT ![t].at = "sweep", ![t].todo = @ \ {req[t].case}]
  /\ UNCHANGED <<feature, step, assoc, histVars, detached>>

(* update_one({"_id": c, "source_feature_id": f}, ...). *)
Rehome(t) ==
  LET c == req[t].case IN
  /\ At(t, "rehome")
  /\ case' = IF c \in StoredCases /\ case[c].source = req[t].feat
               THEN [case EXCEPT ![c].source = req[t].heir]
               ELSE case
  /\ req' = [req EXCEPT ![t].at = "sweep", ![t].todo = @ \ {c}]
  /\ UNCHANGED <<feature, step, assoc, histVars, detached>>

SweepDone(t) ==
  /\ At(t, "sweep")
  /\ req[t].todo = {}
  /\ Goto(t, IF req[t].op = "reset" THEN "scan" ELSE "drop_feature")
  /\ UNCHANGED <<dataVars, detached>>

DropFeature(t) ==
  /\ At(t, "drop_feature")
  /\ feature' = [feature EXCEPT ![req[t].feat] = "gone"]
  /\ Goto(t, "scan")
  /\ UNCHANGED <<case, step, assoc, detached>>

(* Mutant: a step is deleted without counting the cases that use it. *)
BeginDeleteStep_Unchecked(t, s) ==
  /\ s \in StoredSteps
  /\ Begin(t, [Idle EXCEPT !.op = "delete_step", !.at = "drop_step", !.steps = {s}])
  /\ UNCHANGED <<dataVars, detached>>

(* delete_step: refused while a case uses the step. *)
BeginDeleteStep(t, s) ==
  /\ s \in StoredSteps \ Referenced
  /\ Begin(t, [Idle EXCEPT !.op = "delete_step", !.at = "drop_step", !.steps = {s}])
  /\ UNCHANGED <<dataVars, detached>>

RemoveSteps(gone) ==
  step' = [s \in Steps |-> IF s \in gone /\ step[s] = "stored" THEN "gone" ELSE step[s]]

DeleteStep(t) ==
  /\ At(t, "drop_step")
  /\ RemoveSteps(req[t].steps)
  /\ End(t)
  /\ UNCHANGED <<feature, case, assoc, detached>>

(* cleanup_orphaned_steps: reads which steps are referenced, then deletes  *)
(* all others.                                                             *)
Scan(t) ==
  /\ At(t, "scan")
  /\ req' = [req EXCEPT ![t].at = "purge", ![t].steps = Referenced]
  /\ UNCHANGED <<dataVars, histVars, detached>>

Purge(t) ==
  /\ At(t, "purge")
  /\ RemoveSteps(Steps \ req[t].steps)
  /\ End(t)
  /\ UNCHANGED <<feature, case, assoc, detached>>

-----------------------------------------------------------------------------
(* A crash ends every request; the cases it had half linked or half        *)
(* unlinked are torn.                                                      *)

InHand(t) ==
  CASE req[t].at \in {"sweep", "sweep_drop", "rehome"} -> req[t].todo
    [] req[t].at \in {"count", "drop", "unassoc"} -> {req[t].case}
    [] req[t].at = "link" -> Authored(req[t].feat, {req[t].case})
    [] OTHER -> {}

Crash ==
  /\ crashes < MaxCrashes
  /\ ~Quiet
  /\ crashes' = crashes + 1
  /\ torn' = torn \cup UNION {InHand(t) : t \in Busy}
  /\ req' = [t \in Threads |-> Idle]
  /\ UNCHANGED <<dataVars, clash, detached>>

-----------------------------------------------------------------------------

Build(t) ==
  \/ \E f \in Features : BeginGenerate(t, f) \/ BeginCreate(t, f)
  \/ \E c \in Cases : BeginEdit(t, c)
  \/ \E f \in Features, c \in Cases : BeginAssociate(t, f, c)
  \/ Lookup(t)
  \/ \E s \in Steps : ReuseStep(t, s) \/ NewStep(t, s)
  \/ StepsDone(t)
  \/ \E c \in Cases : InsertCase(t, c)
  \/ Link(t)
  \/ UpdateCase(t)

Versioning(t) ==
  \/ \E f, g \in Features : BeginVersion(t, f, g)
  \/ CreateVersion(t)
  \/ Carry(t)

Delete(t) ==
  \/ \E f \in Features, c \in Cases : BeginUnlink(t, f, c)
  \/ CountLinks(t)
  \/ DropUnlinked(t)
  \/ \E c \in Cases, force \in BOOLEAN : BeginDeleteCase(t, c, force)
  \/ DeleteCase(t)
  \/ DeleteLinks(t)
  \/ \E f \in Features, op \in Op : BeginClear(t, f, op)
  \/ UnlinkAll(t)
  \/ \E c \in Cases : SweepNext(t, c)
  \/ SweepDrop(t)
  \/ Rehome(t)
  \/ SweepDone(t)
  \/ DropFeature(t)
  \/ \E s \in Steps : BeginDeleteStep(t, s)
  \/ DeleteStep(t)
  \/ Scan(t)
  \/ Purge(t)

Next ==
  \/ \E t \in Threads : Build(t) \/ Versioning(t) \/ Delete(t)
  \/ \E s \in Steps : CreateStep(s)
  \/ Crash

Spec == Init /\ [][Next]_vars

-----------------------------------------------------------------------------
(* Properties.  Nothing here is transactional, so none of them survives a  *)
(* deletion that overlaps another request (clash).  What they say is that  *)
(* this is the only way to break the library: no sequence of requests, no  *)
(* overlap of requests that only build, and no crash (but for the cases it *)
(* tore) does.                                                             *)

(* A stored case never names a step that is not stored: steps are created  *)
(* before the case that names them (create_case, update_case), a step in   *)
(* use is not deleted (delete_step), and cleanup_orphaned_steps runs after *)
(* the cases went, whichever of them share steps.                          *)
StepsExist == clash \/ Referenced \subseteq StoredSteps

(* No association names a case or a feature that is gone: unlinking,       *)
(* delete_case, delete_feature and reset_feature_content remove links in   *)
(* an order that leaves none behind, and new versions carry live cases.    *)
LinksResolve ==
  ~clash /\ Quiet =>
    \A a \in assoc : a[1] \in LiveFeatures /\ a[2] \in StoredCases \cup torn

(* Every stored case belongs to some feature, so that some feature's page  *)
(* and some deletion still reaches it.                                     *)
CasesReachable ==
  ~clash /\ Quiet => \A c \in StoredCases \ torn : LinksOf(c) # {}

(* The feature a case came from exists: when it is deleted, delete_feature *)
(* hands the case to another feature that uses it, unless the case had     *)
(* been unlinked from it before.                                           *)
SourceLives ==
  ~clash /\ Quiet =>
    \A c \in StoredCases \ (torn \cup detached) : case[c].source \in LiveFeatures

(* store/features.py, store/steps_test_cases.py: the steps a case names    *)
(* exist, a link has both its ends, a case can be reached by a link, and   *)
(* the feature it is filed under exists, unless a deletion overlapped      *)
(* another request or was torn.                                            *)
LinksSound == TypeOK /\ StepsExist /\ LinksResolve /\ CasesReachable /\ SourceLives

(* "keep shared/reused cases" (delete_feature): a case goes only when no   *)
(* feature links it, or by a delete_case of its own.                       *)
SharedCasesKept ==
  [][\A c \in StoredCases :
       case'[c].is = "gone" /\ ~clash =>
         \/ LinksOf(c) = {}
         \/ \E t \in Threads : req[t].at = "drop_case" /\ req[t].case = c]_vars
====
