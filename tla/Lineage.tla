------------------------------- MODULE Lineage -------------------------------
(***************************************************************************)
(* When two test cases are the same test (src/app/testgen/lineage.py and   *)
(* the reuse of src/app/testgen/service.py).                               *)
(*                                                                         *)
(* A test is a record: category, the suite it is in; method, path and      *)
(* status; field and rule, what a UI validation is about; intent and       *)
(* steps, its texts; words, hints and routes, each [title, steps]: the     *)
(* words, the keywords of an outcome and the routes in those texts.  A     *)
(* path is a sequence of segments, of which IdSegments are numbers.        *)
(***************************************************************************)
EXTENDS Integers, Sequences, SequencesExt, FiniteSets, FiniteSetsExt

CONSTANTS None, IdSegments, Param,
          ReuseApi, ReuseGeneral    \* REUSE_SIMILARITY_*, of 100

Suites == <<"api_tests", "ui_validations", "e2e_tests", "edge_cases", "business_tests">>
TypeOf == [s \in ToSet(Suites) |->
              CASE s = "api_tests" -> "api" [] s = "ui_validations" -> "ui" [] s = "e2e_tests" -> "e2e"
                [] s = "edge_cases" -> "nfr" [] s = "business_tests" -> "functional"]
SuiteOf(type) == CHOOSE s \in ToSet(Suites) : TypeOf[s] = type

normalize_endpoint(path) == [i \in DOMAIN path |-> IF path[i] \in IdSegments THEN Param ELSE path[i]]

IsApi(t) == t.category = "api_tests" \/ t.method # None
IsUi(t) == t.category = "ui_validations" \/ t.field # None \/ t.rule # None
Counts(steps) == [s \in ToSet(steps) |-> Cardinality({i \in DOMAIN steps : steps[i] = s})]

\* What generate_test_identity_hash digests: the steps of an API test in any
\* order, of a UI validation with a subject not at all.
generate_test_identity_hash(t) ==
    IF IsApi(t) THEN <<t.method, normalize_endpoint(t.path), t.status, t.intent, Counts(t.steps)>>
    ELSE IF t.field # None \/ t.rule # None THEN <<t.field, t.rule>>
    ELSE IF IsUi(t) THEN <<t.intent, "", Counts(t.steps)>>
    ELSE <<t.intent, t.steps>>

generate_test_slug(t) ==
    IF IsApi(t) THEN <<"api", t.method, normalize_endpoint(t.path), t.intent>>
    ELSE IF t.field # None \/ t.rule # None THEN <<"ui", t.field, t.rule, t.intent>>
    ELSE IF IsUi(t) THEN <<"ui", t.intent>>
    ELSE <<"gen", t.category, t.intent>>

\* keyword_4xx_kind: the first kind of the code's list that a text hints at.
Kinds == <<"rate_limit", "unauthorized", "forbidden", "not_found", "conflict",
           "missing_field", "boundary", "invalid_input">>
keyword_4xx_kind(hints) ==
    LET found == SelectSeq(Kinds, LAMBDA k : k \in hints) IN IF found = <<>> THEN "" ELSE Head(found)

KindOfStatus == [s \in {401, 403, 404, 409, 429} |->
                    CASE s = 401 -> "unauthorized" [] s = 403 -> "forbidden" [] s = 404 -> "not_found"
                      [] s = 409 -> "conflict" [] s = 429 -> "rate_limit"]

derive_scenario_kind(t) ==
    LET hints == t.hints.title \union t.hints.steps IN
    IF t.status = None \/ t.status \in {400, 422} THEN keyword_4xx_kind(hints)
    ELSE IF t.status \in 200..299 THEN "happy_path"
    ELSE IF t.status >= 500 THEN "server_error"
    ELSE IF t.status \in DOMAIN KindOfStatus THEN KindOfStatus[t.status] ELSE ""

scenario_kinds_incompatible(a, b) == a # "" /\ b # "" /\ a # b
routes_incompatible(a, b) == a # {} /\ b # {} /\ a \intersect b = {}

\* token_set_similarity is at least bar of 100.
Similar(a, b, bar) ==
    LET both == a \intersect b  either == a \union b IN
    IF either = {} THEN TRUE ELSE Cardinality(both) * 100 >= bar * Cardinality(either)

lineage_token_set(t) == t.words.title \union t.words.steps
referenced_routes(t) == {normalize_endpoint(r) : r \in t.routes.title \union t.routes.steps}

\* What is compared of a stored case: its metadata, without its steps.
Metadata(t) == [t EXCEPT !.words.steps = {}, !.hints.steps = {}, !.routes.steps = {}]

\* candidate is [test, type], as the library keeps it.
_semantic_reuse_compatible(candidate, t, type) ==
    LET previous == Metadata(candidate.test)
        kindsAgree == ~scenario_kinds_incompatible(derive_scenario_kind(previous), derive_scenario_kind(t))
        alike(bar) == Similar(lineage_token_set(previous), lineage_token_set(t), bar)
    IN  /\ candidate.type = type
        /\ CASE type = "api" -> /\ previous.method = t.method
                                /\ normalize_endpoint(previous.path) = normalize_endpoint(t.path)
                                /\ kindsAgree /\ alike(ReuseApi)
             [] type = "ui" -> previous.field = t.field /\ previous.rule = t.rule
             [] OTHER -> /\ kindsAgree /\ ~routes_incompatible(referenced_routes(previous), referenced_routes(t))
                         /\ alike(ReuseGeneral)
=============================================================================
