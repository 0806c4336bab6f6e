----------------------------- MODULE Generation ------------------------------
(***************************************************************************)
(* Generating the test cases of a feature from its documents with a        *)
(* language model (src/app/testgen/service.py).                            *)
(*                                                                         *)
(* A run extracts the feature's operations and controls, inherits tests of *)
(* before, lets several workers write tests, filters and trims them, and   *)
(* stores them one by one; it fails where a call fails outside a guard.    *)
(* What the model may answer to each call is Replies.  A test is one of    *)
(* Lineage with its rank (0 for the highest priority), covers (the rules   *)
(* of the documents it is about) and claims (those of Evidence).           *)
(***************************************************************************)
EXTENDS Lineage, Evidence

CONSTANTS Docs,                 \* what the feature's documents may be
          Replies,              \* call -> the answers the model may give
          Failed,               \* a call that raised, or an answer that is none
          Focuses,              \* the weights a user may have chosen
          Risky,                \* _risky_api
          Baseline,             \* operation -> the test written without a model
          Old,                  \* cases of before: [test, type]
          Legacy,               \* those of them without an identity_hash
          Alike,                \* pairs of intents whose embeddings are alike
          ApiChunk, MinKept, MinJourneys, ManyApis, BusinessMin,
          MaxRuns

VARIABLES doc, focus, pc, surface, components, suites, waiting, references, todo,
          errors,               \* the guarded calls that failed
          inherited,            \* whether a test was inherited
          library,              \* the project's cases
          links,                \* the cases of the feature
          answered,             \* history: [test, case]: a test stored in this run and the case it became
          outcome, runs

vars == <<doc, focus, pc, surface, components, suites, waiting, references, todo, errors, inherited, library, links,
          answered, outcome, runs>>
request == <<doc, focus, runs>>
evidence == <<surface, components>>
stored == <<library, links, answered>>

NoTests == [s \in ToSet(Suites) |-> <<>>]

ApiKey(t) == <<t.method, normalize_endpoint(t.path)>>
OfOperation(op) == [method |-> op[1], path |-> op[2]]

Fields == {"category", "method", "path", "status", "field", "rule", "intent", "steps", "words", "hints", "routes", "rank",
           "covers", "claims"}
IsTest(t) == t = [f \in Fields |-> t[f]] /\ t.rank \in 0..3
Tests(seq) == seq \in Seq(ToSet(seq)) /\ \A t \in ToSet(seq) : IsTest(t)
Findings(seq) == seq \in Seq(ToSet(seq)) /\ \A x \in ToSet(seq) : x.what \in DOMAIN Baseline

(* What is assumed of the constants: an answer that is no failure has the  *)
(* shape that its call asks for; whatever names an operation has a         *)
(* baseline test for it, and a path of one segment at least.               *)
GenerationAssumption ==
    /\ \A op \in DOMAIN Baseline : /\ IsTest(Baseline[op]) /\ DOMAIN op[2] # {}
                                  /\ ApiKey(Baseline[op]) = ApiKey(OfOperation(op))
    /\ \A d \in Docs : build_raw_api_spec_from_documents(d) \in Seq(DOMAIN Baseline)
    /\ \A a \in Replies["extract"] \ {Failed} : Findings(a.apis)
    /\ \A a \in Replies["infer"] \ {Failed} : Findings(a)
    /\ \A a \in Replies["adapt"] \ {Failed} : IsTest(a)
    /\ \A call \in {"happy", "negative", "chaos", "ui", "more_journeys", "more_business"} :
          \A a \in Replies[call] \ {Failed} : Tests(a)
    /\ \A a \in Replies["journeys"] \ {Failed} : \A s \in ToSet(Suites) : Tests(a[s])
    /\ \A a \in Replies["repair"] \ {Failed} : \A s \in ToSet(Suites) : a[s] # Failed => Tests(a[s].add)
    /\ Old \in Seq(ToSet(Old)) /\ \A c \in DOMAIN Old : IsTest(Old[c].test)
    /\ Legacy \subseteq DOMAIN Old
    /\ Focuses \subseteq [ToSet(Suites) -> Nat] /\ MinKept \in Nat /\ None # "empty"

Init == /\ doc \in Docs /\ focus \in Focuses /\ pc = "idle" /\ surface = <<>> /\ components = {} /\ suites = NoTests
        /\ waiting = {} /\ references = <<>> /\ todo = <<>> /\ errors = {} /\ inherited = FALSE
        /\ library = Old /\ links = {} /\ answered = {} /\ outcome = None /\ runs = 0

\* call_llm_json_with_repair: two attempts, each with one to repair what is
\* no JSON; after them the call raises.
call_llm_json_with_repair(call) == Replies[call]

Discovered(t) == \E i \in DOMAIN surface : ApiKey(t) = ApiKey(OfOperation(surface[i]))

\* With a run end the variables of its call; what it stored stays.
End(result) ==
    /\ pc' = "idle" /\ outcome' = result
    /\ surface' = <<>> /\ components' = {} /\ suites' = NoTests /\ todo' = <<>> /\ errors' = {} /\ inherited' = FALSE
    /\ answered' = {}
    /\ UNCHANGED <<request, waiting, references, library, links>>

-----------------------------------------------------------------------------
(* The evidence *)

\* The first generation of a feature, and each regeneration.
Start == /\ pc = "idle" /\ runs < MaxRuns
         /\ runs' = runs + 1
         /\ IF Len(_evidence_corpus(doc)) < ThinDoc THEN pc' = "idle" /\ outcome' = "failed"
            ELSE pc' = "extract" /\ outcome' = None
         /\ UNCHANGED <<doc, focus, evidence, suites, waiting, references, todo, errors, inherited, stored>>

Supported(items) == Where(items, LAMBDA x : _grounded_item_supported(doc, x))
Named(items) == [i \in DOMAIN items |-> items[i].what]

\* Pass 0 and pass 1.
Extract ==
    /\ pc = "extract"
    /\ \E answer \in call_llm_json_with_repair("extract") :
          IF answer = Failed THEN End("failed")
          ELSE LET spec == build_raw_api_spec_from_documents(doc)
                   found == ToSet(Named(Supported(answer.controls)))
               IN  /\ surface' = _merge_api_candidates(Named(Supported(answer.apis)), spec)
                   /\ components' = IF found # {} THEN found ELSE ToSet(_derive_ui_components(doc))
                   /\ pc' = IF spec = <<>> THEN "infer" ELSE "fuse"
                   /\ UNCHANGED <<request, suites, waiting, references, todo, errors, inherited, stored, outcome>>

\* Pass 2: what it infers is only held against the examples of the prompts.
Infer ==
    /\ pc = "infer"
    /\ \E answer \in call_llm_json_with_repair("infer") :
          IF answer = Failed THEN End("failed")
          ELSE /\ surface' = _merge_api_candidates(surface, Named(Where(answer, LAMBDA x : ~x.leak)))
               /\ pc' = "fuse"
               /\ UNCHANGED <<request, components, suites, waiting, references, todo, errors, inherited, stored, outcome>>

Verdict == _category_evidence_sufficiency(doc, surface, components)

-----------------------------------------------------------------------------
(* Storing a test *)

Filed(t, suite) == [t EXCEPT !.category = suite]
SameTest(t, c) == c \notin Legacy /\ generate_test_identity_hash(library[c].test) = generate_test_identity_hash(t)

\* Mutant: a test is not looked for before it is stored.
Twins_Unasked(t) == {}

\* find_case_by_identity: a case stored without an identity is known by its
\* slug, if no other has the identity.
Twins(t) ==
    LET same == {c \in DOMAIN library : SameTest(t, c)} IN
    IF same # {} THEN same
    ELSE {c \in Legacy : generate_test_slug(library[c].test) = generate_test_slug(t)}

\* find_similar_cases and _semantic_reuse_compatible
Reusable(t, type) == {c \in DOMAIN library : <<library[c].test.intent, t.intent>> \in Alike
                                             /\ _semantic_reuse_compatible(library[c], t, type)}

\* The case that a test becomes, a new one if there is none like it.
Home(t, type) == IF Twins(t) # {} THEN Min(Twins(t))
                 ELSE IF Reusable(t, type) # {} THEN Min(Reusable(t, type)) ELSE Len(library) + 1

_persist_case(t, type) ==
    LET filed == Filed(t, SuiteOf(type)) IN
    /\ library' = IF Home(filed, type) \in DOMAIN library THEN library ELSE Append(library, [test |-> filed, type |-> type])
    /\ links' = links \union {Home(filed, type)}

-----------------------------------------------------------------------------
(* Inheriting *)

\* What the model names is a case of the library, by its number.
Fuse ==
    /\ pc = "fuse"
    /\ \E answer \in call_llm_json_with_repair("fuse") :
          /\ errors' = IF answer = Failed THEN errors \union {"fuse"} ELSE errors
          /\ references' = IF answer = Failed THEN <<>> ELSE Where(answer, LAMBDA r : r.case \in DOMAIN library)
          /\ pc' = "inherit"
    /\ UNCHANGED <<request, evidence, suites, waiting, todo, inherited, stored, outcome>>

Backed(t) == _unsupported_numeric_claims(t.claims, doc.tokens) = {}
Original(t) == ~is_prompt_exemplar_copy(t.intent, lineage_token_set(t), doc)
Sourced(t) == _case_has_source_grounding(lineage_token_set(t), doc)

\* Mutant: the repaired test is stored as the model wrote it.
Carried_Unchecked(t) == TRUE

Carried(t) == Backed(t) /\ Original(t)

Inherit ==
    /\ pc = "inherit" /\ references # <<>>
    /\ LET r == Head(references) IN
       \/ /\ r.mode = "INHERIT_EXACT"
          /\ links' = links \union {r.case} /\ inherited' = TRUE /\ UNCHANGED <<library, answered, errors>>
       \/ /\ r.mode = "INHERIT_ADAPTED"
          /\ \E t \in call_llm_json_with_repair("adapt") :
                IF t # Failed /\ Carried(t)
                THEN _persist_case(t, library[r.case].type) /\ inherited' = TRUE /\ UNCHANGED <<answered, errors>>
                ELSE errors' = errors \union {"adapt"} /\ UNCHANGED <<library, links, answered, inherited>>
    /\ references' = Tail(references)
    /\ UNCHANGED <<request, evidence, pc, suites, waiting, todo, outcome>>

-----------------------------------------------------------------------------
(* Layer 1: workers for operations and controls, and their answers in the  *)
(* order in which they end                                                 *)

Chunks(ops) == {SubSeq(ops, i, Min({i + ApiChunk - 1, Len(ops)})) : i \in {j \in DOMAIN ops : (j - 1) % ApiChunk = 0}}

Jobs == (UNION {{<<"happy", c>>, <<"negative", c>>} : c \in Chunks(surface)})
        \union {<<"chaos", c>> : c \in {d \in {Where(c, LAMBDA op : op \in Risky) : c \in Chunks(surface)} : d # <<>>}}
        \union IF ~Verdict.ui THEN {} ELSE {<<"ui", <<>>>>} \union IF components = {} THEN {} ELSE {<<"ui", SetToSeq(components)>>}

Dispatch ==
    /\ pc = "inherit" /\ references = <<>>
    /\ waiting' = Jobs /\ pc' = "layer1"
    /\ UNCHANGED <<request, evidence, suites, references, todo, errors, inherited, stored, outcome>>

Collect(job) ==
    /\ pc = "layer1" /\ job \in waiting
    /\ \E answer \in call_llm_json_with_repair(job[1]) :
          LET suite == IF job[1] = "ui" THEN "ui_validations" ELSE "api_tests" IN
          /\ errors' = IF answer = Failed THEN errors \union {job[1]} ELSE errors
          /\ suites' = IF answer = Failed THEN suites ELSE [suites EXCEPT ![suite] = @ \o answer]
    /\ waiting' = waiting \ {job}
    /\ UNCHANGED <<request, evidence, pc, references, todo, inherited, stored, outcome>>

Ranked(tests, rank) == Where(tests, LAMBDA t : t.rank = rank)
ByRank(tests) == Ranked(tests, 0) \o Ranked(tests, 1) \o Ranked(tests, 2) \o Ranked(tests, 3)

_deduplicate(tests, suite) ==
    LET filed == [i \in DOMAIN tests |-> Filed(tests[i], suite)]
        kept == Where(filed, LAMBDA t : suite = "api_tests" => t.path # <<>>)
    IN  ByRank(Uniques(kept, generate_test_identity_hash))

\* Mutant: any operation may be tested.
_filter_api_tests_Not(tests) == tests

_filter_api_tests(tests) ==
    Where(tests, Discovered)

_filter_ui_tests(tests) ==
    Where(tests, LAMBDA t : t.field # None /\ (Written(doc, t.field) \/ t.field \in components))

\* Mutant: what no model wrote a test for stays without one.
_ensure_api_endpoint_coverage_Not(tests) == tests

_ensure_api_endpoint_coverage(tests) ==
    LET untested == Where(surface, LAMBDA op : \A i \in DOMAIN tests : ApiKey(tests[i]) # ApiKey(OfOperation(op)))
    IN  tests \o [i \in DOMAIN untested |-> Baseline[untested[i]]]

Gather ==
    /\ pc = "layer1" /\ waiting = {}
    /\ suites' = [suites EXCEPT
          !["api_tests"] = _ensure_api_endpoint_coverage(_filter_api_tests(_deduplicate(@, "api_tests"))),
          !["ui_validations"] = _filter_ui_tests(_deduplicate(@, "ui_validations"))]
    /\ pc' = "layer2"
    /\ UNCHANGED <<request, evidence, waiting, references, todo, errors, inherited, stored, outcome>>

-----------------------------------------------------------------------------
(* Layer 2: journeys, edge cases and business rules *)

\* The answer of a call that is guarded, or nothing.
Guarded(call) == {[failed |-> a = Failed, tests |-> IF a = Failed THEN <<>> ELSE a] : a \in call_llm_json_with_repair(call)}
Skipped == {[failed |-> FALSE, tests |-> <<>>]}

Layer2 ==
    /\ pc = "layer2"
    /\ \E a \in call_llm_json_with_repair("journeys") :
       LET answer == IF a = Failed THEN NoTests ELSE a
           few == Len(answer["e2e_tests"]) < MinJourneys /\ Len(surface) > ManyApis
           thin == Verdict.business /\ Len(answer["business_tests"]) < BusinessMin
       IN  \E more \in IF few THEN Guarded("more_journeys") ELSE Skipped,
              rules \in IF thin THEN Guarded("more_business") ELSE Skipped :
              /\ errors' = errors \union (IF a = Failed THEN {"journeys"} ELSE {})
                                  \union (IF more.failed THEN {"more_journeys"} ELSE {})
                                  \union (IF rules.failed THEN {"more_business"} ELSE {})
              /\ suites' = [s \in ToSet(Suites) |->
                    CASE s = "ui_validations" -> suites[s]
                      [] s = "api_tests" -> _deduplicate(suites[s], s)
                      [] s = "e2e_tests" -> _deduplicate(answer[s] \o more.tests, s)
                      [] s = "business_tests" -> _deduplicate(answer[s] \o rules.tests, s)
                      [] OTHER -> _deduplicate(answer[s], s)]
    /\ pc' = "repair"
    /\ UNCHANGED <<request, evidence, waiting, references, todo, inherited, stored, outcome>>

-----------------------------------------------------------------------------
(* Repair of the rules that no test covers *)

AllTests(by) == UNION {ToSet(by[s]) : s \in ToSet(Suites)}

\* delta is [remove, add]; a test is removed by its identity.
_apply_delta(tests, delta, suite) ==
    _deduplicate(Where(tests, LAMBDA t : generate_test_identity_hash(t) \notin delta.remove) \o delta.add, suite)

\* Suite by suite; at a delta that is none it stops, and what was done stays.
Patched(deltas) ==
    [s \in ToSet(Suites) |->
        IF \E k \in DOMAIN Suites : Suites[k] = s /\ \A i \in 1..k : deltas[Suites[i]] # Failed
        THEN _apply_delta(suites[s], deltas[s], s) ELSE suites[s]]

Repair ==
    /\ pc = "repair"
    /\ IF _requirement_gaps(doc, AllTests(suites)) = <<>> THEN UNCHANGED <<suites, errors>>
       ELSE \E deltas \in call_llm_json_with_repair("repair") :
              IF deltas = Failed THEN errors' = errors \union {"repair"} /\ UNCHANGED suites
              ELSE IF \E s \in ToSet(Suites) : deltas[s] = Failed
              THEN errors' = errors \union {"repair"} /\ suites' = Patched(deltas)
              ELSE /\ suites' = [Patched(deltas) EXCEPT !["api_tests"] =
                                   _deduplicate(_ensure_api_endpoint_coverage(_filter_api_tests(@)), "api_tests")]
                   /\ UNCHANGED errors
    /\ pc' = "guard"
    /\ UNCHANGED <<request, evidence, waiting, references, todo, inherited, stored, outcome>>

-----------------------------------------------------------------------------
(* Guards and the budget *)

\* _filter_ungrounded_claims, filter_prompt_exemplar_copies_with_reasons and
\* _filter_ungrounded_suite_cases_with_reasons
Survives(t, suite) ==
    /\ Backed(t) /\ Original(t)
    /\ suite \in {"e2e_tests", "edge_cases"} => Sourced(t)
    /\ suite = "edge_cases" => Verdict.edge

\* round(): to the even one of two neighbours.
Round(n, d) == LET q == n \div d  r == 2 * (n % d) IN IF r > d \/ (r = d /\ q % 2 = 1) THEN q + 1 ELSE q

InAll(n) == n["api_tests"] + n["ui_validations"] + n["e2e_tests"] + n["edge_cases"] + n["business_tests"]
Operations(tests) == {ApiKey(t) : t \in ToSet(tests)}

\* A suite keeps its share of all tests by its weight, MinKept at least, and
\* the API suite as many as it has operations: the first of each by priority.
_budget_suites(by) ==
    LET asked == [s \in ToSet(Suites) |-> IF focus[s] = 0 THEN <<>> ELSE by[s]]
        pool == InAll([s \in ToSet(Suites) |-> Len(asked[s])])
        weights == IF InAll(focus) = 0 THEN 100 ELSE InAll(focus)
        target(s) == Max({Round(pool * focus[s], weights), Min({Len(asked[s]), MinKept})}
                         \union IF s = "api_tests" THEN {Cardinality(Operations(asked[s]))} ELSE {})
    IN  [s \in ToSet(Suites) |-> First(asked[s], target(s))]

\* In the order in which the suites are stored.
InOrder(by) ==
    LET typed(s) == [i \in DOMAIN by[s] |-> [test |-> by[s][i], type |-> TypeOf[s]]] IN
    typed("api_tests") \o typed("ui_validations") \o typed("business_tests") \o typed("e2e_tests") \o typed("edge_cases")

Guard ==
    /\ pc = "guard"
    /\ LET kept == _budget_suites([s \in ToSet(Suites) |-> Where(suites[s], LAMBDA t : Survives(t, s))])
           order == InOrder(kept)
       IN  IF order = <<>> /\ ~inherited
           THEN End("empty")
           ELSE /\ pc' = "persist" /\ todo' = order
                /\ UNCHANGED <<request, evidence, suites, waiting, references, errors, inherited, stored, outcome>>

-----------------------------------------------------------------------------
(* Storing, one by one *)

Persist ==
    /\ pc = "persist" /\ todo # <<>>
    /\ LET t == Filed(Head(todo).test, SuiteOf(Head(todo).type))  type == Head(todo).type IN
       /\ _persist_case(t, type)
       /\ answered' = answered \union {[test |-> t, case |-> Home(t, type)]}
    /\ todo' = Tail(todo)
    /\ UNCHANGED <<request, evidence, pc, suites, waiting, references, errors, inherited, outcome>>

\* A test that is new has to be embedded; what was stored before it stays.
EmbedFails ==
    /\ pc = "persist" /\ todo # <<>> /\ Twins(Filed(Head(todo).test, SuiteOf(Head(todo).type))) = {}
    /\ End("failed")

Done ==
    /\ pc = "persist" /\ todo = <<>>
    /\ End("done")

Next == Start \/ Extract \/ Infer \/ Fuse \/ Inherit \/ Dispatch \/ (\E job \in waiting : Collect(job)) \/ Gather
        \/ Layer2 \/ Repair \/ Guard \/ Persist \/ EmbedFails \/ Done

Spec == Init /\ [][Next]_vars

-----------------------------------------------------------------------------
(* Properties *)

\* Whatever way a test takes into the library in a run, written, repaired,
\* added by a repair or adapted from an older case, it asserts no number that
\* the documents do not back and copies no example, and a journey or an edge
\* case that was not adapted has a source.
PersistedSupported ==
    /\ \A c \in DOMAIN library \ DOMAIN Old : Backed(library[c].test) /\ Original(library[c].test)
    /\ \A a \in answered : a.test.category \in {"e2e_tests", "edge_cases"} => Sourced(a.test)

\* A run stores API tests for discovered operations only, unless it reports
\* that the repair, which may add any, failed midway.
ApiTestsDiscovered ==
    "repair" \notin errors =>
    \A a \in answered : a.test.category = "api_tests" => Discovered(a.test)

\* The test that answers an API test in the feature, whichever it reuses, is
\* one of the same operation; and the library never holds a test twice, a run
\* that failed midway and its repetition included.
ReuseKeepsOperation ==
    /\ \A a \in answered : a.test.category = "api_tests" => ApiKey(library[a.case].test) = ApiKey(a.test)
    /\ \A c, d \in DOMAIN library \ DOMAIN Old : c # d => ~SameTest(library[c].test, d)

\* A run is empty only if the documents name no operation, the user asked for
\* no API tests, or every operation has tests and each of them is unsupported:
\* where the models wrote nothing a test stands for the operation anyway.
EmptyIsEarned ==
    [][outcome' = "empty" /\ outcome # "empty" /\ focus["api_tests"] # 0 /\ "repair" \notin errors =>
       /\ Operations(suites["api_tests"]) = {ApiKey(OfOperation(op)) : op \in ToSet(surface)}
       /\ \A t \in ToSet(suites["api_tests"]) : ~Survives(t, "api_tests")]_vars

\* service.py, where it trims: "never cut below one test per discovered
\* endpoint".
EndpointsKept ==
    [][pc = "guard" /\ pc' = "persist" /\ focus["api_tests"] # 0 =>
       \A t \in ToSet(suites["api_tests"]) : Survives(t, "api_tests") =>
           \E i \in DOMAIN todo' : todo'[i].type = "api" /\ ApiKey(todo'[i].test) = ApiKey(t)]_vars
=============================================================================
