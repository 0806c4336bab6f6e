----------------------------- MODULE MCWriting ------------------------------
(***************************************************************************)
(* Writing for TLC.  One request at a time on a library of one case, which *)
(* MCTestLibrary explores with more; and the generation for a feature of   *)
(* two operations and one of none, with models that answer to the point,   *)
(* beyond it, with an example or not at all.  Documents of every kind of   *)
(* line, and passages of words and numbers.                                *)
(***************************************************************************)
EXTENDS Writing, TLC

CONSTANTS t1, f1, c1, s1

Lists == INSTANCE SequencesExt

Line(id, apis, controls) == [id |-> id, rule |-> apis = {}, criterion |-> apis = {}, marked |-> apis = {}, story |-> FALSE,
                             tech |-> FALSE, apis |-> Lists!SetToSeq(apis), controls |-> controls, signal |-> controls # {}]
Pay == <<"POST", <<"pay">>>>
Paid == <<"GET", <<"pay", "7">>>>
Hidden == <<"DELETE", <<"pay">>>>
Technical == <<Line(1, {Pay}, {}), Line(2, {}, {}), Line(3, {Paid}, {})>>
Screens == <<Line(1, {}, {"amount"}), Line(2, {}, {})>>
MCLines == [id : {1, 2}, rule : BOOLEAN, criterion : BOOLEAN, marked : {FALSE}, story : BOOLEAN, tech : BOOLEAN,
            apis : {<<>>}, controls : {{}}, signal : {FALSE}]
MCSurfaces == {<<>>, <<Pay>>}
Words == <<"pays", "reads", "deletes", "journey", "tour", "edge", "business", "amount", "base", "20", "minutes">>
MCDocs == {[lines |-> d, text |-> d, stored |-> <<>>, tokens |-> Words] : d \in {Technical, Screens, <<>>}}
MCStem == [w \in Lists!ToSet(Words) \union {"minute", "characters", "users", "user", "days", "of"} |->
              CASE w = "minutes" -> "minute" [] w = "users" -> "user" [] OTHER -> w]

Texts(title, steps) == [title |-> title, steps |-> steps]
Test(intent, rank) == [category |-> None, method |-> None, path |-> <<>>, status |-> None, field |-> None, rule |-> None,
                       intent |-> intent, steps |-> <<intent>>, words |-> Texts({intent}, {}), hints |-> Texts({}, {}),
                       routes |-> Texts({}, {}), rank |-> rank, covers |-> {}, claims |-> {}]
Api(op, intent, status, rank) == [Test(intent, rank) EXCEPT !.method = op[1], !.path = op[2], !.status = status]
Claiming(t, unit) == [t EXCEPT !.claims = {<<"20", unit>>}]
Copied(t) == [t EXCEPT !.words.title = {"otp", "login"}]
Covering(t) == [t EXCEPT !.covers = {2}]

Pays == Api(Pay, "pays", 201, 0)
PaysTwice == Api(Pay, "pays twice", 409, 0)
PaysLate == Api(Pay, "pays late", 201, 0)
PaysAll == [Api(Pay, "pays all", 201, 0) EXCEPT !.words.title = {"pays"}]
Reads == Api(<<"GET", <<"pay", "8">>>>, "reads", 200, 2)
Deletes == Api(Hidden, "deletes", 204, 0)
Amount == [Test("amount", 1) EXCEPT !.field = "amount", !.rule = "required"]
Colour == [Test("colour", 1) EXCEPT !.field = "colour", !.rule = "required"]
Journey == Test("journey", 1)
Edge == Test("edge", 1)
Business == Test("business", 1)

MCBaseline == (Pay :> Api(Pay, "base", 201, 0)) @@ (Paid :> Api(Paid, "base", 200, 1)) @@ (Hidden :> Api(Hidden, "base", 204, 0))
MCOld == <<[test |-> [Pays EXCEPT !.category = "api_tests"], type |-> "api"],
           [test |-> [Journey EXCEPT !.category = "e2e_tests"], type |-> "e2e"]>>
MCAlike == {<<"pays", "pays all">>}

Finds(what, quote) == [what |-> what, quote |-> quote, leak |-> FALSE]
ByHand(api, ui, e2e, edge, business) ==
    ("api_tests" :> api) @@ ("ui_validations" :> ui) @@ ("e2e_tests" :> e2e) @@ ("edge_cases" :> edge) @@ ("business_tests" :> business)
Delta(add) == [remove |-> {}, add |-> add]
Keep == ByHand(Delta(<<>>), Delta(<<>>), Delta(<<>>), Delta(<<>>), Delta(<<>>))

MCReplies ==
    [call \in {"extract", "infer", "fuse", "adapt", "happy", "negative", "chaos", "ui", "journeys", "more_journeys",
               "more_business", "repair"} |->
      CASE call = "extract" -> {Failed, [apis |-> <<>>, controls |-> <<Finds("colour", "invented")>>]}
        [] call = "infer" -> {Failed, <<>>, <<Finds(Hidden, "inferred")>>}
        [] call = "fuse" -> {Failed, <<[case |-> 1, mode |-> "INHERIT_EXACT"]>>, <<[case |-> 2, mode |-> "INHERIT_ADAPTED"]>>}
        [] call = "adapt" -> {Claiming(Test("edge again", 1), "characters"), Claiming(Test("tour", 1), "minute")}
        [] call = "happy" -> {Failed, <<Pays, PaysLate, PaysAll>>, <<Deletes, Claiming(Api(Pay, "limit", 201, 0), "characters"), Copied(Reads)>>}
        [] call = "negative" -> {Failed, <<PaysTwice, Reads>>}
        [] call = "chaos" -> {<<Copied(PaysTwice)>>}
        [] call = "ui" -> {<<Amount, Colour>>}
        [] call = "journeys" -> {Failed, ByHand(<<>>, <<>>, <<Journey, Test("flight", 0)>>,
                                                <<Edge, Test("storm", 0)>>, <<Covering(Business)>>)}
        [] call = "more_journeys" -> {<<Test("second journey", 1)>>}
        [] call = "more_business" -> {<<Covering(Business)>>, <<>>}
        [] call = "repair" -> {Failed, [Keep EXCEPT !["api_tests"] = Delta(<<Covering(Deletes)>>)],
                               [Keep EXCEPT !["api_tests"] = Delta(<<Covering(Deletes)>>), !["ui_validations"] = Failed]}]

Weights(api, others) == [s \in {"api_tests", "ui_validations", "e2e_tests", "edge_cases", "business_tests"} |->
                            IF s = "api_tests" THEN api ELSE others]
MCRisky == {Pay}
MCFocuses == {Weights(20, 20), Weights(0, 20)}
=============================================================================
