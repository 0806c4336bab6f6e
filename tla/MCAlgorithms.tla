---------------------------- MODULE MCAlgorithms ----------------------------
(***************************************************************************)
(* The pure parts of the program on small inputs.  A state is a problem;   *)
(* it grows by a cell, a row or a choice at a time, and each property is   *)
(* about the problems of one kind.                                         *)
(***************************************************************************)
EXTENDS Integers, Sequences, SequencesExt, FiniteSets, TLC

CONSTANTS None, MaxRows, MaxColumns

VARIABLE problem

Start == [kind |-> "start"]
Init == problem = Start

Grow(kind, empty, max, items) ==
    \/ problem = Start /\ problem' = [kind |-> kind, seq |-> empty]
    \/ /\ problem.kind = kind /\ Len(problem.seq) < max
       /\ \E x \in items : problem' = [problem EXCEPT !.seq = Append(@, x)]

-----------------------------------------------------------------------------
(* Sheets *)

SheetFields == <<"test_id", "title", "steps", "test_data", "expected_result", "status">>
FieldAliases == [f \in ToSet(SheetFields) |->
    CASE f = "test_id" -> <<"test id", "id">>
      [] f = "title" -> <<"title", "test name", "test">>
      [] f = "steps" -> <<"steps", "step", "test step">>
      [] f = "test_data" -> <<"test data">>
      [] f = "expected_result" -> <<"expected", "result">>
      [] f = "status" -> <<"status">>]
HeaderWords == [h \in {"test id", "id", "title", "test name", "test step", "steps", "test data",
                       "expected", "test status", "step id", "expected result of step"} |->
    CASE h \in {"test id", "test name", "test data"} -> {h, "test", "id"} \intersect
                    (IF h = "test id" THEN {h, "test", "id"} ELSE {h, "test"})
      [] h = "test step" -> {h, "test", "step"}
      [] h = "test status" -> {"test", "status"}
      [] h = "step id" -> {"step", "id"}
      [] h = "expected result of step" -> {"expected", "result", "step"}
      [] OTHER -> {h}]

Sheets == INSTANCE SheetParse WITH
    Fields <- SheetFields, Aliases <- FieldAliases, Words <- HeaderWords,
    Keywords <- DOMAIN HeaderWords \ {"id", "step id"}, Example <- "[example]",
    Noise <- "Given", Routes <- {"/pay"}, Documented <- "documented", HeaderRows <- 2

Cells(texts) == {<<t>> : t \in texts}

\* A header row, one cell at a time.
GrowHeader == Grow("header", <<>>, MaxColumns, Cells(DOMAIN HeaderWords) \union {<<>>})

\* A sheet with a heading, a header row and rows of three columns.
HeaderRow == <<<<"test id">>, <<"title">>, <<"test step">>>>
DataRows == {<<id, title, steps>> : id \in Cells({"1", "2"}) \union {<<>>},
                                    title \in Cells({"T", "U"}) \union {<<>>},
                                    steps \in {<<>>, <<"a">>, <<"Given", "a", "b">>, <<"/pay">>, <<"[example]">>}}
GrowSheet == Grow("sheet", <<HeaderRow>>, MaxRows, DataRows)

\* A worksheet parsed to two rows and another to one, in batches of two, with
\* the model's answers for both in either order.
Parsed(n) == [sheet |-> IF n = 3 THEN 2 ELSE 1, row |-> [number |-> n + 1, title |-> <<"T", n>>]]
Answers == [number : 2..4, drop : BOOLEAN, title : {<<>>, <<"new">>}]
GrowAnswers == Grow("answers", <<>>, 2, {<<>>} \union {<<a>> : a \in Answers}
                                     \union {<<a, b>> : a \in {x \in Answers : x.number = 3}, b \in {x \in Answers : x.number = 2}})

\* A feature and a row by their words.
Context == [name |-> {"login", "form"}, text |-> {"login", "form", "user"}, intent |-> {"login", "form", "user"},
            anchors |-> {"login"}, families |-> {"/auth"}]
SheetRow == [title : SUBSET {"login", "user", "cart"}, intent : SUBSET {"user", "pay"}, text : SUBSET {"form", "cart"},
             endpoint : {None} \union [family : {"/auth", "/cart"}, exact : BOOLEAN],
             category : SUBSET {"cart", "form"}, steps : 0..2, expected : BOOLEAN, filled : {0, 4, 7}]
PickRow == /\ problem = Start
           /\ \E r \in SheetRow : problem' = [kind |-> "row", row |-> r]

\* sheet_import.py
HeadersSound == problem.kind = "header" => Sheets!HeadersSound(problem.seq)
StepsKept == problem.kind = "sheet" => Sheets!StepsKept(problem.seq)
SignatureOfTests == problem.kind = "sheet" => Sheets!SignatureOfTests(problem.seq)
AliensStored == problem.kind = "row" => Sheets!AliensStored(problem.row, Context)
PolishOwnRows == problem.kind = "answers" /\ Len(problem.seq) = 2 =>
    \A order \in {<<1, 2>>, <<2, 1>>} :
        Sheets!PolishOwnRows([n \in 1..3 |-> Parsed(n)], <<1, 1, 2>>, problem.seq, order)

\* What a sheet is read to: its headers are claimed once, every step of it
\* stays with a test, the polish keeps to each row, what has nothing to do with
\* the feature is not matched to it, and a sheet is known again by its tests.
SheetSound == HeadersSound /\ StepsKept /\ SignatureOfTests /\ PolishOwnRows /\ AliensStored

-----------------------------------------------------------------------------
(* Changes of code *)

Diff == INSTANCE Grounding WITH
    ANY <- "ANY", Param <- "*", KeyOrder <- <<"aud", "role">>, ModuleLevel <- "module",
    Tokens <- [n \in {"aud", "role", "issue", "refresh", "module", "api/issue", "web/menu", "tests/role"} |->
                  CASE n = "tests/role" -> {"role"} [] n \in {"api/issue", "web/menu"} -> {"api"} [] OTHER -> {n}],
    MaxEvidence <- 2, MaxConsumers <- 2, SmallSuite <- 3, MinCutoff <- 1, MinFanout <- 1

Writes(keys, as) == [k \in keys |-> {as}]
Hunks == {[func |-> "issue", removed |-> Writes(old, as), added |-> Writes(new, "dict")] :
             as \in {"dict", "attr"}, old \in SUBSET {"role", "aud"}, new \in {{}, {"aud"}}}
Route(path) == [method |-> "GET", path |-> path, line |-> 1]
ChangedFile(path, kind, eps, syms, h) ==
    [path |-> path, kind |-> kind, endpoints |-> eps, symbols |-> syms, hunks |-> <<h>>]
ChangedFiles ==
    {ChangedFile("tests/role", "test", <<Route(<<"issue">>)>>, <<>>, h) : h \in Hunks} \union
    {ChangedFile("api/issue", "prod", eps, syms, h) : h \in Hunks, eps \in {<<>>, <<Route(<<"v1", "issue">>)>>},
                                                   syms \in {<<>>, <<[name |-> "refresh", line |-> 3]>>}}
Read(key, as, line) == [key |-> key, as |-> as, line |-> line, lits |-> {}, get |-> TRUE]
Other(path, kind, reads) ==
    [path |-> path, kind |-> kind, reads |-> reads, writes |-> Writes({}, "dict"),
     calls |-> <<[func |-> "issue", line |-> 9, toks |-> {}]>>]
Repo == <<Other("api/issue", "prod", <<Read("role", "dict", 1)>>),
          Other("web/menu", "prod", <<Read("role", "dict", 4), Read("aud", "attr", 5)>>),
          Other("tests/menu", "test", <<Read("role", "dict", 6)>>)>>
TestCase(id, toks, eps) == [id |-> id, toks |-> toks, eps |-> eps]
Suite == <<TestCase(1, {"role", "menu"}, <<>>),
           TestCase(2, {"refresh", "issue"}, <<[method |-> "GET", path |-> <<"*", "issue">>]>>),
           TestCase(3, {"aud"}, <<[method |-> "POST", path |-> <<"issue">>]>>),
           TestCase(4, {"refresh", "menu", "issue"}, <<>>)>>

\* Up to two changed files, in one commit or two.
GrowChange == Grow("change", <<>>, 2, ChangedFiles)

\* grounding.py, contracts.py
ChangesMatched == problem.kind = "change" =>
    \A commits \in {<<problem.seq>>, [i \in DOMAIN problem.seq |-> <<problem.seq[i]>>]} :
        (\A n \in DOMAIN commits : IsInjective([i \in DOMAIN commits[n] |-> commits[n][i].path])) =>
        Diff!MatchesGrounded(commits, Suite, Repo)

-----------------------------------------------------------------------------
(* Automated tests *)

Automated == INSTANCE Automation WITH
    MaxFiles <- 2, Threshold <- 18, FastPath <- 65, TopK <- 1, BatchSize <- 1, Sure <- 60

Title(words, verbs, codes) == [tokens |-> words, verbs |-> verbs, paths |-> {}, codes |-> codes]
Scanned == {[path |-> "t", title |-> t] :
               t \in {Title({"pay", "card"}, {}, {}), Title({"pay", "twice", "post"}, {"post"}, {}),
                     Title({"log", "in", "401"}, {}, {"401"}), Title({"cart"}, {}, {}), Title({}, {}, {})}}
Generated == <<Title({"pay", "card", "post"}, {"post"}, {}), Title({"log", "card", "401"}, {}, {"401"})>>

\* The tests of a repository.
GrowScan == Grow("scan", <<>>, 3, Scanned)

\* automation.py
TestsMatched == problem.kind = "scan" =>
    \A decisions \in [DOMAIN Generated -> {None} \union [match : 1..3, score : {50, 60}]], broken \in {{}, {2}} :
        Automated!TestsMatched(Generated, problem.seq, decisions, broken)

\* A case is tied to a change of code, or to an automated test, only by what the
\* two have in common.
MatchesGrounded == ChangesMatched /\ TestsMatched

-----------------------------------------------------------------------------
(* Verdicts on code *)

Verdicts == INSTANCE Coverage WITH
    Short <- {<<"a">>}, Threshold <- 600, Cap <- 550, Header <- 20, PerChunk <- 400, MaxChunks <- 3, Budget <- 900

Excerpt(repo, path, impl, names, size) ==
    [repo |-> repo, path |-> path, impl |-> impl, names |-> names, size |-> size]
Shown == <<Excerpt("r", <<"src", "a">>, TRUE, {"login"}, 300), Excerpt("r", <<"src", "b">>, TRUE, {"pay"}, 300),
           Excerpt("q", <<"lib", "b">>, TRUE, {"cart"}, 300), Excerpt("r", <<"spec", "a_test">>, FALSE, {"login"}, 300)>>
Cite(repo, path) == [repo |-> repo, path |-> path]
Citations == {<<>>, <<Cite("r", <<"src", "a">>)>>, <<Cite("r", <<"spec", "a_test">>)>>,
              <<Cite("r", <<"src", "a">>), Cite("r", <<"src", "made_up">>)>>,
              <<Cite(None, <<"a">>)>>, <<Cite(None, <<"b">>)>>}
Answered == [case : {1}, status : {"covered", "partial"}, cites : Citations, names : {{}, {"login"}, {"logout"}},
             conf : {None}]
            \union [case : {1, 2}, status : {"covered", "none"}, cites : {<<Cite("r", <<"src", "a">>)>>},
                    names : {{"login"}}, conf : {300, 950}]

\* Two rows of the model's answers.
GrowVerdicts == Grow("verdicts", <<>>, 2, Answered)

\* Excerpts of several lengths, as they were retrieved.
GrowExcerpts == Grow("excerpts", <<>>, MaxRows + 1, {Excerpt("r", <<"src", "a">>, TRUE, {}, n) : n \in {100, 300, 600}})

\* coverage.py: the rows as two looks at one window, as one at each of two
\* (the second of which is tried twice), or as one answer.
CoveredIffProved == problem.kind = "verdicts" =>
    LET rows == problem.seq
        one(i) == IF i \in DOMAIN rows THEN <<rows[i]>> ELSE <<>>
    IN  \A cases \in {{1}, {1, 2}}, broken \in SUBSET {1},
           replies \in {<<<<one(1), one(2)>>>>, <<<<one(1)>>, <<None, one(2)>>>>, <<<<rows>>>>} :
              Verdicts!CoveredIffProved(cases, Shown, replies, broken)

PrCoverageSound == problem.kind = "verdicts" =>
    \A testOnly \in BOOLEAN, matched \in {{}, {1, 3}}, broken \in SUBSET {1} :
        Verdicts!PrCoverageSound({1, 2}, Shown, testOnly, problem.seq, matched, broken)

ExcerptsShown == problem.kind = "excerpts" => Verdicts!ExcerptsShown(problem.seq)

\* A case counts as covered, for the feature or a pull request, only by what the
\* code shown proves, and the code retrieved is shown.
CoverageSound == CoveredIffProved /\ PrCoverageSound /\ ExcerptsShown

-----------------------------------------------------------------------------
Next == \/ GrowHeader \/ GrowSheet \/ GrowAnswers \/ PickRow
        \/ GrowChange \/ GrowVerdicts \/ GrowExcerpts
        \/ GrowScan

Spec == Init /\ [][Next]_problem
=============================================================================
