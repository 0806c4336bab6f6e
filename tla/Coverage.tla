------------------------------ MODULE Coverage ------------------------------
(***************************************************************************)
(* What a model's verdicts on an implementation are worth                  *)
(* (src/app/coverage.py, src/app/workers/code_coverage_worker.py and       *)
(* src/app/store/code_coverage.py).                                        *)
(*                                                                         *)
(* The code that is shown is a sequence of excerpts [repo, path, impl,     *)
(* names, size], impl saying that the file can implement behaviour and     *)
(* names being the identifiers in it; a path is a sequence of segments.  A *)
(* reply is a sequence of rows [case, status, cites, names, conf]: what it *)
(* cites, and the identifiers its rationale claims.  Confidence is in      *)
(* thousandths.                                                            *)
(***************************************************************************)
EXTENDS Integers, Sequences, SequencesExt, FiniteSets, FiniteSetsExt

CONSTANTS None,
          Short,       \* paths of fewer than six characters
          Threshold,   \* COVERAGE_REVIEW_THRESHOLD
          Cap,         \* COVERAGE_UNVERIFIABLE_CAP
          Header,      \* characters of an excerpt's heading
          PerChunk, MaxChunks, Budget   \* characters and excerpts in one prompt

Rank == [uncovered |-> 0, partial |-> 1, covered |-> 2]
Status(rank) == CHOOSE s \in DOMAIN Rank : Rank[s] = rank
Lower(status, floor) == Status(Max({Rank[floor], Rank[status] - 1}))
BaseConfidence == [covered |-> 850, partial |-> 600, uncovered |-> 550]
Clamp(conf) == Max({0, Min({1000, conf})})

-----------------------------------------------------------------------------
(* Citations *)

\* citation_index: a file is known by repository and path; all its excerpts
\* count.
File(x) == <<x.repo, x.path>>
FilesOf(shown) == {File(x) : x \in ToSet(shown)}
NamesIn(shown, files) == UNION {x.names : x \in {y \in ToSet(shown) : File(y) \in files}}
Implements(shown, f) == \A x \in ToSet(shown) : File(x) = f => x.impl

\* resolve_citation: exactly, by path (the first shown wins), by an end of it
\* if one file has it, by the file's name if one file has it.
resolve_citation(cite, shown) ==
    LET files == FilesOf(shown)
        paths == SelectSeq(shown, LAMBDA x : x.path = cite.path)
        ends  == {f \in files : IsSuffix(cite.path, f[2]) \/ IsSuffix(f[2], cite.path)}
        named == {f \in files : Last(f[2]) = Last(cite.path)}
        only(S, how) == IF Cardinality(S) = 1 THEN <<CHOOSE f \in S : TRUE, how>> ELSE <<None, None>>
    IN  IF <<cite.repo, cite.path>> \in files THEN <<<<cite.repo, cite.path>>, "exact">>
        ELSE IF paths # <<>> THEN <<File(paths[1]), "path">>
        ELSE IF cite.path \notin Short /\ ends # {} THEN only(ends, "suffix")
        ELSE only(named, "basename")

\* Mutant: what cannot implement behaviour is taken for evidence.
Eligible_Any(shown, f) == TRUE

Eligible(shown, f) == Implements(shown, f)

\* None if there is nothing to hold against the files cited.
Support(names, files, shown) ==
    IF names = {} \/ files = {} THEN None ELSE names \intersect NamesIn(shown, files) # {}

\* The verdict once it is known which citations were found, and which of them
\* are evidence.
Judged(row, floor, found, hits, verified, support) ==
    LET rejected == DOMAIN found \ hits
        ineligible == hits \ verified
        original == IF row.status \in DOMAIN Rank THEN row.status ELSE "uncovered"
        claims == original # "uncovered"
        bare == claims /\ verified = {}
        unverifiable == claims /\ verified # {} /\ support = None
        final == IF bare THEN IF ineligible # {} THEN floor ELSE Lower(original, floor)
                 ELSE IF support = FALSE /\ original = "covered" THEN "partial" ELSE original
        given == IF row.conf = None THEN BaseConfidence[original] ELSE row.conf
        base == IF bare THEN Min({given, IF ineligible # {} THEN 200 ELSE 350})
                ELSE IF support = FALSE THEN given - 250
                ELSE IF unverifiable /\ original = "covered" THEN Min({given, Cap})
                ELSE given
        conf == Clamp(base - (IF rejected # {} THEN 150 ELSE 0)
                           - (IF ineligible # {} /\ verified # {} THEN 100 ELSE 0)
                           - (IF verified # {} /\ \A i \in verified : found[i][2] = "basename" THEN 100 ELSE 0))
        nothing == final = "uncovered" /\ DOMAIN found = {}
    IN  [status |-> final, conf |-> conf, files |-> {found[i][1] : i \in verified}, rejected |-> rejected # {},
         ineligible |-> ineligible # {},
         review |-> ~nothing /\ (conf < Threshold \/ rejected # {} \/ ineligible # {} \/ unverifiable
                                 \/ final # original)]

\* _ground_verdict, down to the status `floor'.
_ground_verdict(row, shown, floor) ==
    LET found == [i \in DOMAIN row.cites |-> resolve_citation(row.cites[i], shown)]
        hits == {i \in DOMAIN found : found[i][1] # None}
        verified == {i \in hits : Eligible(shown, found[i][1])}
    IN  Judged(row, floor, found, hits, verified, Support(row.names, {found[i][1] : i \in verified}, shown))

-----------------------------------------------------------------------------
(* What is shown of the code *)

\* window_excerpts: as many windows as it takes.
window_excerpts(shown) ==
    LET cost(x) == Min({x.size, PerChunk}) + Header + 4
        add(ws, x) == IF ws # <<>> /\ ~(Last(ws).used + cost(x) > Budget \/ Len(Last(ws).part) >= MaxChunks)
                      THEN [ws EXCEPT ![Len(ws)] = [part |-> Append(@.part, x), used |-> @.used + cost(x)]]
                      ELSE Append(ws, [part |-> <<x>>, used |-> cost(x)])
        windows == FoldLeft(add, <<>>, shown)
    IN  IF windows = <<>> THEN <<<<>>>> ELSE [i \in DOMAIN windows |-> windows[i].part]

\* _code_excerpt_block: how many excerpts of a window fit the prompt; it ends
\* at the first that is left fewer than Least characters, or of which fewer than
\* 120 would be left once it is cut (Mark is the note that says so).
Mark == 70
Least == 200
ExcerptsIn(window) ==
    LET add(st, x) ==
            LET sep == IF st.n > 0 THEN 2 ELSE 0
                room == Budget - st.used - Header - sep - 1
                body == Min({PerChunk, room})
            IN  IF st.full \/ room < Least \/ (x.size > body /\ body - Mark < 120) THEN [st EXCEPT !.full = TRUE]
                ELSE [n |-> st.n + 1, used |-> st.used + Header + 1 + Min({x.size, body}) + sep, full |-> FALSE]
    IN  FoldLeft(add, [n |-> 0, used |-> 0, full |-> FALSE], SubSeq(window, 1, Min({MaxChunks, Len(window)}))).n

-----------------------------------------------------------------------------
(* Several looks at one case *)

\* _reconcile_samples: looks at the same code, the lowest status counts.
Reconciled(statuses) == Min(statuses)

Mean(s) == FoldLeft(LAMBDA a, v : a + v.conf, 0, s) \div Len(s)

_reconcile_samples(vs) ==
    LET all == ToSet(vs)
        statuses == {Rank[v.status] : v \in all}
        same == Cardinality(statuses) = 1
        status == Status(Reconciled(statuses))
        conf == Clamp(Mean(vs) - IF same THEN 0 ELSE 150)
        files == UNION {v.files : v \in all}
        rejected == \E v \in all : v.rejected
        ineligible == \E v \in all : v.ineligible
        nothing == status = "uncovered" /\ files = {} /\ ~rejected /\ ~ineligible
    IN  IF Len(vs) = 1 THEN vs[1]
        ELSE [status |-> status, conf |-> conf, files |-> files, rejected |-> rejected, ineligible |-> ineligible,
              review |-> ~nothing /\ (~same \/ conf < Threshold \/ \E v \in all : v.review)]

\* _merge_windows: looks at different code, the best counts.
_merge_windows(vs) ==
    LET better(i, j) == \/ Rank[vs[i].status] > Rank[vs[j].status]
                        \/ vs[i].status = vs[j].status /\ vs[i].conf > vs[j].conf
                        \/ vs[i].status = vs[j].status /\ vs[i].conf = vs[j].conf /\ i <= j
        best == CHOOSE i \in DOMAIN vs : \A j \in DOMAIN vs : better(i, j)
    IN  [vs[best] EXCEPT !.files = UNION {v.files : v \in ToSet(vs)}]

\* A broken contract caps what the model says.
Capped(v, broken) == IF broken /\ v.status = "covered" THEN [v EXCEPT !.status = "partial", !.review = TRUE] ELSE v

\* The rows of one reply, or none if the call failed: the first for a case.
Rows(reply, cases) ==
    IF reply = None THEN <<>>
    ELSE FoldLeft(LAMBDA out, r : IF r.case \in cases /\ (\A x \in ToSet(out) : x.case # r.case)
                                  THEN Append(out, r) ELSE out, <<>>, reply)

\* review_code_coverage.  replies[w][a] answers the a-th look at window w; an
\* answer may mention a case it was not asked about, and once every case is
\* covered no window is left to look at.  A case in `broken', that a broken
\* contract touches, is not covered whatever the model says.
RowsFor(case, looks, cases) ==
    FlattenSeq([a \in DOMAIN looks |-> SelectSeq(Rows(looks[a], cases), LAMBDA r : r.case = case)])

\* What the looks at one window say of a case, if anything.
Verdicts(rows, shown) ==
    IF rows = <<>> THEN <<>>
    ELSE <<_reconcile_samples([i \in DOMAIN rows |-> _ground_verdict(rows[i], shown, "uncovered")])>>

AllCovered(got, cases) == \A d \in cases : \E v \in ToSet(got[d]) : v.status = "covered"

Collected(cases, shown, replies) ==
    LET windows == [w \in DOMAIN replies |-> [c \in cases |-> Verdicts(RowsFor(c, replies[w], cases), shown)]]
    IN  FoldLeft(LAMBDA got, window : IF AllCovered(got, cases) THEN got ELSE [c \in cases |-> got[c] \o window[c]],
                 [c \in cases |-> <<>>], windows)

review_code_coverage(cases, shown, replies, broken) ==
    LET got == Collected(cases, shown, replies)
        verdict(c) ==
            IF got[c] = <<>> THEN [status |-> "uncovered", conf |-> 500, files |-> {}, rejected |-> FALSE,
                                   ineligible |-> FALSE, review |-> shown = <<>>]
            ELSE Capped(_merge_windows(got[c]), c \in broken)
    IN  [c \in cases |-> verdict(c)]

-----------------------------------------------------------------------------
(* Pull requests *)

\* verify_pr_implementation: the diff is what was shown, and what the reply
\* mentions is at least partial.
verify_pr_implementation(cases, diff, reply, broken) ==
    LET rows == Rows(reply, cases)
        raised(r) == [r EXCEPT !.status = IF @ = "covered" THEN @ ELSE "partial"]
        verdict(r) == Capped(_ground_verdict(raised(r), diff, "partial"), r.case \in broken)
    IN  [c \in {r.case : r \in ToSet(rows)} |-> verdict(CHOOSE r \in ToSet(rows) : r.case = c)]

Touched(v, matched) ==
    [c \in DOMAIN v \union matched |-> IF c \in DOMAIN v /\ v[c].status = "covered" THEN "covered" ELSE "partial"]

\* _pr_coverage: matched are the cases that the diff touches (Grounding).
\* Only the model's verdict makes a case covered; production code is what a
\* pull request of tests alone has not.
_pr_coverage(cases, diff, testOnly, reply, matched, broken) ==
    IF testOnly THEN [c \in {} |-> "covered"]
    ELSE IF diff = <<>> THEN [c \in matched \intersect cases |-> "partial"]
    ELSE Touched(verify_pr_implementation(cases, diff, reply, broken), matched \intersect cases)

\* feature_coverage_report over [coverage, excluded] of the pull requests that
\* are mapped to the feature; partly covered cases count.
feature_coverage_report(cases, prs) ==
    LET counted == (UNION {DOMAIN pr.coverage : pr \in {p \in ToSet(prs) : ~p.excluded}}) \intersect cases
    IN  [covered |-> Cardinality(counted), total |-> Cardinality(cases),
         pct |-> IF cases = {} THEN 0 ELSE (100 * Cardinality(counted)) \div Cardinality(cases)]

\* diff_runs: what a pull request newly covers, and covers no longer.
diff_runs(before, now) == [newly |-> DOMAIN now \ DOMAIN before, gone |-> DOMAIN before \ DOMAIN now]

\* diff_versions: which test cases a new version of a document keeps.
diff_versions(cases, keep, retire) ==
    IF None \in {keep, retire} THEN [keep |-> cases, retire |-> {}]
    ELSE [keep |-> (keep \intersect cases) \union (cases \ retire), retire |-> retire \intersect cases]

-----------------------------------------------------------------------------
(* What is promised *)

\* A row that proves a case: it says so and cites a shown file that can
\* implement it and holds one of the identifiers it names, if it names any.
Proves(row, shown) ==
    LET files == {f \in {resolve_citation(row.cites[i], shown)[1] : i \in DOMAIN row.cites} \ {None} : Implements(shown, f)}
    IN  /\ row.status = "covered" /\ files # {}
        /\ row.names = {} \/ row.names \intersect NamesIn(shown, files) # {}

\* A case is covered exactly if no broken contract touches it and in some
\* window every answer that mentions it proves it; if it is not flagged, those
\* answers cite nothing else and name what they prove it by.  Unless it is
\* covered in one window, a case is partial or not whatever the other windows
\* hold (review_code_coverage).
CoveredIffProved(cases, shown, replies, broken) ==
    LET out == review_code_coverage(cases, shown, replies, broken)
        rows(w, c) == {r \in UNION {ToSet(Rows(replies[w][a], cases)) : a \in DOMAIN replies[w]} : r.case = c}
        proved(w, c) == rows(w, c) # {} /\ \A r \in rows(w, c) : Proves(r, shown)
        sound(w, c) == \A r \in rows(w, c) :
            r.names # {} /\ \A i \in DOMAIN r.cites : resolve_citation(r.cites[i], shown)[1] # None
    IN  \A c \in cases :
        /\ out[c].status = "covered" <=> c \notin broken /\ \E w \in DOMAIN replies : proved(w, c)
        /\ out[c].status = "covered" /\ ~out[c].review => \E w \in DOMAIN replies : proved(w, c) /\ sound(w, c)
        /\ c \in broken /\ (\E w \in DOMAIN replies : proved(w, c)) => out[c].review

\* A pull request covers a case only by a proof in its own diff, and none of
\* tests alone covers any; a case it touches is at least partial; and what a
\* feature's report counts is one of its test cases and covered by a pull
\* request that is not excluded (_pr_coverage, feature_coverage_report).
PrCoverageSound(cases, diff, testOnly, reply, matched, broken) ==
    LET out == _pr_coverage(cases, diff, testOnly, reply, matched, broken)
        report(excluded) == feature_coverage_report(cases, <<[coverage |-> out, excluded |-> excluded]>>)
    IN  /\ \A c \in DOMAIN out : out[c] = "covered" =>
              ~testOnly /\ c \notin broken /\ \E r \in ToSet(Rows(reply, cases)) : r.case = c /\ Proves(r, diff)
        /\ ~testOnly => matched \intersect cases \subseteq DOMAIN out
        /\ report(TRUE).covered = 0 /\ report(FALSE).covered = Cardinality(DOMAIN out)

\* Every retrieved excerpt has its window, and a window shows all of its
\* excerpts if none is so short that the prompt does not make room for it.
ExcerptsShown(shown) ==
    LET windows == window_excerpts(shown) IN
    /\ FlattenSeq(windows) = shown
    /\ \A w \in ToSet(windows) : (\A x \in ToSet(w) : x.size >= Least) => ExcerptsIn(w) = Len(w)
=============================================================================
