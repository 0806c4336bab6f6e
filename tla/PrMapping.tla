------------------------------ MODULE PrMapping ------------------------------
(***************************************************************************)
(* Which feature a pull request belongs to (src/app/coverage.py,           *)
(* src/app/store/features.py, src/app/jira.py), as operators over one      *)
(* project's features.                                                     *)
(*                                                                         *)
(* A feature is a record [group, version, epic, tag]; what is stored in    *)
(* the database is a function `db' from the ids that exist to such         *)
(* records.  A pull request is [keys, tags]: the issue keys in its title   *)
(* and body in order of appearance, and the match tags its text contains   *)
(* as whole words.  The chunks of the project's documents are a sequence   *)
(* of [feature, score], most similar to the pull request first; the        *)
(* chunks of a deleted feature may still be among them.                    *)
(***************************************************************************)
EXTENDS Integers, FiniteSets, Sequences, SequencesExt, FiniteSetsExt

CONSTANTS None,         \* no feature, no key, no tag
          PageLen,      \* chunks a vector search returns
          Floor,        \* PR_SEMANTIC_FLOOR
          Margin,       \* PR_SEMANTIC_MARGIN
          MaxScan,      \* SEMANTIC_FALLBACK_MAX_CHUNKS
          CountsSemantic  \* PR_SEMANTIC_COUNTS_TOWARD_COVERAGE

ASSUME MappingAssumption ==
    /\ PageLen \in Nat \ {0}
    /\ Floor \in Nat /\ Margin \in Nat /\ MaxScan \in Nat
    /\ CountsSemantic \in BOOLEAN

-----------------------------------------------------------------------------
(* Keyword tiers *)

\* The newest version among a set of features.
Latest(db, fs) == CHOOSE f \in fs : \A g \in fs : db[g].version <= db[f].version

FeatureByEpic(db, key) ==
    LET bound == {f \in DOMAIN db : db[f].epic = key}
    IN  IF key = None \/ bound = {} THEN None ELSE Latest(db, bound)

\* One feature per group that carries a tag, the newest of those that do.
FeaturesWithMatchKey(db) ==
    LET tagged == {f \in DOMAIN db : db[f].tag # None}
    IN  {Latest(db, {g \in tagged : db[g].group = db[f].group}) : f \in tagged}

\* Jira: an issue is [isEpic, parent].  The walk looks at four issues and at
\* the type of the fourth one's parent; a failed request ends it with nothing.
ParentEpic(issues, key) ==
    LET chain[i \in 0..4] ==
            IF i = 0 THEN key
            ELSE IF chain[i - 1] \in DOMAIN issues THEN issues[chain[i - 1]].parent ELSE None
        epics == {i \in 0..4 : chain[i] \in DOMAIN issues /\ issues[chain[i]].isEpic}
    IN  IF epics = {} THEN None ELSE chain[Min(epics)]

\* The features the first key that resolves leads to: directly, and through
\* the epic above it.
ByEpicKey(db, keys) ==
    LET hits == SelectSeq(keys, LAMBDA k : FeatureByEpic(db, k) # None)
    IN  IF hits = <<>> THEN None ELSE FeatureByEpic(db, Head(hits))

ByTicketKey(db, issues, keys) ==
    LET above(k) == ParentEpic(issues, k)
        hits == SelectSeq(keys, LAMBDA k : above(k) # k /\ FeatureByEpic(db, above(k)) # None)
    IN  IF hits = <<>> THEN None ELSE FeatureByEpic(db, above(Head(hits)))

ByTag(db, tags) ==
    LET hits == {f \in FeaturesWithMatchKey(db) : db[f].tag \in tags}
    IN  IF hits = {} THEN None ELSE CHOOSE f \in hits : TRUE

\* jiraOk: Jira is configured and answers.
MapPrToFeature(db, issues, jiraOk, pr) ==
    LET tiers == <<ByEpicKey(db, pr.keys),
                   IF jiraOk THEN ByTicketKey(db, issues, pr.keys) ELSE None,
                   ByTag(db, pr.tags)>>
        hits  == {i \in 1..3 : tiers[i] # None}
    IN  IF hits = {} THEN None ELSE tiers[Min(hits)]

-----------------------------------------------------------------------------
(* Semantic suggestion *)

\* $vectorSearch: where the nearest PageLen chunks of features outside
\* `exclude' are.
Nearest(chunks, exclude) ==
    LET rest == {i \in DOMAIN chunks : chunks[i].feature \notin exclude}
    IN  {i \in rest : Cardinality({j \in rest : j < i}) < PageLen}

\* The best score per feature among the chunks of a page.
BestScores(chunks, page) ==
    [f \in {chunks[i].feature : i \in page} |->
        Max({chunks[i].score : i \in {j \in page : chunks[j].feature = f}})]

VectorFeatureScores(chunks, exclude) == BestScores(chunks, Nearest(chunks, exclude))

MemoryFeatureScores(chunks) ==
    IF Len(chunks) > MaxScan THEN [f \in {} |-> 0] ELSE BestScores(chunks, DOMAIN chunks)

GroupFeatureIds(db, rows) == {f \in DOMAIN db : \E r \in rows : db[r.feature].group = db[f].group}

\* One row per group, named after the group's latest version; their order is
\* that of their scores.  Scores of features that no longer exist drop out.
LatestVersionRows(db, scores) ==
    LET live == DOMAIN scores \intersect DOMAIN db
        row(g) == [feature |-> Latest(db, {f \in DOMAIN db : db[f].group = g}),
                   score   |-> Max({scores[f] : f \in {h \in live : db[h].group = g}})]
    IN  {row(db[f].group) : f \in live}

\* Scores and those of one more search.
Both(scores, more) ==
    [f \in DOMAIN scores \union DOMAIN more |-> IF f \in DOMAIN more THEN more[f] ELSE scores[f]]

\* Mutant: the page is taken as it came; no search looks for a runner-up.
WidenNever(db, chunks, st) == [st EXCEPT !.done = TRUE]

\* One more search past the groups already seen, for want of a runner-up.
Widen(db, chunks, st) ==
    LET more == VectorFeatureScores(chunks, st.seen \union GroupFeatureIds(db, st.rows))
        all  == Both(st.scores, more)
    IN  IF st.done \/ DOMAIN st.scores = {} \/ Cardinality(st.rows) >= 2 \/ DOMAIN more = {}
        THEN [st EXCEPT !.done = TRUE]
        ELSE [scores |-> all, rows |-> LatestVersionRows(db, all),
              seen |-> st.seen \union DOMAIN more, done |-> FALSE]

\* After three searches without a runner-up the exact scan decides, as it
\* does when the index is down (searchOk) or empty.
SemanticFeatureScores(db, chunks, searchOk) ==
    LET first == VectorFeatureScores(chunks, {})
        page  == [scores |-> first, rows |-> LatestVersionRows(db, first),
                  seen |-> DOMAIN first, done |-> FALSE]
        last  == Widen(db, chunks, Widen(db, chunks, Widen(db, chunks, page)))
        exact == ~searchOk \/ DOMAIN last.scores = {} \/ (~last.done /\ Cardinality(last.rows) < 2)
    IN  IF exact THEN LatestVersionRows(db, MemoryFeatureScores(chunks)) ELSE last.rows

SemanticPrMatch(db, chunks, searchOk) ==
    LET ranked == SemanticFeatureScores(db, chunks, searchOk)
        best   == CHOOSE r \in ranked : \A other \in ranked : other.score <= r.score
    IN  IF \/ ranked = {}
           \/ best.score < Floor
           \/ \E other \in ranked \ {best} : best.score - other.score < Margin
        THEN None ELSE best.feature

\* Keyword tiers first, then a suggestion, which maps the pull request only
\* if the deployment opted in.
ResolvePrMapping(keyword, suggestion) ==
    [feature    |-> IF keyword # None THEN keyword
                    ELSE IF CountsSemantic THEN suggestion ELSE None,
     suggestion |-> IF keyword # None THEN None ELSE suggestion]

-----------------------------------------------------------------------------
(* What is promised *)

\* The scores of the chunks of a group's features, those that exist.
GroupScores(db, chunks, g) ==
    {chunks[i].score : i \in {j \in DOMAIN chunks :
        chunks[j].feature \in DOMAIN db /\ db[chunks[j].feature].group = g}}

\* A feature is suggested only if its group reaches the floor and leads every
\* other group of the project by the margin, whatever the pages of the search
\* showed (semantic_feature_scores's widening, semantic_pr_match).
LeadsClearly(db, chunks, searchOk) ==
    LET f == SemanticPrMatch(db, chunks, searchOk)
        mine == Max(GroupScores(db, chunks, db[f].group))
    IN  f # None =>
            /\ mine >= Floor
            /\ \A g \in {db[h].group : h \in DOMAIN db} \ {db[f].group} :
                  \A s \in GroupScores(db, chunks, g) : mine - s >= Margin
=============================================================================
