----------------------------- MODULE Automation ------------------------------
(***************************************************************************)
(* Which automated tests of a test repository stand for which generated    *)
(* cases (src/app/automation.py).                                          *)
(*                                                                         *)
(* An archive is a sequence of files [path, test, big, titles]: whether    *)
(* the path is one of a test file, whether the file is over the limit, and *)
(* the titles its framework's pattern finds.  A title is [tokens, verbs,   *)
(* paths, codes], the words and the signals of HTTP in it; scores are in   *)
(* percent, rounded down.                                                  *)
(***************************************************************************)
EXTENDS Integers, Sequences, SequencesExt, FiniteSets, FiniteSetsExt

CONSTANTS None,
          MaxFiles,             \* MAX_FILES
          Threshold, FastPath,  \* jaccard_threshold, jaccard_fast_path
          TopK, BatchSize,      \* top_k, batch_size
          Sure                  \* the score from which a decision counts

-----------------------------------------------------------------------------
(* What a repository holds *)

files_from_tarball(archive) ==
    LET taken == SelectSeq(archive, LAMBDA f : f.test /\ ~f.big /\ f.titles # <<>>) IN
    SubSeq(taken, 1, Min({MaxFiles, Len(taken)}))

\* A title is listed once for a file.
extract_tests(file) ==
    FoldLeft(LAMBDA out, t : IF \E i \in DOMAIN out : out[i].title = t THEN out
                             ELSE Append(out, [path |-> file.path, title |-> t]),
             <<>>, file.titles)

Extracted(archive) ==
    FlattenSeq([i \in DOMAIN files_from_tarball(archive) |-> extract_tests(files_from_tarball(archive)[i])])

-----------------------------------------------------------------------------
(* How alike two titles are *)

_domain_signal(a, b) ==
    (IF a.verbs \intersect b.verbs # {} THEN 10 ELSE 0) + (IF a.paths \intersect b.paths # {} THEN 20 ELSE 0)
    + (IF a.codes \intersect b.codes # {} THEN 10 ELSE 0)

jaccard_score(a, b) ==
    IF a.tokens = {} \/ b.tokens = {} THEN 0
    ELSE Min({100, (100 * Cardinality(a.tokens \intersect b.tokens)) \div Cardinality(a.tokens \union b.tokens)
                   + _domain_signal(a, b)})

\* The tests that resemble a case, the most alike first.
Scored(case, scanned) ==
    LET score(k) == jaccard_score(case, scanned[k].title) IN
    SetToSortSeq({k \in DOMAIN scanned : score(k) >= Threshold},
                 LAMBDA j, k : score(j) > score(k) \/ (score(j) = score(k) /\ j < k))

Offered(case, scanned) == ToSet(SubSeq(Scored(case, scanned), 1, Min({TopK, Len(Scored(case, scanned))})))

-----------------------------------------------------------------------------
(* The match of each case: the position of a test, or None.  decisions are   *)
(* None where no model is asked, or else for each case None or [match,       *)
(* score]; broken are the batches whose call fails.                          *)

Fast(case, scanned) ==
    Scored(case, scanned) # <<>> /\ jaccard_score(case, scanned[Head(Scored(case, scanned))].title) >= FastPath

Ambiguous(cases, scanned) ==
    {i \in DOMAIN cases : Scored(cases[i], scanned) # <<>> /\ ~Fast(cases[i], scanned)}

BatchOf(i, cases, scanned) ==
    (Cardinality({j \in Ambiguous(cases, scanned) : j < i}) \div BatchSize) + 1

\* What is taken of the answer for one case of a batch.
llm_verify_batch(d, scanned) ==
    IF d # None /\ d.match \in DOMAIN scanned /\ d.score >= Sure THEN d.match ELSE None

hybrid_match_generated_to_scanned(cases, scanned, decisions, broken) ==
    [i \in DOMAIN cases |->
        IF Scored(cases[i], scanned) = <<>> THEN None
        ELSE IF Fast(cases[i], scanned) \/ decisions = None THEN Head(Scored(cases[i], scanned))
        ELSE IF BatchOf(i, cases, scanned) \in broken THEN None
        ELSE llm_verify_batch(decisions[i], scanned)]

-----------------------------------------------------------------------------
\* What is said of plain and found, the matches without and with a model.
WellMatched(plain, found, cases, scanned, decisions) ==
    LET score(i, k) == jaccard_score(cases[i], scanned[k].title) IN
    \A i \in DOMAIN cases :
        /\ plain[i] # None => \A k \in DOMAIN scanned : score(i, plain[i]) >= Max({Threshold, score(i, k)})
        /\ found[i] # None =>
              /\ plain[i] # None
              /\ found[i] # plain[i] => decisions[i].match = found[i] /\ score(i, plain[i]) < FastPath
              /\ found[i] \in Offered(cases[i], scanned) \/ decisions[i].match \notin Offered(cases[i], scanned)

\* What a match shows: the test resembles the case, and most of all; a model
\* decides between tests that do, never on the ones that are plain, and never
\* for another case; a call that fails costs the matches of its batch alone.
\* An answer may name a test that was not offered for its case (line 428 looks
\* it up among all): then only that it was named can be said.
TestsMatched(cases, scanned, decisions, broken) ==
    LET found == hybrid_match_generated_to_scanned(cases, scanned, decisions, broken)
    IN  /\ WellMatched(hybrid_match_generated_to_scanned(cases, scanned, None, {}), found, cases, scanned, decisions)
        /\ \A i \in DOMAIN cases, b \in broken : BatchOf(i, cases, scanned) # b =>
              found[i] = hybrid_match_generated_to_scanned(cases, scanned, decisions, broken \ {b})[i]
=============================================================================
