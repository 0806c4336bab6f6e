------------------------------ MODULE Evidence -------------------------------
(***************************************************************************)
(* What a feature's documents say, as generation reads them                *)
(* (src/app/extract.py, build_unified_context of                           *)
(* src/app/store/features.py, src/app/testgen/service.py and               *)
(* src/app/testgen/prompt_builder.py).                                     *)
(*                                                                         *)
(* A document is a sequence of lines [id, rule, criterion, marked, story,  *)
(* tech, apis, controls, signal]: what the patterns of the code find in a  *)
(* line, apis the operations and controls the labels of interactive        *)
(* elements written in it.                                                 *)
(***************************************************************************)
EXTENDS Integers, Sequences, SequencesExt, FiniteSets, FiniteSetsExt, Selection

CONSTANTS PrdLimit,     \* prd_limit, in lines
          MaxRules,     \* requirement lines of the business context
          ThinDoc,      \* evidence_length, in lines
          MaxGaps, MaxComponents,
          Numbers, Stem,        \* the tokens that are numbers; _stem of a word
          Exemplars, ExemplarWords  \* of the prompts' examples: their titles and their own words

First(s, n) == SubSeq(s, 1, Min({n, Len(s)}))
Flat(s, f(_)) == FlattenSeq([i \in DOMAIN s |-> f(s[i])])
\* The first of what is the same by key(_).
Uniques(s, key(_)) == UniqueBy(s, [i \in DOMAIN s |-> key(s[i])])
Whole(x) == x

-----------------------------------------------------------------------------
(* Chunks *)

chunk(text, max, overlap) ==
    LET step == max - overlap IN
    IF Len(text) <= max THEN IF text = <<>> THEN <<>> ELSE <<text>>
    ELSE [k \in 1..((Len(text) + step - 1) \div step) |-> First(SubSeq(text, (k - 1) * step + 1, Len(text)), max)]

\* Whatever fits into the overlap of chunk() is found whole in one of them,
\* wherever the document is cut: a rule is never indexed only in halves.
ChunksWhole(n, max, overlap) ==
    LET chunks == chunk([i \in 1..n |-> i], max, overlap) IN
    \A from \in 1..n : \A to \in from..Min({n, from + overlap - 1}) :
        \E k \in DOMAIN chunks : from..to \subseteq ToSet(chunks[k])

-----------------------------------------------------------------------------
(* The unified context *)

extract_requirement_lines(lines, max) == First(Uniques(Where(lines, LAMBDA l : l.rule), LAMBDA l : l.id), max)
extract_api_endpoints(lines, max) == First(Uniques(Flat(lines, LAMBDA l : l.apis), Whole), max)
extract_technical_lines(lines, max) == First(Where(lines, LAMBDA l : l.tech), max)

extract_business_context(lines) ==
    [userStories |-> Where(lines, LAMBDA l : l.story),
     acceptanceCriteria |-> Where(lines, LAMBDA l : l.criterion),
     requirements |-> extract_requirement_lines(lines, MaxRules)]

\* doc is [lines, text, stored, tokens]: all the lines that were indexed, those
\* of the feature's own text, the operations kept as its raw_api_spec, and the
\* words and numbers of it all, in order.
build_unified_context(doc) ==
    LET prd == First(doc.text, PrdLimit) IN
    [summary |-> prd, business |-> extract_business_context(prd),
     endpoints |-> extract_api_endpoints(prd, 25), technical |-> extract_technical_lines(prd, 25),
     spec |-> doc.stored]

_evidence_corpus(doc) == build_unified_context(doc).summary \o doc.lines

\* build_raw_api_spec_from_documents, then _parse_raw_api_spec: what was kept
\* with the feature, or else what its chunks say.
build_raw_api_spec_from_documents(doc) ==
    IF doc.stored # <<>> THEN doc.stored
    ELSE extract_api_endpoints(_evidence_corpus(doc), Len(doc.lines) * 4)

-----------------------------------------------------------------------------
(* Pass 1 and pass 2: a model's finding is [what, quote, leak], quote being  *)
(* "text" for words of the documents, "spec", "inferred", "invented" or "".  *)

Written(doc, what) ==
    \E i \in DOMAIN _evidence_corpus(doc) :
        what \in ToSet(_evidence_corpus(doc)[i].apis) \union _evidence_corpus(doc)[i].controls

\* filter_hallucinated_entities and _grounded_item_supported
_grounded_item_supported(doc, item) ==
    /\ ~item.leak /\ item.quote \notin {"", "inferred"}
    /\ item.quote \in {"spec", "text"} \/ Written(doc, item.what)

_merge_api_candidates(first, second) == Uniques(first \o second, Whole)

_derive_ui_components(doc) ==
    First(Uniques(Flat(doc.text, LAMBDA l : SetToSeq(l.controls)), Whole), MaxComponents)

-----------------------------------------------------------------------------
(* What a generated test may say.  Its claims are the <<number, word after   *)
(* it>> of the sentences that state a rule, its words those of its texts.    *)

\* Mutant: only what comes before a number says what it counts.
Near_Before(tokens, i) == SubSeq(tokens, Max({1, i - 2}), i - 1)

\* Two tokens to either side.
Near(tokens, i) == SubSeq(tokens, Max({1, i - 2}), i - 1) \o SubSeq(tokens, i + 1, Min({Len(tokens), i + 2}))

_number_claim_supported(number, qualifier, tokens) ==
    \E i \in DOMAIN tokens : /\ tokens[i] = number
                             /\ \E w \in ToSet(Near(tokens, i)) \ Numbers : Stem[w] = Stem[qualifier]

_unsupported_numeric_claims(claims, tokens) == {c \in claims : ~_number_claim_supported(c[1], c[2], tokens)}

\* The claims that a text makes: each number with the next word, at most one
\* short number between them.
ClaimsOf(tokens) ==
    LET claim(a, b) == /\ b \in {a + 1, a + 2} /\ tokens[a] \in Numbers /\ tokens[b] \notin Numbers
                       /\ b = a + 2 => tokens[a + 1] \in Numbers
    IN  {<<tokens[p[1]], tokens[p[2]]>> : p \in {q \in (DOMAIN tokens) \X (DOMAIN tokens) : claim(q[1], q[2])}}

\* A test that quotes a passage of the documents word for word is never
\* dropped for a number in it.
QuotesSupported(tokens) ==
    \A i \in DOMAIN tokens : \A j \in i..Len(tokens) :
        _unsupported_numeric_claims(ClaimsOf(SubSeq(tokens, i, j)), tokens) = {}

\* prompt_exemplar_copy_reason: an example itself, or a mixture of its words.
is_prompt_exemplar_copy(intent, words, doc) ==
    intent \in Exemplars \/ Cardinality((words \intersect ExemplarWords) \ ToSet(doc.tokens)) >= 2

_case_has_source_grounding(words, doc) == words \intersect ToSet(doc.tokens) # {}

-----------------------------------------------------------------------------
(* What there is to generate from *)

_business_narrative_lines(doc) ==
    LET b == build_unified_context(doc).business IN b.requirements \o b.acceptanceCriteria \o b.userStories

_has_ui_evidence_signal(doc) == \E i \in DOMAIN _evidence_corpus(doc) : _evidence_corpus(doc)[i].signal

_category_evidence_sufficiency(doc, surface, components) ==
    [api |-> surface # <<>>, edge |-> surface # <<>>,
     ui |-> components # {} \/ _has_ui_evidence_signal(doc),
     e2e |-> TRUE,      \* a feature has a summary
     business |-> _business_narrative_lines(doc) # <<>>]

\* The lines that the business query adds to the feature's name and summary.
_build_business_retrieval_query(doc) ==
    LET b == build_unified_context(doc).business IN
    First(b.requirements, 15) \o First(b.acceptanceCriteria, 10) \o First(b.userStories, 10)

\* What category's retrieval asks for; with nothing to ask nothing is found.
_build_api_retrieval_query(doc, surface) ==
    surface # <<>> \/ \E i \in DOMAIN build_unified_context(doc).business.requirements :
                          build_unified_context(doc).business.requirements[i].tech

\* A suite that is generated because there is evidence for it has something to
\* retrieve by, and one that is left out would have had nothing: the verdict and
\* the query mean the same by evidence (_business_narrative_lines).
EvidenceAsked(doc, surface) ==
    LET enough == _category_evidence_sufficiency(doc, surface, {}) IN
    /\ enough.business <=> _build_business_retrieval_query(doc) # <<>>
    /\ enough.api => _build_api_retrieval_query(doc, surface)

\* _requirement_gaps: rules of the text that no test covers.
_requirement_gaps(doc, tests) ==
    First(Uniques(Where(doc.text, LAMBDA l : l.marked /\ \A t \in tests : l.id \notin t.covers), LAMBDA l : l.id), MaxGaps)
=============================================================================
