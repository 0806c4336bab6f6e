----------------------------- MODULE SheetParse -----------------------------
(***************************************************************************)
(* What an uploaded sheet of test cases is read as                         *)
(* (src/app/sheet_import.py).                                              *)
(*                                                                         *)
(* A sheet is [bug, rows]; a row is a sequence of cells; a cell is the     *)
(* sequence of the fragments its text splits into, <<>> when it is blank.  *)
(* Two header cells matter to a canonical field: the one that equals an    *)
(* alias of it and the one that contains an alias as a word; Aliases lists *)
(* the aliases of each field by priority, Words the aliases that a header  *)
(* text contains.  Case, spaces, routes and lengths are left out.          *)
(***************************************************************************)
EXTENDS Integers, Sequences, SequencesExt, FiniteSets

CONSTANTS None,
          Fields,         \* the canonical fields in the order of HEADER_ALIASES
          Aliases, Words,
          Keywords,       \* texts that contain one of _HEADER_KEYWORDS
          Example,        \* a fragment: the template's example marker
          Noise, Routes,  \* fragments: cleaned to nothing, or to Documented
          Documented,     \* "Validate documented API behavior"
          HeaderRows      \* rows that are searched for a header

-----------------------------------------------------------------------------
(* The header *)

Text(cell) == IF cell = <<>> THEN None ELSE cell[1]

\* The two ways an alias fits a header, as pairs.
Equals == {<<alias, alias>> : alias \in UNION {ToSet(Aliases[f]) : f \in ToSet(Fields)}}
HasWord == UNION {{<<alias, header>> : alias \in Words[header]} : header \in DOMAIN Words}

\* The column a field takes: aliases by priority, columns from the left.
Claim(headers, field, used, fits) ==
    LET wants == {<<a, c>> \in (1..Len(Aliases[field])) \X (DOMAIN headers \ used) :
                    <<Aliases[field][a], headers[c]>> \in fits}
    IN  IF wants = {} THEN None
        ELSE CHOOSE c \in DOMAIN headers : \E a \in 1..Len(Aliases[field]) :
                /\ <<a, c>> \in wants
                /\ \A w \in wants : w[1] > a \/ (w[1] = a /\ w[2] >= c)

UsedColumns(map) == {map[f] : f \in DOMAIN map}

\* One pass over the fields, in their order, that leaves claimed ones alone.
ClaimAll(headers, map, fits) ==
    FoldLeft(LAMBDA m, f :
                LET c == IF f \in DOMAIN m THEN None ELSE Claim(headers, f, UsedColumns(m), fits)
                IN  IF c = None THEN m ELSE [g \in DOMAIN m \union {f} |-> IF g = f THEN c ELSE m[g]],
             map, Fields)

build_header_map(row) ==
    LET headers == [c \in DOMAIN row |-> Text(row[c])]
    IN  ClaimAll(headers, ClaimAll(headers, [f \in {} |-> 0], Equals), HasWord)

\* At least two cells contain a keyword.
is_likely_header_row(row) == Cardinality({c \in DOMAIN row : Text(row[c]) \in Keywords}) >= 2

Blank(row) == \A c \in DOMAIN row : row[c] = <<>>

\* The first likely row, else the first of the first five with any text.
HeaderIndex(rows) ==
    LET likely == {i \in DOMAIN rows : i <= HeaderRows /\ is_likely_header_row(rows[i])}
        filled == {i \in DOMAIN rows : i <= 5 /\ ~Blank(rows[i])}
        first(S) == CHOOSE i \in S : \A j \in S : i <= j
    IN  IF likely # {} THEN first(likely) ELSE IF filled # {} THEN first(filled) ELSE 0

-----------------------------------------------------------------------------
(* One row *)

Cell(row, map, field) ==
    IF field \in DOMAIN map /\ map[field] <= Len(row) THEN row[map[field]] ELSE <<>>

\* _clean_step_text on every fragment.
Steps(cell) ==
    FoldLeft(LAMBDA steps, s : IF s = Noise THEN steps
                               ELSE Append(steps, <<IF s \in Routes THEN Documented ELSE s>>),
             <<>>, cell)

\* A sheet without titles that documents modules: every row gets a title.
IsCatalog(map) == /\ "title" \notin DOMAIN map /\ "module" \in DOMAIN map
                  /\ {"endpoint", "expected_result"} \intersect DOMAIN map # {}
                  /\ {"category", "description"} \intersect DOMAIN map # {}

\* The test data of a row belongs to its last step.
WithData(steps, data) ==
    IF data = <<>> THEN steps
    ELSE IF steps = <<>> THEN <<data>>
    ELSE [steps EXCEPT ![Len(steps)] = @ \o data]

\* derive_row_fields_loose: a set of at most one record.
derive_row_fields_loose(row, map, number) ==
    LET cell(f) == Cell(row, map, f)
        catalog == IsCatalog(map)
        or(value, default) == IF catalog /\ value = <<>> THEN default ELSE value
        evidence == cell("endpoint") \o cell("expected_result") \o cell("steps")
        title == or(cell("title"), or(cell("module"), cell("endpoint")))
        steps == or(cell("steps"), <<Documented>>)
        rec == [number |-> number, id |-> cell("test_id"), title |-> title,
                description |-> or(cell("description"), title),
                steps |-> WithData(Steps(steps), cell("test_data")),
                expected |-> or(cell("expected_result"), <<Documented>>)]
    IN  IF (catalog /\ evidence = <<>>)
           \/ title \o rec.description \o steps \o rec.expected \o rec.id = <<>>
        THEN {} ELSE {rec}

-----------------------------------------------------------------------------
(* Rows that continue a test case *)

_is_continuation_of(rec, parent) ==
    IF rec.id # <<>> /\ parent.id # <<>> THEN rec.id = parent.id
    ELSE \/ rec.title # <<>> /\ rec.title = parent.title
         \/ /\ rec.title = <<>> /\ rec.id = <<>>
            /\ rec.steps # <<>> \/ rec.expected # <<>> \/ rec.description # <<>>

AddMissing(s, more) == FoldLeft(LAMBDA r, x : IF x \in ToSet(r) THEN r ELSE Append(r, x), s, more)

\* Mutant: the expected result and the steps of the first row win.
MergeInto_KeepsParent(parent, child) == [parent EXCEPT !.expected = AddMissing(@, child.expected)]

\* The parent's identifier and title stay as they are.
_merge_into(parent, child) ==
    [parent EXCEPT !.steps = AddMissing(@, child.steps),
                   !.expected = AddMissing(@, child.expected),
                   !.description = AddMissing(@, child.description)]

Grouped(recs) ==
    FoldLeft(LAMBDA out, rec :
                IF out # <<>> /\ _is_continuation_of(rec, Last(out))
                THEN [out EXCEPT ![Len(out)] = _merge_into(@, rec)]
                ELSE Append(out, rec),
             <<>>, recs)

\* A case without a title takes its description, or its first step.
Titled(rec) ==
    [rec EXCEPT !.title = IF @ # <<>> THEN @ ELSE IF rec.description # <<>> THEN rec.description
                          ELSE IF rec.steps # <<>> THEN rec.steps[1] ELSE <<>>]

_process_table(rows) ==
    LET h == HeaderIndex(rows)
        map == build_header_map(rows[h])
        data(i) == IF i <= h \/ Blank(rows[i]) \/ (\E c \in DOMAIN rows[i] : Example \in ToSet(rows[i][c]))
                   THEN <<>> ELSE SetToSeq(derive_row_fields_loose(rows[i], map, i))
        recs == FlattenSeq([i \in DOMAIN rows |-> data(i)])
    IN  IF h = 0 \/ DOMAIN map = {} THEN <<>>
        ELSE SelectSeq([i \in DOMAIN Grouped(recs) |-> Titled(Grouped(recs)[i])],
                       LAMBDA r : r.title # <<>>)

\* is_bug_worksheet on the signals of a sheet: its name, its header, and the
\* rows whose status is that of a bug's resolution.
is_bug_worksheet(b) ==
    \/ b.named \/ (b.actual /\ b.repro) \/ b.figma \/ b.headerHits >= 3
    \/ b.statuses >= IF b.scanned \div 3 > 3 THEN b.scanned \div 3 ELSE 3

\* parse_sheet: the rows of every worksheet, in order.
parse_sheet(sheets) ==
    FlattenSeq([s \in DOMAIN sheets |->
        IF is_bug_worksheet(sheets[s].bug) THEN <<>>
        ELSE LET rows == _process_table(sheets[s].rows)
             IN  [i \in DOMAIN rows |-> [sheet |-> s, row |-> rows[i]]]])

\* What makes two rows the same, and two uploads (the digests are injective).
identity_hash(rec) == <<rec.title, rec.steps, rec.expected>>
content_signature(parsed) == [i \in DOMAIN parsed |-> <<parsed[i].sheet, identity_hash(parsed[i].row)>>]

-----------------------------------------------------------------------------
(* The polish pass *)

\* polish_all_rows.  answers[b] is what the model returned for batch b, a
\* sequence of [number, drop, title]; order is that of the batches' coming
\* back.  A row is known by its number alone.
polish_all_rows(parsed, answers, order) ==
    LET all == FlattenSeq([i \in DOMAIN order |-> answers[order[i]]])
        dropped == {all[i].number : i \in {j \in DOMAIN all : all[j].drop}}
        polished(n) == SelectSeq(all, LAMBDA a : ~a.drop /\ a.number = n)
        apply(p) == LET mine == polished(p.row.number) IN
                    IF mine = <<>> \/ Last(mine).title = <<>> THEN p
                    ELSE [p EXCEPT !.row.title = Last(mine).title]
        kept == SelectSeq(parsed, LAMBDA p : p.row.number \notin dropped)
    IN  [i \in DOMAIN kept |-> apply(kept[i])]

-----------------------------------------------------------------------------
(* Relevance *)

\* Overlaps are thousandths.
Jaccard(a, b) == IF a = {} \/ b = {} THEN 0
                 ELSE (1000 * Cardinality(a \intersect b)) \div Cardinality(a \union b)
Overlap(a, b) == IF b = {} THEN 0 ELSE (1000 * Cardinality(a \intersect b)) \div Cardinality(b)

\* A row's words are those of its title, its intent and its other text; the
\* feature's are those of its name, of all its text and of its intent, where
\* synonyms count as one word.  The anchors are the longer words of the name.
\* An endpoint is [family, exact]: exact if it is one of the feature's.
Signals(row, ctx) ==
    LET words == row.title \union row.intent \union row.text
        family == row.endpoint # None /\ row.endpoint.family \in ctx.families
    IN
    [title |-> Jaccard(row.title, ctx.name), purpose |-> Jaccard(row.intent, ctx.text),
     text |-> Jaccard(words, ctx.text), concepts |-> Jaccard(words, ctx.intent),
     intent |-> Jaccard(words, ctx.intent), name |-> Overlap(words, ctx.name),
     anchors |-> Overlap(words, ctx.anchors),
     anchorHits |-> Cardinality(words \intersect ctx.anchors),
     route |-> IF family THEN 1000 ELSE 0,
     endpoint |-> IF ~family THEN 0 ELSE IF row.endpoint.exact THEN 1000 ELSE 500,
     category |-> IF row.category \intersect ctx.name # {} THEN 1000 ELSE 0,
     alien |-> row.title # {} /\ ctx.text # {} /\
               Cardinality(row.title \ ctx.text) * 100 >= 85 * Cardinality(row.title)]

\* The weighted sum, in hundred-thousandths: filled is the number of filled
\* fields, of seven.
RawScore(row, s) ==
      3 * s.title + 8 * s.purpose + (5 + 4) * s.text + 28 * s.concepts + 24 * s.intent
    + 18 * s.anchors + 2 * s.name + 16 * s.route + 85 * s.category + 90 * s.endpoint
    + (IF row.steps > 0 /\ row.expected THEN 10000
       ELSE IF row.steps > 0 \/ row.expected THEN 6000 ELSE 0)
    + (IF row.endpoint # None \/ row.steps >= 2 THEN 70000 ELSE 0)
    + (6000 * row.filled) \div 7 - (IF s.alien THEN 25000 ELSE 0)

HardSignal(s) == \/ s.anchorHits >= 2 \/ s.route >= 150 \/ s.endpoint >= 200
                 \/ s.name >= 200 \/ s.intent >= 200 \/ s.concepts >= 180

\* A row becomes a test case of the feature, or stays in the pool.
score_row(row, ctx) ==
    LET s == Signals(row, ctx) IN
    IF RawScore(row, s) >= 45000 /\ HardSignal(s) THEN "matched" ELSE "stored_for_later"

-----------------------------------------------------------------------------
(* What is promised *)

\* The signals of a sheet that is none of bugs.
Plain == [named |-> FALSE, actual |-> FALSE, repro |-> FALSE, figma |-> FALSE, headerHits |-> 0, statuses |-> 0, scanned |-> 0]

\* No step written under a "steps" header is lost, whatever rows it is spread
\* over (_process_table, _merge_into): each reaches a row that is returned.
StepsKept(rows) ==
    LET h == HeaderIndex(rows)  map == build_header_map(rows[h]) IN
    h # 0 /\ "steps" \in DOMAIN map =>
        \A i \in (h + 1)..Len(rows) :
            (\A c \in DOMAIN rows[i] : Example \notin ToSet(rows[i][c])) =>
            \A s \in ToSet(Cell(rows[i], map, "steps")) \ ({Noise} \union Routes) :
                \E r \in ToSet(_process_table(rows)) : \E step \in ToSet(r.steps) : s \in ToSet(step)

\* No column serves two fields, and a header that is an alias of a field is
\* given to no field that merely occurs in it ("Test ID" is not a title).
HeadersSound(row) ==
    LET map == build_header_map(row)
        header(f) == Text(row[map[f]])
        exact(f) == \E a \in DOMAIN Aliases[f] : header(f) = Aliases[f][a]
    IN  /\ \A f, g \in DOMAIN map : map[f] = map[g] => f = g
        /\ \A f \in DOMAIN map : ~exact(f) =>
              \A g \in ToSet(Fields) \ {f} :
                  (\E a \in DOMAIN Aliases[g] : header(f) = Aliases[g][a]) => g \in DOMAIN map

\* A row that shares no word, intent or route with the feature is not made a
\* test case of it, however complete the row is.
AliensStored(row, ctx) ==
    /\ (row.title \union row.intent \union row.text)
          \intersect (ctx.name \union ctx.text \union ctx.intent) = {}
    /\ row.endpoint = None \/ row.endpoint.family \notin ctx.families
    => score_row(row, ctx) = "stored_for_later"

\* The signature by which an upload is known is that of the tests in it: a row
\* left blank below the header does not make it another (sheet_import.py:743).
SignatureOfTests(rows) ==
    LET h == HeaderIndex(rows)
        spaced == SubSeq(rows, 1, h) \o <<[c \in DOMAIN rows[h] |-> <<>>]>> \o SubSeq(rows, h + 1, Len(rows))
        signature(sheet) == content_signature(parse_sheet(<<[rows |-> sheet, bug |-> Plain]>>))
    IN  h # 0 => signature(spaced) = signature(rows)

\* In whatever order the batches come back, a row is left out or retitled only
\* as the answer for its own batch says, if no two worksheets number a row
\* alike and no answer speaks of another batch's rows (sheet_import.py:1269; a
\* row is known by its number alone); batch[i] is the batch of the i-th row.
PolishOwnRows(parsed, batch, answers, order) ==
    LET out == polish_all_rows(parsed, answers, order)
        own(i) == SelectSeq(answers[batch[i]], LAMBDA a : a.number = parsed[i].row.number)
        drops(i) == \E a \in ToSet(own(i)) : a.drop
        left == {i \in DOMAIN parsed : ~drops(i)}
    IN  /\ \A i, j \in DOMAIN parsed : i # j => parsed[i].row.number # parsed[j].row.number
        /\ \A b \in DOMAIN answers : \A a \in ToSet(answers[b]) :
              \E i \in DOMAIN parsed : batch[i] = b /\ parsed[i].row.number = a.number
        => /\ Len(out) = Cardinality(left)
           /\ \A i \in left : \E p \in ToSet(out) :
                 /\ p.sheet = parsed[i].sheet /\ p.row.number = parsed[i].row.number
                 /\ p.row.title \in {parsed[i].row.title} \union {a.title : a \in ToSet(own(i))}
=============================================================================
