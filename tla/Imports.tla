------------------------------- MODULE Imports -------------------------------
(***************************************************************************)
(* Sheets of existing test cases, the project's pool of their rows, and    *)
(* the promotion of rows to features (src/app/api/routes/test_import.py,   *)
(* src/app/workers/test_import_worker.py, the import half of               *)
(* src/app/workers/repo_scan_worker.py, src/app/store/sheet_import.py).    *)
(*                                                                         *)
(* There is one project.  A row is known by its identity, of which the     *)
(* pool holds one row; reading a sheet and scoring a row are SheetParse's. *)
(* A request is one step; a worker looks for a row, stores it, looks for a *)
(* test case and writes one in steps of their own, and the embedding of a  *)
(* new case comes between the last two.                                    *)
(***************************************************************************)
EXTENDS Integers, Sequences, SequencesExt, FiniteSets, FiniteSetsExt

CONSTANTS Features, Identities,
          Content,      \* file -> the identities of its rows, in order
          Matches,      \* <<identity, feature>>: scored as a match
          Backed,       \* <<identity, feature>>: the feature's endpoints agree
          Sweep,        \* the process that rescans the pool
          MaxImports, MaxRows, MaxCases,
          MaxEvents,    \* requests other than uploads, rescans and crashes
          None

\* A row of the pool.
Entries == [identity : Identities, status : {"matched_feature", "unmatched_pool"}, needs : BOOLEAN]

ASSUME ImportsAssumption == /\ \A f \in DOMAIN Content : Content[f] \in Seq(Identities)
                            /\ Matches \subseteq Identities \X Features /\ Backed \subseteq Matches
                            /\ Features # {} /\ Sweep \notin Nat
                            /\ None \notin Features /\ None \notin Identities /\ None \notin DOMAIN Content
                            /\ None \notin Nat /\ None \notin Entries /\ None # Sweep

VARIABLES imports,      \* feature_imports with import_analysis_status, by number
          rows,         \* project_imported_rows, by number
          sources,      \* project_imported_row_sources: <<row, import>>
          links,        \* project_imported_row_feature_map: <<row, feature>>
          promos,       \* project_imported_row_promotions: at is promoted_at
          imported,     \* test cases made from rows: number -> identity
          assoc,        \* <<feature, case>>
          work,         \* what each running worker is at
          taken,        \* history: <<identity, feature>> that someone removed
          events

vars == <<imports, rows, sources, links, promos, imported, assoc, work, taken, events>>
library == <<links, promos, imported, assoc>>

Init == /\ imports = <<>> /\ rows = <<>> /\ sources = {} /\ links = {} /\ promos = {} /\ taken = {}
        /\ imported = <<>> /\ assoc = {} /\ work = [p \in {} |-> None] /\ events = 0

\* Numbers are never used again: what is deleted leaves None.
Rows == {r \in DOMAIN rows : rows[r] # None}
Cases == {c \in DOMAIN imported : imported[c] # None}
RowOf(h) == {r \in Rows : rows[r].identity = h}
Of(row, fs) == {x \in promos : x.row = row /\ x.feature \in fs}
Latest(row, fs) == {x \in Of(row, fs) : \A y \in Of(row, fs) \ {x} : y.at < x.at}
IsPromoted(row, f) == \E x \in Latest(row, {f}) : x.case \in Cases

Event == events < MaxEvents /\ events' = events + 1

\* One row of a worker's list; a worker is at a row until it has been promoted.
Item(row, h) == [row |-> row, identity |-> h]
Worker(pc, feature, todo) == [pc |-> pc, feature |-> feature, todo |-> todo, row |-> None, seen |-> None, case |-> None]
Without(p) == [q \in DOMAIN work \ {p} |-> work[q]]
Next_(w) == [w EXCEPT !.pc = "row", !.todo = Tail(@), !.row = None, !.seen = None, !.case = None]

-----------------------------------------------------------------------------
(* Upload *)

\* The newest of some imports.
Similar(same) == IF same = {} THEN None ELSE Max(same)

\* upload_test_sheet: the same file again for the same feature is answered
\* from the first one, whatever became of it.
upload_test_sheet(f, file) ==
    /\ Len(imports) < MaxImports
    /\ \A i \in DOMAIN imports : ~(imports[i].feature = f /\ imports[i].file = file)
    /\ imports' = Append(imports, [feature |-> f, file |-> file, status |-> "PENDING", kept |-> {}, signed |-> FALSE,
                                   dup |-> Similar({i \in DOMAIN imports : imports[i].file = file})])
    /\ work' = [p \in DOMAIN work \union {Len(imports) + 1} |->
                   IF p = Len(imports) + 1 THEN Worker("start", f, <<>>) ELSE work[p]]
    /\ UNCHANGED <<rows, sources, library, taken, events>>

-----------------------------------------------------------------------------
(* _test_import_worker *)

\* list_imported_rows_for_feature_import
RowsFrom(i) == SetToSeq({r \in Rows : <<r, i>> \in sources})

\* _reuse_existing_import_rows
Reuse(i, other) ==
    /\ imports' = [imports EXCEPT ![i].status = "PROCESSING", ![i].dup = other]
    /\ work' = [work EXCEPT ![i].pc = "row",
                            ![i].todo = [n \in DOMAIN RowsFrom(other) |-> Item(RowsFrom(other)[n], rows[RowsFrom(other)[n]].identity)]]

StartImport(i) ==
    /\ i \in DOMAIN work /\ i # Sweep /\ work[i].pc = "start"
    /\ \/ imports[i].dup # None /\ Reuse(i, imports[i].dup)
       \/ /\ imports[i].dup = None
          /\ imports' = [imports EXCEPT ![i].status = "PROCESSING", ![i].signed = TRUE]
          /\ work' = [work EXCEPT ![i].pc = "signed"]
       \/ /\ imports[i].dup = None
          /\ imports' = [imports EXCEPT ![i].status = "FAILED"] /\ work' = Without(i)
    /\ UNCHANGED <<rows, sources, library, taken, events>>

\* After find_feature_import_by_signature: another file with these rows, a
\* sheet of something else, or the rows that polishing keeps.
Classify(i) ==
    /\ i \in DOMAIN work /\ i # Sweep /\ work[i].pc = "signed"
    /\ LET content == Content[imports[i].file]
           other == Similar({j \in DOMAIN imports \ {i} : imports[j].signed /\ Content[imports[j].file] = content})
       IN  IF other # None THEN Reuse(i, other)
           ELSE \/ imports' = [imports EXCEPT ![i].status = "COMPLETED"] /\ work' = Without(i)
                \/ \E n \in 0 .. Len(content) : \E at \in [1 .. n -> DOMAIN content] :
                      /\ \A j, k \in 1 .. n : j < k => at[j] < at[k]
                      /\ imports' = [imports EXCEPT ![i].kept = {content[at[k]] : k \in 1 .. n}]
                      /\ work' = [work EXCEPT ![i].pc = "row", ![i].todo = [k \in 1 .. n |-> Item(None, content[at[k]])]]
    /\ UNCHANGED <<rows, sources, library, taken, events>>

\* Mutant: what the pool has seen before is not matched again.
Promotes_Unseen(p, h) == <<h, work[p].feature>> \in Backed /\ RowOf(h) = {}

\* _import_evidence_ok, which reuse does not ask.
Promotes(p, h) ==
    LET pair == <<h, work[p].feature>> IN
    pair \in Matches /\ (pair \in Backed \/ (p # Sweep /\ imports[p].dup # None))

Row(h, matched) == [identity |-> h, status |-> IF matched THEN "matched_feature" ELSE "unmatched_pool", needs |-> ~matched]

\* Mutant: the status is that of the last upload.
Status_Last(old, new) == new

Status(old, new) == IF "matched_feature" \in {old, new} THEN "matched_feature" ELSE new

\* Where a row goes on to: its promotion, or the next one.
Goes(p, row) ==
    work' = [work EXCEPT ![p] = IF Promotes(p, Head(@.todo).identity) THEN [@ EXCEPT !.pc = "find", !.row = row, !.seen = None]
                                ELSE Next_(@)]

\* upsert_project_imported_row, which first looks for the row, and what reuse
\* and a rescan do with theirs: mark it seen, clear its pending flag.
Look(p) ==
    /\ p \in DOMAIN work /\ work[p].pc = "row" /\ work[p].todo # <<>>
    /\ LET item == Head(work[p].todo)  old == RowOf(item.identity)
           there == IF old = {} THEN None ELSE CHOOSE r \in old : TRUE
       IN  IF p # Sweep /\ imports[p].dup = None
           THEN /\ work' = [work EXCEPT ![p].pc = "store", ![p].row = there,
                                        ![p].seen = IF there = None THEN None ELSE rows[there].status]
                /\ UNCHANGED <<rows, sources>>
           ELSE /\ rows' = IF p = Sweep /\ item.row \in Rows THEN [rows EXCEPT ![item.row].needs = FALSE] ELSE rows
                /\ sources' = IF p = Sweep THEN sources ELSE sources \union {<<item.row, p>>}
                /\ Goes(p, item.row)
    /\ UNCHANGED <<imports, library, taken, events>>

\* It writes by what it saw.  A row stored by another meanwhile refuses to be
\* stored again (the index is unique) and ends the worker; one deleted
\* meanwhile stays so.
Store(p) ==
    /\ p \in DOMAIN work /\ work[p].pc = "store"
    /\ LET h == Head(work[p].todo).identity  there == work[p].row
           new == Row(h, Promotes(p, h))
           added == Len(rows) + 1
       IN  \/ /\ there = None /\ RowOf(h) = {} /\ Len(rows) < MaxRows
              /\ rows' = Append(rows, new) /\ sources' = sources \union {<<added, p>>} /\ Goes(p, added)
           \/ /\ there = None /\ RowOf(h) # {}
              /\ work' = Without(p) /\ UNCHANGED <<rows, sources>>
           \/ /\ there # None
              /\ rows' = IF there \in Rows THEN [rows EXCEPT ![there] = [new EXCEPT !.status = Status(work[p].seen, @)]] ELSE rows
              /\ sources' = sources \union {<<there, p>>} /\ Goes(p, there)
    /\ UNCHANGED <<imports, library, taken, events>>

-----------------------------------------------------------------------------
(* _promote_imported_row_to_feature *)

\* The case promoted to this feature, the last one promoted to any, or one of
\* the same identity.
Found(row, f, h) ==
    LET Live(fs) == {x.case : x \in Latest(row, fs)} \intersect Cases
        twins == {c \in Cases : imported[c] = h}
    IN  IF Live({f}) # {} THEN Live({f}) ELSE IF Live(Features) # {} THEN Live(Features)
        ELSE IF twins # {} THEN twins ELSE {None}

Find(p) ==
    /\ p \in DOMAIN work /\ work[p].pc = "find"
    /\ \E found \in Found(work[p].row, work[p].feature, Head(work[p].todo).identity) :
          work' = [work EXCEPT ![p].pc = "write", ![p].case = found]
    /\ UNCHANGED <<imports, rows, sources, library, taken, events>>

\* create_case, associate, link_row_to_feature and record_row_promotion.
Promoted(row, f, h, found) ==
    LET case == IF found = None THEN Len(imported) + 1 ELSE found IN
    /\ imported' = IF found = None THEN Append(imported, h) ELSE imported
    /\ Len(imported') <= MaxCases
    /\ assoc' = assoc \union {<<f, case>>}
    /\ links' = links \union {<<row, f>>}
    /\ promos' = (promos \ Of(row, {f})) \union
                     {[row |-> row, feature |-> f, case |-> case,
                       at |-> 1 + Max({0} \union {x.at : x \in Of(row, Features \ {f})})]}
    /\ rows' = IF row \in Rows THEN [rows EXCEPT ![row] = Row(h, TRUE)] ELSE rows

Write(p) ==
    /\ p \in DOMAIN work /\ work[p].pc = "write"
    /\ Promoted(work[p].row, work[p].feature, Head(work[p].todo).identity, work[p].case)
    /\ work' = [work EXCEPT ![p] = Next_(@)]
    /\ UNCHANGED <<imports, sources, taken, events>>

Finish(p) ==
    /\ p \in DOMAIN work /\ work[p].pc = "row" /\ work[p].todo = <<>>
    /\ imports' = IF p = Sweep THEN imports ELSE [imports EXCEPT ![p].status = "COMPLETED"]
    /\ work' = Without(p)
    /\ UNCHANGED <<rows, sources, library, taken, events>>

\* _rescan_pool_for_feature: a refresh, a generation, or the scheduler at one
\* of the features.
_rescan_pool_for_feature(f) ==
    /\ Sweep \notin DOMAIN work /\ Rows # {} /\ Event
    /\ LET unlinked == SetToSeq({r \in Rows : <<r, f>> \notin links}) IN
       work' = [p \in DOMAIN work \union {Sweep} |->
                   IF p = Sweep THEN Worker("row", f, [n \in DOMAIN unlinked |-> Item(unlinked[n], rows[unlinked[n]].identity)])
                   ELSE work[p]]
    /\ UNCHANGED <<imports, rows, sources, library, taken>>

-----------------------------------------------------------------------------
(* Requests *)

\* unlink_case_from_feature for each case promoted from the row there.
Unlinked(row, fs) ==
    LET out == {<<x.feature, x.case>> : x \in Of(row, fs)} IN
    /\ assoc' = assoc \ out
    /\ imported' = [c \in DOMAIN imported |->
                       IF (\E f \in fs : <<f, c>> \in assoc \intersect out) /\ (\A f \in Features : <<f, c>> \notin assoc')
                       THEN None ELSE imported[c]]
    /\ promos' = promos \ Of(row, fs)
    /\ links' = {l \in links : ~(l[1] = row /\ l[2] \in fs)}
    /\ taken' = taken \union {<<rows[row].identity, f>> : f \in fs}

\* add_imported_sheet_rows
add_imported_sheet_rows(row, f) ==
    /\ row \in Rows /\ Event
    /\ \E found \in Found(row, f, rows[row].identity) : Promoted(row, f, rows[row].identity, found)
    /\ UNCHANGED <<imports, sources, work, taken>>

\* submit_import_review: of an import that is still there, and of any row.
\* That the decision is also recorded, for the page to show, is left out.
submit_import_review(i, row, action) ==
    LET f == imports[i].feature IN
    /\ f # None /\ row \in Rows /\ Event
    /\ \/ /\ action = "include" /\ ~IsPromoted(row, f) /\ UNCHANGED taken
          /\ \E found \in Found(row, f, rows[row].identity) : Promoted(row, f, rows[row].identity, found)
       \/ action = "exclude" /\ IsPromoted(row, f) /\ Unlinked(row, {f}) /\ UNCHANGED rows
    /\ UNCHANGED <<imports, sources, work>>

\* remove_imported_sheet_rows, from a feature or from the system.
unlink_imported_row_from_feature(row, f) ==
    /\ row \in Rows /\ <<row, f>> \in links /\ Event /\ Unlinked(row, {f})
    /\ UNCHANGED <<imports, rows, sources, work>>

delete_imported_row_from_project(row) ==
    /\ row \in Rows /\ Event /\ Unlinked(row, Features)
    /\ rows' = [rows EXCEPT ![row] = None]
    /\ sources' = {s \in sources : s[1] # row}
    /\ imports' = [i \in DOMAIN imports |->
                      IF <<row, i>> \in sources /\ (\A s \in sources' : s[2] # i)
                      THEN [imports[i] EXCEPT !.status = "DELETED", !.feature = None, !.file = None, !.signed = FALSE]
                      ELSE imports[i]]
    /\ UNCHANGED work

\* The process ends: its workers are lost, what they wrote is not.
Crash ==
    /\ DOMAIN work # {} /\ Event /\ work' = [p \in {} |-> None]
    /\ UNCHANGED <<imports, rows, sources, library, taken>>

-----------------------------------------------------------------------------
Next ==
    \/ \E f \in Features, file \in DOMAIN Content : upload_test_sheet(f, file)
    \/ \E i \in DOMAIN imports : StartImport(i) \/ Classify(i)
    \/ \E p \in DOMAIN imports \union {Sweep} : Look(p) \/ Store(p) \/ Find(p) \/ Write(p) \/ Finish(p)
    \/ \E f \in Features : _rescan_pool_for_feature(f)
    \/ \E row \in Rows : \/ delete_imported_row_from_project(row)
                         \/ \E f \in Features : add_imported_sheet_rows(row, f) \/ unlink_imported_row_from_feature(row, f)
                         \/ \E i \in DOMAIN imports, a \in {"include", "exclude"} : submit_import_review(i, row, a)
    \/ Crash

Spec == Init /\ [][Next]_vars

-----------------------------------------------------------------------------
(* What is promised *)

\* An import that was parsed here and is completed lost nothing: each row that
\* polishing kept is in the pool with the import as a source, and is promoted
\* to the feature if it matches and its endpoint is there, unless someone took
\* the row out since (_test_import_worker).
ImportComplete ==
    \A i \in DOMAIN imports : imports[i].status = "COMPLETED" /\ imports[i].dup = None =>
        \A h \in imports[i].kept :
            \/ \E f \in Features : <<h, f>> \in taken
            \/ \E r \in RowOf(h) :
                  /\ <<r, i>> \in sources
                  /\ <<h, imports[i].feature>> \in Backed => <<r, imports[i].feature>> \in links /\ IsPromoted(r, imports[i].feature)

\* A row stays marked as matched for as long as it is in the pool, whatever is
\* uploaded, rescanned or removed, unless an import that had looked at it before
\* it was matched writes it after (upsert_project_imported_row).
MatchedStays ==
    [][\A r \in DOMAIN rows : rows[r] # None /\ rows[r].status = "matched_feature" =>
           \/ rows'[r] = None \/ rows'[r].status = "matched_feature"
           \/ \E p \in DOMAIN work : work[p].pc = "store" /\ work[p].row = r
                                     /\ work[p].seen # "matched_feature"]_vars
=============================================================================
