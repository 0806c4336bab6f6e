----------------------------- MODULE Grounding ------------------------------
(***************************************************************************)
(* Which test cases a change of code touches, from the code alone          *)
(* (src/app/grounding.py and src/app/contracts.py).                        *)
(*                                                                         *)
(* A change is a sequence of commits, a commit a sequence of files [path,  *)
(* kind, endpoints, symbols, hunks]; a hunk is [func, removed, added], the *)
(* keys it no longer writes and those it writes now, as functions to the   *)
(* ways ("dict", "attr") in which they are written.  The rest of the       *)
(* repository is a sequence of files [path, kind, reads, calls, writes].   *)
(* A test case is [id, toks, eps].  Words and routes are tokens already:   *)
(* Tokens gives those of a key's, symbol's or function's name; a read      *)
(* carries the tokens of the other literals on its line, that of a         *)
(* fallback value aside.                                                   *)
(***************************************************************************)
EXTENDS Integers, Sequences, SequencesExt, FiniteSets, FiniteSetsExt

CONSTANTS None, ANY,        \* a method that is not known
          Param,            \* a path parameter or a number in a path
          Tokens,
          KeyOrder,         \* the keys, in alphabetical order
          ModuleLevel,      \* the function of a hunk outside any
          MaxEvidence,      \* _MAX_EVIDENCE
          MaxConsumers,     \* _MAX_CONSUMERS_PER_BREAK
          SmallSuite, MinCutoff, MinFanout   \* 6, 2 and 6 in the code

FirstN(s, n) == SubSeq(s, 1, Min({n, Len(s)}))
Concat(s, f(_)) == FlattenSeq([i \in DOMAIN s |-> f(s[i])])
Alphabetical(keys) == SelectSeq(KeyOrder, LAMBDA k : k \in keys)

-----------------------------------------------------------------------------
(* Files *)

FilesOf(files, kind) == SelectSeq(files, LAMBDA f : f.kind = kind)

\* classify_diff_files: kind is "prod", "test", "infra", or "other".
is_test_only(files) ==
    FilesOf(files, "prod") = <<>> /\ FilesOf(files, "test") \o FilesOf(files, "infra") # <<>>

-----------------------------------------------------------------------------
(* Changed contracts and who still depends on them *)

\* Keys that left a hunk are paired with keys that entered it.
diff_producer_changes(file) ==
    LET change(h, old, new, kinds) == [file |-> file.path, func |-> h.func, old |-> old, new |-> new, kinds |-> kinds]
        of(h) == LET gone == Alphabetical(DOMAIN h.removed \ DOMAIN h.added)
                     come == Alphabetical(DOMAIN h.added \ DOMAIN h.removed)
                 IN  [i \in DOMAIN gone |->
                        IF i <= Len(come) THEN change(h, gone[i], come[i], h.removed[gone[i]] \union h.added[come[i]])
                        ELSE change(h, gone[i], None, h.removed[gone[i]])]
    IN  IF file.kind = "test" THEN <<>> ELSE Concat(file.hunks, of)

\* The files of the repository that a change leaves alone, tests aside.
Elsewhere(files, repo) ==
    SelectSeq(repo, LAMBDA r : r.kind # "test" /\ r.path \notin {files[i].path : i \in DOMAIN files})

\* Mutant: a key is looked for however it is read.
Reads_AnyKind(key, kinds, r) == SelectSeq(r.reads, LAMBDA x : x.key = key)

Reads(key, kinds, r) == SelectSeq(r.reads, LAMBDA x : x.key = key /\ x.as \in kinds)

find_key_consumers(key, kinds, files, repo) ==
    Concat(Elsewhere(files, repo), LAMBDA r :
        [i \in DOMAIN Reads(key, kinds, r) |->
            [file |-> r.path, line |-> Reads(key, kinds, r)[i].line, toks |-> Reads(key, kinds, r)[i].lits]])

find_function_consumers(func, files, repo) ==
    IF func = ModuleLevel THEN <<>>
    ELSE Concat(Elsewhere(files, repo), LAMBDA r :
            LET calls == SelectSeq(r.calls, LAMBDA x : x.func = func)
            IN  [i \in DOMAIN calls |-> [file |-> r.path, line |-> calls[i].line, toks |-> calls[i].toks]])

\* build_contract_breaks.  A key that only entered breaks nobody.
contract_breaks(files, repo) ==
    LET of(c) == LET consumers == find_key_consumers(c.old, c.kinds, files, repo) IN
                 IF consumers = <<>> THEN <<>>
                 ELSE <<[old |-> c.old, new |-> c.new, consumers |-> FirstN(consumers, MaxConsumers)]>>
    IN  Concat(Concat(files, diff_producer_changes), of)

\* Functions that changed without any key leaving a function of that name.
function_changes(files, repo) ==
    LET hunks == Concat(SelectSeq(files, LAMBDA f : f.kind # "test"), LAMBDA f : f.hunks)
        keyed == {c.func : c \in ToSet(Concat(files, diff_producer_changes))}
        funcs == {hunks[i].func : i \in DOMAIN hunks} \ keyed
        of(func) == LET consumers == find_function_consumers(func, files, repo) IN
                    IF consumers = <<>> THEN <<>>
                    ELSE <<[func |-> func, consumers |-> FirstN(consumers, MaxConsumers)]>>
    IN  Concat(SetToSeq(funcs), of)

\* Keys that are read by .get somewhere and written as a key nowhere.
find_orphaned_contract_reads(repo) ==
    LET code == SelectSeq(repo, LAMBDA r : r.kind # "test")
        written == {k \in ToSet(KeyOrder) : \E r \in ToSet(code) : k \in DOMAIN r.writes /\ "dict" \in r.writes[k]}
        gets(r, key) == SelectSeq(r.reads, LAMBDA x : x.get /\ x.key = key)
        sites(key) == Concat(code, LAMBDA r :
            [i \in DOMAIN gets(r, key) |-> [file |-> r.path, line |-> gets(r, key)[i].line, toks |-> gets(r, key)[i].lits]])
        of(key) == IF key \in written \/ sites(key) = <<>> THEN <<>>
                   ELSE <<[old |-> key, new |-> None, consumers |-> FirstN(sites(key), MaxConsumers)]>>
    IN  Concat(KeyOrder, of)

-----------------------------------------------------------------------------
(* Test cases *)

\* Words of most test cases tell nothing about one of them.
Distinctive(cases, tok) ==
    \/ Len(cases) < SmallSuite
    \/ Cardinality({i \in DOMAIN cases : tok \in cases[i].toks}) <= Max({MinCutoff, Len(cases) \div 3})

Touches(cases, case, toks) == \E t \in case.toks \intersect toks : Distinctive(cases, t)

KeyTokens(b) == Tokens[b.old] \union (IF b.new = None THEN {} ELSE Tokens[b.new])

match_contract_breaks_to_cases(breaks, cases) ==
    {c.id : c \in {d \in ToSet(cases) :
        \E b \in ToSet(breaks) : \E x \in ToSet(b.consumers) : Touches(cases, d, KeyTokens(b) \union x.toks)}}

\* endpoints_align: one path may end in the other.
Align(a, b) ==
    LET short == IF Len(a.path) <= Len(b.path) THEN a.path ELSE b.path
        long  == IF Len(a.path) <= Len(b.path) THEN b.path ELSE a.path
    IN  IF a.method # b.method /\ ANY \notin {a.method, b.method} THEN "none"
        ELSE IF a.path = b.path THEN "exact"
        ELSE IF IsSuffix(short, long) /\ (\E i \in DOMAIN short : short[i] # Param) THEN "path" ELSE "none"

EndpointTier(case, ep) ==
    IF \E e \in ToSet(case.eps) : Align(e, ep) = "exact" THEN 1
    ELSE IF \E e \in ToSet(case.eps) : Align(e, ep) = "path" THEN 2 ELSE 9

-----------------------------------------------------------------------------
(* match_commit_changes *)

Code(commits) == FlattenSeq([n \in DOMAIN commits |->
    LET files == SelectSeq(commits[n], LAMBDA f : f.kind # "test")
    IN  [i \in DOMAIN files |-> [commit |-> n, file |-> files[i]]]])

Ev(n, file, line, signal, toks) == [commit |-> n, file |-> file, line |-> line, signal |-> signal, toks |-> toks]

Endpoints(commits) == Concat(Code(commits), LAMBDA x :
    [i \in DOMAIN x.file.endpoints |-> Ev(x.commit, x.file.path, x.file.endpoints[i].line, x.file.endpoints[i], {})])
Symbols(commits) == Concat(Code(commits), LAMBDA x :
    [i \in DOMAIN x.file.symbols |->
        Ev(x.commit, x.file.path, x.file.symbols[i].line, x.file.symbols[i].name, Tokens[x.file.symbols[i].name])])
Broken(commits, repo) == FlattenSeq([n \in DOMAIN commits |->
    Concat(contract_breaks(commits[n], repo), LAMBDA b :
        [i \in DOMAIN b.consumers |->
            Ev(n, b.consumers[i].file, b.consumers[i].line, <<b.old, b.new>>, KeyTokens(b) \union b.consumers[i].toks)])])
Callers(commits, repo) == FlattenSeq([n \in DOMAIN commits |->
    Concat(function_changes(commits[n], repo), LAMBDA c :
        [i \in DOMAIN c.consumers |->
            Ev(n, c.consumers[i].file, c.consumers[i].line, c.func, Tokens[c.func] \union c.consumers[i].toks)])])

\* Evidence is cited once per commit and line.
Cited(evs) == FirstN(FoldLeft(LAMBDA out, e :
    IF \E x \in ToSet(out) : <<x.commit, x.file, x.line>> = <<e.commit, e.file, e.line>> THEN out ELSE Append(out, e),
    <<>>, evs), MaxEvidence)

Match(tier, type, evs) == [tier |-> tier, type |-> type, signal |-> evs[1].signal, evidence |-> Cited(evs)]

\* The first tier with any evidence; of the endpoints, those that align best.
BestMatch(commits, cases, repo, case) ==
    LET near(evs) == SelectSeq(evs, LAMBDA e : Touches(cases, case, e.toks))
        breaks == near(Broken(commits, repo))
        tier == Min({9} \union {EndpointTier(case, e.signal) : e \in ToSet(Endpoints(commits))})
        symbols == near(Symbols(commits))
        callers == near(Callers(commits, repo))
    IN  IF breaks # <<>> THEN <<Match(0, "contract_break", breaks)>>
        ELSE IF tier < 9 THEN
            <<Match(tier, "endpoint", SelectSeq(Endpoints(commits), LAMBDA e : EndpointTier(case, e.signal) = tier))>>
        ELSE IF symbols # <<>> THEN <<Match(3, "symbol", symbols)>>
        ELSE IF callers # <<>> THEN <<Match(4, "function_change", callers)>>
        ELSE <<>>

\* Signals shared by so many cases that they name none of them.
Noisy(matches, n) ==
    {s \in {<<m.type, m.signal>> : m \in {matches[c] : c \in {d \in DOMAIN matches :
                matches[d].type \in {"symbol", "function_change"}}}} :
        Cardinality({c \in DOMAIN matches : <<matches[c].type, matches[c].signal>> = s}) > Max({MinFanout, n \div 6})}

\* The matches by case, without those.
Telling(matches, n) ==
    [c \in {d \in DOMAIN matches : <<matches[d].type, matches[d].signal>> \notin Noisy(matches, n)} |-> matches[c]]

ById(best, cases) ==
    [id \in {cases[i].id : i \in {j \in DOMAIN cases : best[j] # <<>>}} |->
        best[CHOOSE i \in DOMAIN cases : cases[i].id = id][1]]

match_commit_changes(commits, cases, repo) ==
    Telling(ById([i \in DOMAIN cases |-> BestMatch(commits, cases, repo, cases[i])], cases), Len(cases))

-----------------------------------------------------------------------------
(* What is promised *)

\* What is said of the matches below.
Grounded(matches, commits, cases, repo) ==
    LET tests == {f.path : f \in {g \in ToSet(FlattenSeq(commits)) : g.kind = "test"}}
                 \union {r.path : r \in {g \in ToSet(repo) : g.kind = "test"}}
        broken == {c \in DOMAIN matches : matches[c].tier = 0}
    IN
    /\ \A c \in DOMAIN matches :
          /\ matches[c].evidence # <<>>
          /\ \A e \in ToSet(matches[c].evidence) : e.file \notin tests
    /\ \A c \in broken : \A e \in ToSet(matches[c].evidence) :
          /\ e.file \notin {commits[e.commit][i].path : i \in DOMAIN commits[e.commit]}
          /\ \E r \in ToSet(repo), f \in ToSet(commits[e.commit]) : \E x \in ToSet(r.reads), h \in ToSet(f.hunks) :
                /\ r.path = e.file /\ x.line = e.line /\ x.key = e.signal[1] /\ x.key \in DOMAIN h.removed
                /\ \/ x.as \in h.removed[x.key]
                   \/ e.signal[2] \in DOMAIN h.added /\ x.as \in h.added[e.signal[2]]
    /\ \A case \in ToSet(cases) :
          (\E e \in ToSet(Endpoints(commits)) : EndpointTier(case, e.signal) < 9) => case.id \in DOMAIN matches
    /\ \A n \in DOMAIN commits : Len(commits) = 1 =>
          broken = match_contract_breaks_to_cases(contract_breaks(commits[n], repo), cases)
    /\ LET all == FlattenSeq(commits) IN is_test_only(all) /\ FilesOf(all, "infra") = <<>> => DOMAIN matches = {}
    /\ \A n \in DOMAIN commits : \A b \in ToSet(contract_breaks(commits[n], repo)) :
          /\ \E c \in ToSet(b.consumers), r \in ToSet(repo) : \E x \in ToSet(r.reads) :
                r.path = c.file /\ x.line = c.line /\ x.key = b.old /\ x.get
          /\ \A r \in ToSet(repo) : r.kind # "test" => b.old \notin DOMAIN r.writes
          => \E o \in ToSet(find_orphaned_contract_reads(repo)) : o.old = b.old

\* A case is matched by evidence that is cited, never in a test file.  That of
\* a broken contract is a file outside the commit that still reads a key the
\* commit stopped writing, read the way it was written; such a case, or one
\* whose endpoint changed, is never dropped as noise; and the verdict on an
\* implementation is capped for exactly those cases
\* (grounding.py:564 "the SAME distinctive-token guard").  A commit of tests
\* alone matches nothing, and a key that no file writes after a commit is
\* found by the look at the repository alone as well (contracts.py:363).
MatchesGrounded(commits, cases, repo) == Grounded(match_commit_changes(commits, cases, repo), commits, cases, repo)
=============================================================================
