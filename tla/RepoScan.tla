------------------------------ MODULE RepoScan -------------------------------
(***************************************************************************)
(* Scans of the test repositories of a project                             *)
(* (_test_repo_scan_worker of src/app/workers/repo_scan_worker.py, the     *)
(* rescan and reset of src/app/api/routes/code_coverage.py, the collections *)
(* of src/app/store/code_coverage.py), one database call a step.           *)
(*                                                                         *)
(* tests are the rows [repo, path, title] of test_repo_cases in the order  *)
(* they were inserted, and results[f] the automation coverage of feature   *)
(* f: the row matched to each of its cases.  The model is not asked, as by *)
(* default (AUTOMATION_USE_LLM).                                           *)
(***************************************************************************)
EXTENDS Automation, Selection

CONSTANTS Repos, Features, Threads,
          CasesOf,      \* the titles of a feature's generated cases
          Archives,     \* what a repository holds, one push after the other
          MaxScans,
          MaxEvents     \* pushes, disconnections, resets and crashes

\* A repository has been pushed to at least once, and what is found in an
\* archive is a list.
ScanAssumption ==
    \A r \in Repos : /\ IsList(Archives[r]) /\ Len(Archives[r]) > 0
                     /\ \A v \in DOMAIN Archives[r] : IsList(Extracted(Archives[r][v]))

VARIABLES live,     \* the repositories connected
          head,     \* the push a repository is at
          status,   \* its scan_status
          tests, results,
          scan,     \* what each worker does
          scans, events,
          apart,    \* the features whose last scan was disturbed
          torn,     \* the repositories whose rows may be of two scans
          stuck     \* those whose scan died with the process

repoVars == <<live, head>>
history == <<apart, torn, stuck>>
vars == <<repoVars, status, tests, results, scan, scans, events, history>>

Idle == [pc |-> "idle"]
At(t, pc) == scan[t].pc = pc
Busy(r) == \E t \in Threads : scan[t] # Idle /\ scan[t].repo = r
Goto(t, pc) == scan' = [scan EXCEPT ![t].pc = pc]
RowsOf(r, rows) == ItemsAt(rows, {i \in DOMAIN rows : rows[i].repo = r})
RowsIn(r, archive) ==
    LET found == Extracted(archive) IN
    [i \in DOMAIN found |-> [repo |-> r, path |-> found[i].path, title |-> found[i].title]]

\* The items saved for a feature.
Coverage(f, rows) ==
    LET found == hybrid_match_generated_to_scanned(CasesOf[f], rows, None, {}) IN
    [i \in DOMAIN found |-> IF found[i] = None THEN None ELSE rows[found[i]]]

Init ==
    /\ live = Repos
    /\ head = [r \in Repos |-> 1]
    /\ status = [r \in Repos |-> "never"]
    /\ tests = <<>>
    /\ results = [f \in Features |-> None]
    /\ scan = [t \in Threads |-> Idle]
    /\ scans = 0 /\ events = 0
    /\ apart = Features /\ torn = {} /\ stuck = {}

-----------------------------------------------------------------------------
(* Starting *)

\* A rescan, or the one after a generation (which is for one feature), looks
\* at scan_status; the worker sets it when it runs.
Request(t, r, scope) ==
    /\ scan[t] = Idle /\ scans < MaxScans
    /\ r \in live /\ status[r] # "running"
    /\ scan' = [scan EXCEPT ![t] = [pc |-> "start", repo |-> r, scope |-> scope, archive |-> <<>>,
                                    rows |-> <<>>, todo |-> {},
                                    alone |-> \A s \in Threads : scan[s] = Idle]]
    /\ scans' = scans + 1
    /\ UNCHANGED <<repoVars, status, tests, results, events, history>>

\* Two scans under way at once disturb each other.
Meet(t) == [s \in Threads |-> IF scan[s] = Idle THEN Idle
                              ELSE [scan[s] EXCEPT !.alone = @ /\ \A u \in Threads \ {s} : scan[u] = Idle,
                                                   !.pc = IF s = t THEN "fetch" ELSE @]]

Begin(t) ==
    /\ At(t, "start")
    /\ LET r == scan[t].repo IN
       IF r \in live
       THEN /\ status' = [status EXCEPT ![r] = "running"]
            /\ scan' = Meet(t)
            /\ torn' = IF \E s \in Threads \ {t} : scan[s] # Idle /\ scan[s].repo = r THEN torn \union {r} ELSE torn
       ELSE scan' = [scan EXCEPT ![t] = Idle] /\ UNCHANGED <<status, torn>>
    /\ UNCHANGED <<repoVars, tests, results, scans, events, apart, stuck>>

-----------------------------------------------------------------------------
(* The worker *)

\* The end of a scan: what it leaves is current if it was alone and came to
\* its end, for the feature it was for if that was one.
Ends(t, outcome) ==
    /\ status' = [status EXCEPT ![scan[t].repo] = outcome]
    /\ scan' = [scan EXCEPT ![t] = Idle]
    /\ stuck' = stuck \ {scan[t].repo}

\* The archive of the default branch, or no token, or a failed download.
Download(t) ==
    /\ At(t, "fetch")
    /\ \/ /\ scan' = [scan EXCEPT ![t].pc = "drop", ![t].archive = Archives[scan[t].repo][head[scan[t].repo]]]
          /\ UNCHANGED <<status, stuck>>
       \/ Ends(t, "failed")
    /\ UNCHANGED <<repoVars, tests, results, scans, events, apart, torn>>

\* replace_test_repo_cases: the rows go, the new ones come.
DropRows(t) ==
    /\ At(t, "drop")
    /\ tests' = ItemsAt(tests, {i \in DOMAIN tests : tests[i].repo # scan[t].repo})
    /\ Goto(t, "insert")
    /\ apart' = Features
    /\ UNCHANGED <<repoVars, status, results, scans, events, torn, stuck>>

InsertRows(t) ==
    /\ At(t, "insert")
    /\ tests' = tests \o RowsIn(scan[t].repo, scan[t].archive)
    /\ torn' = IF scan[t].alone THEN torn \ {scan[t].repo} ELSE torn
    /\ Goto(t, "list")
    /\ UNCHANGED <<repoVars, status, results, scans, events, apart, stuck>>

\* Mutant: the tests of the scanned repository alone.
Listed_Own(t) == RowsOf(scan[t].repo, tests)

\* list_test_repo_cases: those of every repository of the project.
Listed(t) == tests

List(t) ==
    /\ At(t, "list")
    /\ scan' = [scan EXCEPT ![t].pc = "match", ![t].rows = Listed(t),
                            ![t].todo = IF scan[t].scope = None THEN Features ELSE {scan[t].scope}]
    /\ UNCHANGED <<repoVars, status, tests, results, scans, events, history>>

\* One feature: its cases, if it has any, are matched and the result saved.
MatchFeature(t, f) ==
    /\ At(t, "match") /\ f \in scan[t].todo
    /\ scan' = [scan EXCEPT ![t].todo = @ \ {f}]
    /\ IF CasesOf[f] = <<>> THEN UNCHANGED <<results, apart>>
       ELSE /\ results' = [results EXCEPT ![f] = Coverage(f, scan[t].rows)]
            /\ apart' = IF scan[t].alone THEN apart \ {f} ELSE apart \union {f}
    /\ UNCHANGED <<repoVars, status, tests, scans, events, torn, stuck>>

Finish(t) ==
    /\ At(t, "match") /\ scan[t].todo = {}
    /\ Ends(t, "done")
    /\ UNCHANGED <<repoVars, tests, results, scans, events, apart, torn>>

\* Whatever is raised after the download ends the scan as failed.
Fail(t) ==
    /\ scan[t].pc \in {"drop", "insert", "list", "match"}
    /\ Ends(t, "failed")
    /\ UNCHANGED <<repoVars, tests, results, scans, events, apart, torn>>

-----------------------------------------------------------------------------
(* What else happens *)

Event == events < MaxEvents /\ events' = events + 1

Push(r) ==
    /\ Event
    /\ r \in live /\ head[r] < Len(Archives[r])
    /\ head' = [head EXCEPT ![r] = @ + 1]
    /\ UNCHANGED <<live, status, tests, results, scan, scans, history>>

\* delete_repo leaves the repository's rows in test_repo_cases.
Disconnect(r) ==
    /\ Event /\ r \in live
    /\ live' = live \ {r}
    /\ UNCHANGED <<head, status, tests, results, scan, scans, history>>

\* scan/reset, for a scan that is stuck or looks it.
Reset(r) ==
    /\ Event /\ r \in live /\ status[r] = "running"
    /\ status' = [status EXCEPT ![r] = "failed"]
    /\ stuck' = stuck \ {r}
    /\ UNCHANGED <<repoVars, tests, results, scan, scans, apart, torn>>

Crash ==
    /\ Event /\ \E t \in Threads : scan[t] # Idle
    /\ scan' = [t \in Threads |-> Idle]
    /\ stuck' = stuck \union {r \in Repos : Busy(r)}
    /\ UNCHANGED <<repoVars, status, tests, results, scans, apart, torn>>

Worker(t) ==
    \/ Begin(t) \/ Download(t) \/ DropRows(t) \/ InsertRows(t) \/ List(t)
    \/ \E f \in Features : MatchFeature(t, f)
    \/ Finish(t) \/ Fail(t)

Next ==
    \/ \E t \in Threads : Worker(t) \/ \E r \in Repos, scope \in Features \union {None} : Request(t, r, scope)
    \/ \E r \in Repos : Push(r) \/ Disconnect(r) \/ Reset(r)
    \/ Crash

Spec == Init /\ [][Next]_vars

-----------------------------------------------------------------------------
(* What is promised *)

Quiet == \A t \in Threads : scan[t] = Idle

\* When no scan runs, the coverage of a feature is what matching its cases with
\* the tests of every repository gives, whichever repositories were scanned and
\* in whatever order, except after scans that overlapped, failed or died, or
\* were for another feature, until one that is alone has matched it again.
CoverageCurrent ==
    Quiet => \A f \in Features \ apart : CasesOf[f] # <<>> => results[f] = Coverage(f, tests)

\* The rows of a repository are those of one of its states: a scan that failed
\* between the two calls leaves none, and only scans of it that overlapped
\* leave those of two ("Atomic-style replace", replace_test_repo_cases).
RowsOfOneScan ==
    \A r \in Repos \ torn :
        \/ RowsOf(r, tests) = <<>>
        \/ \E v \in 1..head[r] : RowsOf(r, tests) = RowsIn(r, Archives[r][v])

\* A repository is shown as being scanned only while a scan of it runs, or
\* because the process died under one: "can never remain stuck" otherwise
\* (the worker's finally), so that no rescan is refused for nothing.
NeverStuck == \A r \in Repos \ stuck : status[r] = "running" => Busy(r)

ScansSound == CoverageCurrent /\ RowsOfOneScan /\ NeverStuck
=============================================================================
