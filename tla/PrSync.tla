------------------------------- MODULE PrSync -------------------------------
(***************************************************************************)
(* How the pull requests of one watched GitHub repository come in          *)
(* (src/app/background/poller.py, api/routes/webhooks.py,                  *)
(* api/routes/code_coverage.py, workers/code_coverage_worker.py) and what  *)
(* is stored of them (store/repos_prs.py, store/code_coverage.py).         *)
(*                                                                         *)
(* Three kinds of thread ingest pull requests: a sync (the poller's, "sync *)
(* now", or the one that connecting a repository starts), an event         *)
(* (webhook, or a manual run that pins a feature), and the thread of       *)
(* assign_pr, which only reviews.  Each database operation of theirs is a  *)
(* step.  A pull request is known by its number, a version of it by the    *)
(* second at which it was updated; what the model answers in a review is   *)
(* left out but for the feature it was asked about.                        *)
(***************************************************************************)
EXTENDS PrMapping

CONSTANTS Numbers,    \* pull requests
          Threads,
          Features,   \* [id |-> [group, version, epic, tag]], as PrMapping wants them
          WithCases,  \* the features that have test cases
          Picked,     \* the features that users, or similarity, may choose
          Issues,     \* Jira's issues
          Text,       \* [Numbers -> [keys, tags]]
          Page,       \* per_page of list_pulls
          MaxPushes, MaxTime, MaxWork, MaxMigrations

ASSUME SyncAssumption ==
    /\ WithCases \subseteq DOMAIN Features /\ Picked \subseteq DOMAIN Features
    /\ Page \in Nat \ {0}
    /\ {MaxPushes, MaxWork, MaxMigrations} \subseteq Nat /\ MaxTime \in Nat \ {0}
    /\ None \notin Numbers \union DOMAIN Features
    /\ IsFiniteSet(Numbers) /\ IsFiniteSet(DOMAIN Features)
    /\ \A f \in DOMAIN Features : Features[f].version \in Nat

VARIABLES
    clock,      \* the second of the latest update
    upstream,   \* updates made on GitHub: a set of <<number, second>>
    last,       \* last_synced of the repository
    prs,        \* number -> its document, or None
    runs,       \* code_coverage_runs: a set of [id, n, fid, status]
    cov,        \* number -> the feature its coverage document was computed for
    migrating,  \* admission refuses new work
    th,         \* thread -> what it is doing
    work,       \* ingestions begun
    migrations, \* migrations begun, for the bound
    seen,       \* history: number -> newest version ever upserted
    listed,     \* history: second of the last listing
    excused,    \* history: numbers the watermark may pass unseen
    broken      \* history: numbers two threads worked on, or one gave up on

store == <<last, prs, runs, cov>>
history == <<seen, listed, excused, broken>>
vars == <<clock, upstream, store, migrating, th, work, migrations, history>>

Fids == DOMAIN Features \union {None}
Idle == [pc |-> "idle"]

Ingestion == {"upsert", "map", "create", "enrich", "resolve", "remap", "cover", "finish"}

\* What a thread is doing: a sync, an ingestion (`after': the sync it is part
\* of, if any), or the review of an assignment.
Versions == Numbers \X (1..MaxTime)
Documents == [upd : 1..MaxTime, fid : Fids, manual : BOOLEAN, sug : Fids]
ASSUME DocumentAssumption == None \notin Documents
Rows == [id : 1..MaxWork, n : Numbers, fid : Fids, status : {"running", "done", "failed"}]
Syncing == [pc : {"sync"}, n : {None}, newest : 0..MaxTime, todo : Seq(Versions)]
Ingests == [pc : Ingestion, n : Numbers, upd : 1..MaxTime, pin : Fids, fid : Fids,
            manual : BOOLEAN, run : 1..MaxWork, late : BOOLEAN, after : Seq(Syncing)]
Reviewing == [pc : {"review"}, n : Numbers, fid : Fids]

TypeOK ==
    /\ clock \in 1..MaxTime /\ upstream \subseteq Versions
    /\ last \in 0..MaxTime
    /\ prs \in [Numbers -> {None} \union Documents]
    /\ runs \subseteq Rows /\ cov \in [Numbers -> Fids]
    /\ migrating \in BOOLEAN
    /\ th \in [Threads -> {Idle} \union Syncing \union Ingests \union Reviewing]
    /\ work \in 0..MaxWork
    /\ seen \in [Numbers -> 0..MaxTime] /\ listed \in 0..MaxTime
    /\ excused \subseteq Numbers /\ broken \subseteq Numbers

Init ==
    /\ clock = 1 /\ upstream = {} /\ last = 0
    /\ prs = [n \in Numbers |-> None]
    /\ runs = {} /\ cov = [n \in Numbers |-> None]
    /\ migrating = FALSE /\ th = [t \in Threads |-> Idle]
    /\ work = 0 /\ migrations = 0
    /\ seen = [n \in Numbers |-> 0] /\ listed = 0 /\ excused = {} /\ broken = {}

-----------------------------------------------------------------------------
(* GitHub, and a migration *)

Updated(n) == {u \in 1..MaxTime : <<n, u>> \in upstream}

\* The clock is read when GitHub records an update.  An update in a second
\* that was listed already can hide from the watermark.
Push(n) ==
    /\ Cardinality(upstream) < MaxPushes
    /\ \E now \in {clock, clock + 1} \intersect 1..MaxTime :
          /\ clock' = now
          /\ upstream' = upstream \union {<<n, now>>}
          /\ excused' = IF listed = now THEN excused \union {n} ELSE excused
    /\ UNCHANGED <<store, migrating, th, work, migrations, seen, listed, broken>>

BeginMigration == /\ ~migrating /\ migrations < MaxMigrations
                  /\ migrating' = TRUE /\ migrations' = migrations + 1
                  /\ UNCHANGED <<clock, upstream, store, th, work, history>>
EndMigration == /\ migrating /\ migrating' = FALSE
                /\ UNCHANGED <<clock, upstream, store, th, work, migrations, history>>

-----------------------------------------------------------------------------
(* Threads *)

\* A refusal is logged by the webhook's thread and by the poller.
Admitted == ~migrating

\* What fetching the pull request returns.
Fetched(n) == Max(Updated(n))

Busy(n) == \E t \in Threads : th[t].pc # "idle" /\ th[t].n = n
Meets(n) == IF Busy(n) THEN broken \union {n} ELSE broken

\* The first step of ingest_pr for version u of n.
Ingesting(t, n, u, pin) == [pc |-> "upsert", n |-> n, upd |-> u, pin |-> pin,
    fid |-> None, manual |-> FALSE, run |-> work + 1, late |-> FALSE, after |-> <<>>]

\* list_pulls: the pull requests updated last, Page of them.  Among those of
\* one second GitHub may show any, in any order.
Opened == {<<n, Fetched(n)>> : n \in {m \in Numbers : Updated(m) # {}}}
Pages == {P \in SUBSET Opened : /\ Cardinality(P) = Min({Page, Cardinality(Opened)})
                                /\ \A p \in P, q \in Opened \ P : q[2] <= p[2]}
NewestFirst(S) == {s \in [1..Cardinality(S) -> S] :
                     /\ \A p \in S : \E i \in DOMAIN s : s[i] = p
                     /\ \A i, j \in DOMAIN s : i < j => s[j][2] <= s[i][2]}

\* sync_repo reads the watermark and lists the newest pull requests.  When
\* GitHub answers with an error, nothing happens.
StartSync(t) ==
    /\ th[t].pc = "idle"
    /\ \E pulls \in Pages : \E todo \in NewestFirst({p \in pulls : p[2] > last}) :
          /\ th' = [th EXCEPT ![t] = [pc |-> "sync", n |-> None, newest |-> last, todo |-> todo]]
          /\ excused' = excused \union {p[1] : p \in Opened \ pulls}
    /\ listed' = clock
    /\ UNCHANGED <<clock, upstream, store, migrating, work, migrations, seen, broken>>

\* The next pull request of a sync.  A refused one ends the sync.
SyncNext(t) ==
    /\ th[t].pc = "sync" /\ th[t].todo # <<>> /\ Admitted /\ work < MaxWork
    /\ LET n == Head(th[t].todo)[1]  u == Head(th[t].todo)[2] IN
       /\ th' = [th EXCEPT ![t] = [Ingesting(t, n, u, None) EXCEPT !.after =
                    <<[th[t] EXCEPT !.todo = Tail(@), !.newest = Max({@, u})]>>]]
       /\ broken' = Meets(n)
    /\ work' = work + 1
    /\ UNCHANGED <<clock, upstream, store, migrating, migrations, seen, listed, excused>>

\* Mutant: a refused pull request is skipped, and the sync goes on.
RefusedSkips(t) ==
    /\ th[t].pc = "sync" /\ th[t].todo # <<>> /\ ~Admitted
    /\ th' = [th EXCEPT ![t] = [@ EXCEPT !.todo = Tail(@),
                                         !.newest = Max({@, Head(th[t].todo)[2]})]]
    /\ UNCHANGED <<clock, upstream, store, migrating, work, migrations, history>>

SyncRefused(t) ==
    /\ th[t].pc = "sync" /\ th[t].todo # <<>> /\ ~Admitted
    /\ th' = [th EXCEPT ![t] = Idle]
    /\ UNCHANGED <<clock, upstream, store, migrating, work, migrations, history>>

SyncDone(t) ==
    /\ th[t].pc = "sync" /\ th[t].todo = <<>>
    /\ last' = th[t].newest /\ th' = [th EXCEPT ![t] = Idle]
    /\ UNCHANGED <<clock, upstream, prs, runs, cov, migrating, work, migrations, history>>

\* Connecting a repository that is connected already starts over.
Reconnect ==
    /\ last > 0 /\ last' = 0
    /\ UNCHANGED <<clock, upstream, prs, runs, cov, migrating, th, work, migrations, history>>

\* A webhook, possibly late, with the version it was sent for.  During a
\* migration it is dropped, which leaves no trace.
Event(t, n, u) ==
    /\ th[t].pc = "idle" /\ Admitted /\ work < MaxWork /\ u \in Updated(n)
    /\ th' = [th EXCEPT ![t] = Ingesting(t, n, u, None)]
    /\ work' = work + 1 /\ broken' = Meets(n)
    /\ UNCHANGED <<clock, upstream, store, migrating, migrations, seen, listed, excused>>

\* analyze_pr (pin = None) and a manual run, which fetch the pull request.
\* Only the latter is refused during a migration.
ManualRun(t, n, pin) ==
    /\ th[t].pc = "idle" /\ work < MaxWork /\ Updated(n) # {} /\ (pin # None => Admitted)
    /\ th' = [th EXCEPT ![t] = Ingesting(t, n, Fetched(n), pin)]
    /\ work' = work + 1 /\ broken' = Meets(n)
    /\ UNCHANGED <<clock, upstream, store, migrating, migrations, seen, listed, excused>>

-----------------------------------------------------------------------------
(* ingest_pr *)

At(t, pc) == th[t].pc = pc
Goto(t, pc) == th' = [th EXCEPT ![t].pc = pc]
ingestFrame == <<clock, upstream, last, migrating, work, migrations, listed, excused>>

\* upsert_pr: the mapping of an existing document is not touched.
Stored(n, u) == IF prs[n] = None THEN [upd |-> u, fid |-> None, manual |-> FALSE, sug |-> None]
                ELSE [prs[n] EXCEPT !.upd = u]

Registered(t) ==
    /\ prs' = [prs EXCEPT ![th[t].n] = Stored(th[t].n, th[t].upd)]
    /\ seen' = [seen EXCEPT ![th[t].n] = Max({@, th[t].upd})]
    /\ UNCHANGED <<ingestFrame, runs, cov, broken>>

Decide(t, fid, manual) ==
    th' = [th EXCEPT ![t].pc = "map", ![t].fid = fid, ![t].manual = manual]

Keyword(n, jiraOk) == MapPrToFeature(Features, Issues, jiraOk, Text[n])

\* Mutant: re-ingestion maps anew whatever was assigned.
UpsertForgetful(t) ==
    /\ At(t, "upsert") /\ Registered(t)
    /\ \/ th[t].pin # None /\ Decide(t, th[t].pin, TRUE)
       \/ /\ th[t].pin = None
          /\ \E jiraOk \in BOOLEAN : Decide(t, Keyword(th[t].n, jiraOk), FALSE)

\* The document is stored and its mapping read back: a manual assignment is
\* kept, otherwise the keyword tiers decide, which may ask Jira.
Upsert(t) ==
    /\ At(t, "upsert") /\ Registered(t)
    /\ LET row == Stored(th[t].n, th[t].upd) IN
       \/ th[t].pin # None /\ Decide(t, th[t].pin, TRUE)
       \/ th[t].pin = None /\ row.manual /\ row.fid # None /\ Decide(t, row.fid, TRUE)
       \/ /\ th[t].pin = None /\ ~(row.manual /\ row.fid # None)
          /\ \E jiraOk \in BOOLEAN : Decide(t, Keyword(th[t].n, jiraOk), FALSE)

\* set_pr_mapping: a mapping found replaces a suggestion.
Mapped(row, fid, manual) ==
    [row EXCEPT !.fid = fid, !.manual = manual, !.sug = IF fid = None THEN @ ELSE None]

\* The threads with n's mapping after a manual one was written: those that
\* have made up their mind about it already are late.
Overtaken(n) == [t \in Threads |->
    IF th[t].pc \in Ingestion \ {"upsert"} /\ th[t].n = n
    THEN [th[t] EXCEPT !.late = TRUE] ELSE th[t]]

SetMapping(t) ==
    /\ At(t, "map")
    /\ prs' = [prs EXCEPT ![th[t].n] = Mapped(@, th[t].fid, th[t].manual)]
    /\ th' = [IF th[t].manual THEN Overtaken(th[t].n) ELSE th
                 EXCEPT ![t] = [th[t] EXCEPT !.pc = "create"]]
    /\ UNCHANGED <<ingestFrame, runs, cov, seen, broken>>

\* Mutant: the earlier rows of the pull request stay.
RunAppended(row) == runs \union {row}

\* create_code_coverage_run deletes the pull request's rows and inserts one.
RunReplaced(row) == {r \in runs : r.n # row.n} \union {row}

CreateRun(t) ==
    /\ At(t, "create") /\ Goto(t, "enrich")
    /\ runs' = RunReplaced([id |-> th[t].run, n |-> th[t].n, fid |-> th[t].fid,
                            status |-> "running"])
    /\ UNCHANGED <<ingestFrame, prs, cov, seen, broken>>

\* The files have been fetched, or not; the document is stored again.
Enrich(t) ==
    /\ At(t, "enrich")
    /\ prs' = [prs EXCEPT ![th[t].n] = Stored(th[t].n, th[t].upd)]
    /\ Goto(t, IF th[t].fid # None THEN "cover" ELSE "resolve")
    /\ UNCHANGED <<ingestFrame, runs, cov, seen, broken>>

\* resolve_pr_mapping and set_pr_suggestion.
Resolve(t) ==
    /\ At(t, "resolve")
    /\ \E jiraOk \in BOOLEAN, similar \in Picked \union {None} :
          LET found == ResolvePrMapping(Keyword(th[t].n, jiraOk), similar)
          IN  /\ prs' = [prs EXCEPT ![th[t].n].sug = found.suggestion]
              /\ th' = [th EXCEPT ![t].pc = IF found.feature = None THEN "finish" ELSE "remap",
                                  ![t].fid = found.feature]
    /\ UNCHANGED <<ingestFrame, runs, cov, seen, broken>>

\* Updates of a run whose row another ingestion deleted do nothing.
Updating(id, field, value) == {IF r.id = id THEN [r EXCEPT ![field] = value] ELSE r : r \in runs}

\* The mapping found late moves the pull request and its run.
Remap(t) ==
    /\ At(t, "remap") /\ Goto(t, "cover")
    /\ prs' = [prs EXCEPT ![th[t].n] = Mapped(@, th[t].fid, FALSE)]
    /\ runs' = Updating(th[t].run, "fid", th[t].fid)
    /\ UNCHANGED <<ingestFrame, cov, seen, broken>>

\* The review, _pr_coverage, ends with its result being stored.  A feature
\* without cases is not reviewed.
Cover(t) ==
    /\ At(t, "cover") /\ Goto(t, "finish")
    /\ cov' = IF th[t].fid \in WithCases THEN [cov EXCEPT ![th[t].n] = th[t].fid] ELSE cov
    /\ UNCHANGED <<ingestFrame, prs, runs, seen, broken>>

\* The thread goes back to its sync, if it has one.
Leave(t) == th' = [th EXCEPT ![t] = IF th[t].after = <<>> THEN Idle ELSE th[t].after[1]]

EndRun(t, status) ==
    /\ runs' = Updating(th[t].run, "status", status)
    /\ Leave(t)

Finish(t) ==
    /\ At(t, "finish") /\ EndRun(t, "done")
    /\ UNCHANGED <<ingestFrame, prs, cov, seen, broken>>

\* A review that fails is recorded on the run.
ReviewFails(t) ==
    /\ At(t, "cover") /\ EndRun(t, "failed")
    /\ broken' = broken \union {th[t].n}
    /\ UNCHANGED <<ingestFrame, prs, cov, seen>>

\* Any other exception ends ingest_pr; run_tracked notes it on the job and
\* the sync goes on.  If the process stops, the sync ends as well.
IngestFails(t) ==
    /\ th[t].pc \in Ingestion \ {"cover"}
    /\ broken' = broken \union {th[t].n}
    /\ \/ Leave(t) /\ excused' = IF th[t].after = <<>> THEN excused
                                 ELSE excused \union {th[t].n}
       \/ th' = [th EXCEPT ![t] = Idle] /\ UNCHANGED excused
    /\ UNCHANGED <<clock, upstream, store, migrating, work, migrations, seen, listed>>

-----------------------------------------------------------------------------
(* Manual assignment *)

\* assign_pr: the mapping at once, the review in a thread, which a
\* migration refuses.
AssignPr(t, n, f) ==
    /\ th[t].pc = "idle" /\ prs[n] # None /\ work < MaxWork
    /\ prs' = [prs EXCEPT ![n] = Mapped(@, f, TRUE)]
    /\ th' = [Overtaken(n) EXCEPT ![t] = IF ~Admitted THEN Idle
                ELSE [pc |-> "review", n |-> n, fid |-> f]]
    /\ work' = work + 1
    /\ broken' = IF ~Admitted THEN broken \union {n} ELSE Meets(n)
    /\ UNCHANGED <<clock, upstream, last, runs, cov, migrating, migrations, seen, listed, excused>>

\* _pr_coverage of an assignment stores an empty result for a feature
\* without cases.
Review(t) ==
    /\ At(t, "review") /\ th' = [th EXCEPT ![t] = Idle]
    /\ \/ cov' = [cov EXCEPT ![th[t].n] = th[t].fid] /\ UNCHANGED broken
       \/ UNCHANGED cov /\ broken' = broken \union {th[t].n}
    /\ UNCHANGED <<ingestFrame, prs, runs, seen>>

\* reassign: the run row first, then a manual run, which may be refused.
Reassign(t, r, f) ==
    /\ th[t].pc = "idle" /\ work < MaxWork /\ Updated(r.n) # {}
    /\ runs' = Updating(r.id, "fid", f)
    /\ th' = [th EXCEPT ![t] = IF ~Admitted THEN Idle
                ELSE Ingesting(t, r.n, Fetched(r.n), f)]
    /\ work' = work + 1
    /\ broken' = IF ~Admitted THEN broken \union {r.n} ELSE Meets(r.n)
    /\ UNCHANGED <<clock, upstream, last, prs, cov, migrating, migrations, seen, listed, excused>>

-----------------------------------------------------------------------------
Environment == (\E n \in Numbers : Push(n)) \/ BeginMigration \/ EndMigration
               \/ Reconnect

Requests(t) ==
    \/ StartSync(t)
    \/ \E n \in Numbers :
          \/ \E u \in 1..MaxTime : Event(t, n, u)
          \/ \E pin \in Picked \union {None} : ManualRun(t, n, pin)
          \/ \E f \in Picked : AssignPr(t, n, f)
    \/ \E r \in runs, f \in Picked : Reassign(t, r, f)

Steps(t) ==
    \/ SyncNext(t) \/ SyncRefused(t) \/ SyncDone(t)
    \/ Upsert(t) \/ SetMapping(t) \/ CreateRun(t) \/ Enrich(t) \/ Resolve(t) \/ Remap(t)
    \/ Cover(t) \/ Finish(t) \/ ReviewFails(t) \/ IngestFails(t) \/ Review(t)

Next == Environment \/ \E t \in Threads : Requests(t) \/ Steps(t)

Spec == Init /\ [][Next]_vars

-----------------------------------------------------------------------------
(* Properties *)

\* What the watermark has passed was ingested, in that version or a newer
\* one.  Excused are the pull requests whose ingestion raised, those a
\* listing of Page did not show, and those updated in a second listed before.
\* A migration that refuses work must leave the watermark behind.
WatermarkCovers ==
    \A p \in upstream : p[2] <= last /\ p[1] \notin excused => seen[p[1]] >= p[2]

\* An automatic mapping replaces a manual assignment only by the step of an
\* ingestion of that pull request that had decided before the assignment was
\* written (or written again by an ingestion that keeps it).
ManualKept ==
    [][\A n \in Numbers :
          prs[n] # None /\ prs[n].manual /\ ~prs'[n].manual
          => \E t \in Threads : /\ th[t].pc \in {"map", "remap"} /\ th[t].n = n /\ th[t].late
                               /\ th'[t] # th[t]]_vars

\* When nobody works on a pull request, and never two did, nor one gave up
\* on it, the review stored is that of the feature it is mapped to and there
\* is at most one run, which has ended.
AtRest ==
    \A n \in Numbers : ~Busy(n) /\ n \notin broken /\ prs[n] # None =>
        LET mine == {r \in runs : r.n = n} IN
        /\ prs[n].fid \in WithCases => cov[n] = prs[n].fid
        /\ Cardinality(mine) <= 1
        /\ \A r \in mine : r.status # "running"

=============================================================================
