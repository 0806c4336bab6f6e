---------------------------- MODULE PrSync_proofs ----------------------------
(***************************************************************************)
(* What the watermark of a repository has passed was ingested, a manual    *)
(* assignment gives way only to a late ingestion, a pull request left      *)
(* alone is reviewed for the feature it is mapped to, and similarity       *)
(* suggests only a feature that leads clearly: for any pull requests,      *)
(* threads, features, chunks and bounds.                                   *)
(***************************************************************************)
EXTENDS Suggesting, FiniteSetTheorems, SequenceTheorems, WellFoundedInduction, TLAPS

-----------------------------------------------------------------------------
(* Extrema, and what the mapping returns *)

(* A finite set has an element of the greatest value.                      *)
LEMMA Greatest ==
  ASSUME NEW S, IsFiniteSet(S), S # {}, NEW v, \A x \in S : v[x] \in Nat
  PROVE  \E x \in S : \A y \in S : v[y] <= v[x]
<1>. DEFINE Above(x) == {y \in S : v[x] < v[y]}
            T == {Above(x) : x \in S}
<1>1. T \subseteq FiniteSubsetsOf(S) /\ T # {}
  <2>1. \A x \in S : Above(x) \subseteq S
    OBVIOUS
  <2>2. \A x \in S : IsFiniteSet(Above(x))
    BY <2>1, FS_Subset
  <2>. QED
    BY <2>1, <2>2 DEF FiniteSubsetsOf
<1>2. PICK A \in T : \A B \in T : <<B, A>> \notin StrictSubsetOrdering(S)
  <2>. HIDE DEF T
  <2>1. IsWellFoundedOn(StrictSubsetOrdering(S), FiniteSubsetsOf(S))
    BY FS_StrictSubsetOrderingWellFounded
  <2>. QED
    BY <1>1, <2>1, WFMin, Zenon
<1>3. PICK x \in S : A = Above(x)
  OBVIOUS
<1>4. ASSUME NEW y \in S, v[x] < v[y]
      PROVE  FALSE
  <2>1. Above(y) \subseteq Above(x) /\ y \in Above(x) /\ y \notin Above(y)
    BY <1>4
  <2>2. <<Above(y), Above(x)>> \in StrictSubsetOrdering(S)
    BY <2>1 DEF StrictSubsetOrdering
  <2>. QED
    BY <1>2, <1>3, <2>2
<1>. QED
  BY <1>4

LEMMA MaxIs ==
  ASSUME NEW S \in SUBSET (1 .. MaxTime), S # {}
  PROVE  Max(S) \in S /\ \A y \in S : y <= Max(S)
<1>. DEFINE v == [y \in S |-> y]
<1>1. IsFiniteSet(S)
  <2>1. IsFiniteSet(1 .. MaxTime)
    BY FS_Interval, SyncAssumption
  <2>. QED
    BY <2>1, FS_Subset
<1>2. PICK x \in S : \A y \in S : v[y] <= v[x]
  <2>1. \A x \in S : v[x] \in Nat
    OBVIOUS
  <2>. HIDE DEF v
  <2>. QED
    BY <1>1, <2>1, Greatest, Zenon
<1>. QED
  BY <1>2 DEF Max

LEMMA MaxOfTwo ==
  ASSUME NEW x \in Nat, NEW y \in Nat
  PROVE  Max({x, y}) = IF x >= y THEN x ELSE y
BY DEF Max

LEMMA MinOfTiers ==
  ASSUME NEW S \in SUBSET (1 .. 3), S # {}
  PROVE  Min(S) \in 1 .. 3
<1>1. \E x \in S : \A y \in S : x <= y
  <2>1. CASE 1 \in S
    BY <2>1
  <2>2. CASE 1 \notin S /\ 2 \in S
    BY <2>2
  <2>3. CASE 1 \notin S /\ 2 \notin S
    <3>1. \A x \in S : x = 3
      BY <2>3
    <3>2. PICK x \in S : x = 3
      BY <3>1
    <3>. QED
      BY <3>1, <3>2
  <2>. QED
    BY <2>1, <2>2, <2>3
<1>. QED
  BY <1>1 DEF Min

(* A nonempty set of features has one of the newest version.               *)
LEMMA LatestIs ==
  ASSUME NEW fs \in SUBSET DOMAIN Features, fs # {}
  PROVE  Latest(Features, fs) \in fs
<1>. DEFINE v == [f \in DOMAIN Features |-> Features[f].version]
<1>1. IsFiniteSet(fs)
  BY FS_Subset, SyncAssumption
<1>2. PICK x \in fs : \A y \in fs : v[y] <= v[x]
  <2>1. \A x \in fs : v[x] \in Nat
    BY SyncAssumption
  <2>. HIDE DEF v
  <2>. QED
    BY <1>1, <2>1, Greatest, Zenon
<1>. QED
  BY <1>2 DEF Latest

LEMMA EpicIs == ASSUME NEW key PROVE FeatureByEpic(Features, key) \in Fids
BY LatestIs DEF FeatureByEpic, Fids

LEMMA TagIs == ASSUME NEW tags PROVE ByTag(Features, tags) \in Fids
<1>1. FeaturesWithMatchKey(Features) \subseteq DOMAIN Features
  <2>1. ASSUME NEW f \in DOMAIN Features, Features[f].tag # None
        PROVE  Latest(Features, {g \in {h \in DOMAIN Features : Features[h].tag # None} :
                                    Features[g].group = Features[f].group}) \in DOMAIN Features
    BY <2>1, LatestIs
  <2>. QED
    BY <2>1 DEF FeaturesWithMatchKey
<1>. QED
  BY <1>1 DEF ByTag, Fids

LEMMA KeywordIs == ASSUME NEW n, NEW jiraOk PROVE Keyword(n, jiraOk) \in Fids
<1>. DEFINE pr == Text[n]
            one == ByEpicKey(Features, pr.keys)
            two == IF jiraOk THEN ByTicketKey(Features, Issues, pr.keys) ELSE None
            three == ByTag(Features, pr.tags)
            tiers == <<one, two, three>>
            hits == {i \in 1 .. 3 : tiers[i] # None}
<1>1. one \in Fids
  BY EpicIs DEF ByEpicKey, Fids
<1>2. two \in Fids
  BY EpicIs DEF ByTicketKey, Fids
<1>3. three \in Fids
  BY TagIs
<1>. HIDE DEF one, two, three
<1>4. \A i \in 1 .. 3 : tiers[i] \in Fids
  BY <1>1, <1>2, <1>3
<1>5. hits # {} => Min(hits) \in 1 .. 3
  BY MinOfTiers
<1>6. Keyword(n, jiraOk) = IF hits = {} THEN None ELSE tiers[Min(hits)]
  BY DEF Keyword, MapPrToFeature, one, two, three
<1>. QED
  BY <1>4, <1>5, <1>6 DEF Fids

-----------------------------------------------------------------------------
(* The types *)

Doing == {Idle} \union Syncing \union Ingests \union Reviewing

LEMMA Doings ==
  ASSUME TypeOK, NEW t \in Threads
  PROVE  /\ th[t] \in Doing
         /\ th[t].pc = "idle" => th[t] = Idle
         /\ th[t].pc = "sync" => th[t] \in Syncing
         /\ th[t].pc \in Ingestion => th[t] \in Ingests
         /\ th[t].pc = "review" => th[t] \in Reviewing
<1>1. th[t] \in Doing
  BY DEF TypeOK, Doing
<1>. QED
  BY <1>1 DEF Doing, Idle, Syncing, Ingests, Reviewing, Ingestion

LEMMA Moved ==
  ASSUME TypeOK, NEW t \in Threads, NEW y \in Doing, th' = [th EXCEPT ![t] = y]
  PROVE  /\ th' \in [Threads -> {Idle} \union Syncing \union Ingests \union Reviewing]
         /\ th'[t] = y /\ \A s \in Threads \ {t} : th'[s] = th[s]
BY DEF TypeOK, Doing

LEMMA AfterIs ==
  ASSUME NEW x \in Ingests
  PROVE  /\ x.after # <<>> => x.after[1] \in Syncing
         /\ (IF x.after = <<>> THEN Idle ELSE x.after[1]) \in {Idle} \union Syncing
<1>1. x.after \in Seq(Syncing)
  BY DEF Ingests
<1>2. x.after # <<>> => 1 \in 1 .. Len(x.after)
  BY <1>1, EmptySeq
<1>3. x.after # <<>> => x.after[1] \in Syncing
  BY <1>1, <1>2, ElementOfSeq
<1>. QED
  BY <1>3

LEMMA FetchedIs ==
  ASSUME NEW n, Updated(n) # {}
  PROVE  /\ Fetched(n) \in 1 .. MaxTime /\ <<n, Fetched(n)>> \in upstream
         /\ \A u \in Updated(n) : u <= Fetched(n)
<1>1. Updated(n) \in SUBSET (1 .. MaxTime)
  BY DEF Updated
<1>2. Fetched(n) \in Updated(n) /\ \A u \in Updated(n) : u <= Fetched(n)
  BY <1>1, MaxIs DEF Fetched
<1>. QED
  BY <1>2 DEF Updated

LEMMA BeginsIs ==
  ASSUME TypeOK, NEW t, NEW n \in Numbers, NEW u \in 1 .. MaxTime, NEW pin \in Fids,
         work < MaxWork
  PROVE  Ingesting(t, n, u, pin) \in Ingests
<1>1. work + 1 \in 1 .. MaxWork
  BY SyncAssumption DEF TypeOK
<1>2. <<>> \in Seq(Syncing)
  BY EmptySeq
<1>. QED
  BY <1>1, <1>2 DEF Ingesting, Ingests, Ingestion, Fids

LEMMA MeetsIs ==
  ASSUME TypeOK, NEW n \in Numbers
  PROVE  Meets(n) \subseteq Numbers
BY DEF TypeOK, Meets

LEMMA StoredIs ==
  ASSUME TypeOK, NEW n \in Numbers, NEW u \in 1 .. MaxTime
  PROVE  Stored(n, u) \in Documents
BY DEF TypeOK, Stored, Documents, Fids

LEMMA MappedIs ==
  ASSUME NEW row \in Documents, NEW f \in Fids, NEW m \in BOOLEAN
  PROVE  Mapped(row, f, m) \in Documents
BY DEF Mapped, Documents, Fids

LEMMA ReplacedIs ==
  ASSUME TypeOK, NEW row \in Rows
  PROVE  RunReplaced(row) \subseteq Rows
BY DEF TypeOK, RunReplaced

LEMMA UpdatingIs ==
  ASSUME TypeOK, NEW id,
         NEW field \in {"fid", "status"}, NEW value,
         field = "fid" => value \in Fids,
         field = "status" => value \in {"running", "done", "failed"}
  PROVE  Updating(id, field, value) \subseteq Rows
<1>1. ASSUME NEW r \in runs
      PROVE  [r EXCEPT ![field] = value] \in Rows
  <2>1. r \in Rows
    BY DEF TypeOK
  <2>2. CASE field = "fid"
    BY <2>1, <2>2 DEF Rows
  <2>3. CASE field = "status"
    BY <2>1, <2>3 DEF Rows
  <2>. QED
    BY <2>2, <2>3
<1>. QED
  BY <1>1 DEF Updating, TypeOK

LEMMA OpenedIs ==
  ASSUME TypeOK
  PROVE  /\ IsFiniteSet(Opened) /\ Opened \subseteq Versions \intersect upstream
         /\ \A n \in Numbers : Updated(n) # {} => <<n, Fetched(n)>> \in Opened
<1>. DEFINE N == {n \in Numbers : Updated(n) # {}}
            Newest(n) == <<n, Fetched(n)>>
            f == [n \in N |-> Newest(n)]
<1>1. IsFiniteSet(N)
  BY FS_Subset, SyncAssumption
<1>2. Opened = {Newest(n) : n \in N}
  BY DEF Opened
<1>3. IsFiniteSet({f[n] : n \in N})
  <2>1. f \in [N -> {Newest(n) : n \in N}]
    OBVIOUS
  <2>2. {f[n] : n \in N} = {Newest(n) : n \in N}
    OBVIOUS
  <2>3. f \in Surjection(N, {Newest(n) : n \in N})
    BY <2>1, Zenon DEF Surjection
  <2>. QED
    BY <1>1, <2>2, <2>3, FS_Surjection
<1>4. \A n \in N : Newest(n) \in Versions \intersect upstream
  BY FetchedIs DEF Versions
<1>5. {f[n] : n \in N} = Opened
  BY <1>2
<1>. QED
  BY <1>2, <1>3, <1>4, <1>5

LEMMA SequenceIs ==
  ASSUME NEW S, NEW k \in Nat, NEW seq \in [1 .. k -> S]
  PROVE  seq \in Seq(S)
BY SeqDef

LEMMA ListingIs ==
  ASSUME TypeOK, NEW pulls \in Pages,
         NEW todo \in NewestFirst({p \in pulls : p[2] > last})
  PROVE  /\ todo \in Seq(Versions)
         /\ \A i \in DOMAIN todo : todo[i] \in pulls /\ todo[i] \in upstream
         /\ \A p \in pulls : p[2] > last => \E i \in DOMAIN todo : todo[i] = p
<1>. DEFINE S == {p \in pulls : p[2] > last}
<1>1. pulls \subseteq Opened
  BY DEF Pages
<1>2. IsFiniteSet(S) /\ S \subseteq Versions \intersect upstream
  BY <1>1, OpenedIs, FS_Subset
<1>3. Cardinality(S) \in Nat
  BY <1>2, FS_CardinalityType
<1>4. /\ todo \in [1 .. Cardinality(S) -> S]
      /\ \A p \in S : \E i \in DOMAIN todo : todo[i] = p
  BY DEF NewestFirst
<1>5. todo \in [1 .. Cardinality(S) -> Versions]
  BY <1>2, <1>4
<1>6. todo \in Seq(Versions)
  BY <1>3, <1>5, SequenceIs
<1>. QED
  BY <1>1, <1>2, <1>4, <1>6

-----------------------------------------------------------------------------
(* What each step does *)

LEMMA PushDoes ==
  ASSUME TypeOK, NEW n \in Numbers, Push(n)
  PROVE  /\ TypeOK'
         /\ \E now \in 1 .. MaxTime :
               /\ now >= clock /\ clock' = now /\ upstream' = upstream \union {<<n, now>>}
               /\ excused' = IF listed = now THEN excused \union {n} ELSE excused
         /\ UNCHANGED <<last, prs, runs, cov, th, seen, listed, broken>>
<1>1. PICK now \in {clock, clock + 1} \intersect 1 .. MaxTime :
          /\ clock' = now /\ upstream' = upstream \union {<<n, now>>}
          /\ excused' = IF listed = now THEN excused \union {n} ELSE excused
  BY DEF Push
<1>2. now >= clock /\ <<n, now>> \in Versions
  BY <1>1 DEF TypeOK, Versions
<1>. QED
  BY <1>1, <1>2 DEF Push, TypeOK, store

LEMMA StartSyncDoes ==
  ASSUME TypeOK, NEW t \in Threads, StartSync(t)
  PROVE  /\ TypeOK' /\ th[t].pc = "idle"
         /\ \E pulls \in Pages : \E todo \in NewestFirst({p \in pulls : p[2] > last}) :
               /\ th' = [th EXCEPT ![t] =
                            [pc |-> "sync", n |-> None, newest |-> last, todo |-> todo]]
               /\ [pc |-> "sync", n |-> None, newest |-> last, todo |-> todo] \in Syncing
               /\ excused' = excused \union {p[1] : p \in Opened \ pulls}
         /\ listed' = clock
         /\ UNCHANGED <<clock, upstream, last, prs, runs, cov, seen, broken>>
<1>1. PICK pulls \in Pages : \E todo \in NewestFirst({p \in pulls : p[2] > last}) :
          /\ th' = [th EXCEPT ![t] =
                       [pc |-> "sync", n |-> None, newest |-> last, todo |-> todo]]
          /\ excused' = excused \union {p[1] : p \in Opened \ pulls}
  BY DEF StartSync
<1>2. PICK todo \in NewestFirst({p \in pulls : p[2] > last}) :
          /\ th' = [th EXCEPT ![t] =
                       [pc |-> "sync", n |-> None, newest |-> last, todo |-> todo]]
          /\ excused' = excused \union {p[1] : p \in Opened \ pulls}
  BY <1>1
<1>3. todo \in Seq(Versions)
  BY ListingIs
<1>4. PICK y : y = [pc |-> "sync", n |-> None, newest |-> last, todo |-> todo]
  OBVIOUS
<1>5. y \in Syncing
  BY <1>3, <1>4 DEF Syncing, TypeOK
<1>6. th' \in [Threads -> {Idle} \union Syncing \union Ingests \union Reviewing]
  BY <1>2, <1>4, <1>5, Moved DEF Doing
<1>7. {p[1] : p \in Opened \ pulls} \subseteq Numbers
  BY OpenedIs DEF Versions
<1>8. UNCHANGED <<clock, upstream, store, migrating, work, seen, broken>> /\ listed' = clock
  BY DEF StartSync
<1>9. TypeOK'
  BY <1>2, <1>6, <1>7, <1>8 DEF TypeOK, store
<1>. QED
  BY <1>2, <1>4, <1>5, <1>8, <1>9 DEF StartSync, store

LEMMA SyncNextDoes ==
  ASSUME TypeOK, NEW t \in Threads, SyncNext(t)
  PROVE  /\ TypeOK' /\ th[t] \in Syncing /\ th[t].todo # <<>>
         /\ \E S \in Syncing, n \in Numbers, u \in 1 .. MaxTime :
               /\ <<n, u>> = Head(th[t].todo)
               /\ S.newest = (IF th[t].newest >= u THEN th[t].newest ELSE u)
               /\ S.todo = Tail(th[t].todo)
               /\ th' = [th EXCEPT ![t] = [Ingesting(t, n, u, None) EXCEPT !.after = <<S>>]]
               /\ [Ingesting(t, n, u, None) EXCEPT !.after = <<S>>] \in Ingests
               /\ broken' = Meets(n)
         /\ UNCHANGED <<clock, upstream, last, prs, runs, cov, seen, listed, excused>>
<1>1. th[t] \in Syncing
  BY Doings DEF SyncNext
<1>2. th[t].todo \in Seq(Versions) /\ th[t].todo # <<>> /\ th[t].newest \in 0 .. MaxTime
  BY <1>1 DEF Syncing, SyncNext
<1>3. Head(th[t].todo) \in Versions /\ Tail(th[t].todo) \in Seq(Versions)
  BY <1>2, HeadTailProperties
<1>4. PICK n \in Numbers, u \in 1 .. MaxTime : <<n, u>> = Head(th[t].todo)
  BY <1>3, SMTT(30) DEF Versions
<1>5. PICK S : S = [th[t] EXCEPT !.todo = Tail(@), !.newest = Max({@, u})]
  OBVIOUS
<1>6. Max({th[t].newest, u}) = IF th[t].newest >= u THEN th[t].newest ELSE u
  BY <1>2, MaxOfTwo
<1>7. /\ S \in Syncing /\ S.todo = Tail(th[t].todo)
      /\ S.newest = IF th[t].newest >= u THEN th[t].newest ELSE u
  <2>1. PICK m \in 0 .. MaxTime :
            m = Max({th[t].newest, u}) /\ m = IF th[t].newest >= u THEN th[t].newest ELSE u
    BY <1>2, <1>6
  <2>2. S = [th[t] EXCEPT !.todo = Tail(th[t].todo), !.newest = m]
    BY <1>1, <1>5, <2>1 DEF Syncing
  <2>3. S = [pc |-> "sync", n |-> None, newest |-> m, todo |-> Tail(th[t].todo)]
    BY <1>1, <2>2 DEF Syncing
  <2>. QED
    BY <1>3, <2>1, <2>3 DEF Syncing
<1>8. PICK y : y = [Ingesting(t, n, u, None) EXCEPT !.after = <<S>>]
  OBVIOUS
<1>9. y \in Ingests
  <2>1. Ingesting(t, n, u, None) \in Ingests
    BY BeginsIs DEF SyncNext, Fids
  <2>2. <<S>> \in Seq(Syncing)
    BY <1>7
  <2>. QED
    BY <1>8, <2>1, <2>2 DEF Ingests
<1>10. /\ th' = [th EXCEPT ![t] = y] /\ broken' = Meets(n) /\ work' = work + 1 /\ work < MaxWork
       /\ UNCHANGED <<clock, upstream, store, migrating, seen, listed, excused>>
  <2>1. Head(th[t].todo)[1] = n /\ Head(th[t].todo)[2] = u
    BY <1>4
  <2>. QED
    BY <1>5, <1>8, <2>1 DEF SyncNext
<1>11. th' \in [Threads -> {Idle} \union Syncing \union Ingests \union Reviewing]
  BY <1>9, <1>10, Moved DEF Doing
<1>12. work' \in 0 .. MaxWork
  BY <1>10, SyncAssumption DEF TypeOK
<1>13. TypeOK'
  BY <1>10, <1>11, <1>12, MeetsIs DEF TypeOK, store
<1>. QED
  BY <1>1, <1>2, <1>4, <1>7, <1>8, <1>9, <1>10, <1>13 DEF store

\* A thread as it was, but for having been told that it is late.
Alike(x, y) == \/ y = x
               \/ /\ x \in Ingests /\ y \in Ingests /\ x.pc # "upsert" /\ y.late
                  /\ y.pc = x.pc /\ y.n = x.n /\ y.upd = x.upd /\ y.fid = x.fid
                  /\ y.manual = x.manual /\ y.run = x.run /\ y.after = x.after

LEMMA OvertakenIs ==
  ASSUME TypeOK, NEW n
  PROVE  /\ Overtaken(n) \in [Threads -> Doing]
         /\ \A s \in Threads : /\ Alike(th[s], Overtaken(n)[s])
                               /\ th[s].pc \in Ingestion \ {"upsert"} /\ th[s].n = n
                                  => Overtaken(n)[s].late
<1>1. ASSUME NEW s \in Threads, th[s].pc \in Ingestion \ {"upsert"}
      PROVE  /\ [th[s] EXCEPT !.late = TRUE] \in Ingests
             /\ Alike(th[s], [th[s] EXCEPT !.late = TRUE]) /\ [th[s] EXCEPT !.late = TRUE].late
  <2>1. th[s] \in Ingests
    BY <1>1, Doings
  <2>. QED
    BY <1>1, <2>1 DEF Ingests, Alike
<1>2. \A s \in Threads : th[s] \in Doing
  BY Doings
<1>3. \A s \in Threads : /\ Overtaken(n)[s] = IF th[s].pc \in Ingestion \ {"upsert"} /\ th[s].n = n
                                               THEN [th[s] EXCEPT !.late = TRUE] ELSE th[s]
                         /\ Overtaken(n) = [r \in Threads |-> Overtaken(n)[r]]
  BY DEF Overtaken
<1>4. \A s \in Threads : Overtaken(n)[s] \in Doing
  BY <1>1, <1>2, <1>3 DEF Doing
<1>5. Overtaken(n) \in [Threads -> Doing]
  BY <1>4 DEF Overtaken
<1>6. \A s \in Threads : Alike(th[s], th[s])
  BY DEF Alike
<1>. QED
  BY <1>1, <1>3, <1>5, <1>6

LEMMA IdleDoes ==
  ASSUME TypeOK, NEW t \in Threads, SyncRefused(t) \/ SyncDone(t)
  PROVE  /\ TypeOK' /\ th' = [th EXCEPT ![t] = Idle] /\ th[t] \in Syncing
         /\ SyncRefused(t) => UNCHANGED last
         /\ SyncDone(t) => last' = th[t].newest
         /\ UNCHANGED <<clock, upstream, prs, runs, cov, seen, listed, excused, broken>>
<1>1. th[t] \in Syncing
  BY Doings DEF SyncRefused, SyncDone
<1>2. th' = [th EXCEPT ![t] = Idle]
  BY DEF SyncRefused, SyncDone
<1>3. th' \in [Threads -> {Idle} \union Syncing \union Ingests \union Reviewing]
  BY <1>2, Moved DEF Doing
<1>4. last' \in 0 .. MaxTime
  BY <1>1 DEF SyncRefused, SyncDone, Syncing, TypeOK, store
<1>5. UNCHANGED <<clock, upstream, prs, runs, cov, migrating, work, seen, listed, excused, broken>>
  BY DEF SyncRefused, SyncDone, store, history
<1>6. TypeOK'
  BY <1>3, <1>4, <1>5 DEF TypeOK
<1>. QED
  BY <1>1, <1>2, <1>5, <1>6 DEF SyncRefused, SyncDone, store

LEMMA BeginsDoes ==
  ASSUME TypeOK, NEW t \in Threads, NEW n \in Numbers, NEW u \in 1 .. MaxTime,
         NEW pin \in Picked \union {None}, Event(t, n, u) \/ ManualRun(t, n, pin)
  PROVE  /\ TypeOK' /\ th[t].pc = "idle"
         /\ \E v \in 1 .. MaxTime, p \in Fids :
               /\ th' = [th EXCEPT ![t] = Ingesting(t, n, v, p)]
               /\ Ingesting(t, n, v, p) \in Ingests
         /\ broken' = Meets(n)
         /\ UNCHANGED <<clock, upstream, last, prs, runs, cov, seen, listed, excused>>
<1>1. \E v \in 1 .. MaxTime, p \in Fids : th' = [th EXCEPT ![t] = Ingesting(t, n, v, p)]
  <2>1. CASE Event(t, n, u)
    BY <2>1 DEF Event, Fids
  <2>2. CASE ManualRun(t, n, pin)
    BY <2>2, FetchedIs, SyncAssumption DEF ManualRun, Fids
  <2>. QED
    BY <2>1, <2>2
<1>2. PICK v \in 1 .. MaxTime, p \in Fids : th' = [th EXCEPT ![t] = Ingesting(t, n, v, p)]
  BY <1>1
<1>3. /\ th[t].pc = "idle" /\ work < MaxWork /\ work' = work + 1 /\ broken' = Meets(n)
      /\ UNCHANGED <<clock, upstream, store, migrating, seen, listed, excused>>
  BY DEF Event, ManualRun
<1>4. Ingesting(t, n, v, p) \in Ingests
  BY <1>3, BeginsIs
<1>5. th' \in [Threads -> {Idle} \union Syncing \union Ingests \union Reviewing]
  <2>1. PICK y : y = Ingesting(t, n, v, p)
    OBVIOUS
  <2>. QED
    BY <1>2, <1>4, <2>1, Moved DEF Doing
<1>6. work' \in 0 .. MaxWork
  BY <1>3, SyncAssumption DEF TypeOK
<1>7. TypeOK'
  BY <1>3, <1>5, <1>6, MeetsIs DEF TypeOK, store
<1>. QED
  BY <1>2, <1>3, <1>4, <1>7 DEF store

LEMMA ReassignDoes ==
  ASSUME TypeOK, NEW t \in Threads, NEW r \in runs, NEW f \in Picked, Reassign(t, r, f)
  PROVE  /\ TypeOK' /\ th[t].pc = "idle" /\ r.n \in Numbers
         /\ runs' = Updating(r.id, "fid", f)
         /\ \/ th' = [th EXCEPT ![t] = Idle] /\ broken' = broken \union {r.n}
            \/ /\ \E v \in 1 .. MaxTime, p \in Fids :
                     /\ th' = [th EXCEPT ![t] = Ingesting(t, r.n, v, p)]
                     /\ Ingesting(t, r.n, v, p) \in Ingests
               /\ broken' = Meets(r.n)
         /\ UNCHANGED <<clock, upstream, last, prs, cov, seen, listed, excused>>
<1>1. r.n \in Numbers
  BY DEF TypeOK, Rows
<1>2. f \in Fids
  BY SyncAssumption DEF Fids
<1>3. /\ th[t].pc = "idle" /\ work < MaxWork /\ work' = work + 1
      /\ runs' = Updating(r.id, "fid", f)
      /\ UNCHANGED <<clock, upstream, last, prs, cov, migrating, seen, listed, excused>>
  BY DEF Reassign
<1>4. Fetched(r.n) \in 1 .. MaxTime
  BY FetchedIs DEF Reassign
<1>5. PICK v \in 1 .. MaxTime : v = Fetched(r.n)
  BY <1>4
<1>6. PICK y : y = Ingesting(t, r.n, v, f)
  OBVIOUS
<1>7. y \in Ingests
  BY <1>1, <1>2, <1>3, <1>6, BeginsIs
<1>8. \/ th' = [th EXCEPT ![t] = Idle] /\ broken' = broken \union {r.n}
      \/ th' = [th EXCEPT ![t] = y] /\ broken' = Meets(r.n)
  BY <1>5, <1>6 DEF Reassign
<1>9. th' \in [Threads -> {Idle} \union Syncing \union Ingests \union Reviewing]
  BY <1>7, <1>8, Moved DEF Doing
<1>10. work' \in 0 .. MaxWork
  BY <1>3, SyncAssumption DEF TypeOK
<1>11. runs' \subseteq Rows
  BY <1>2, <1>3, UpdatingIs
<1>12. broken' \subseteq Numbers
  BY <1>1, <1>8, MeetsIs DEF TypeOK
<1>13. TypeOK'
  BY <1>3, <1>9, <1>10, <1>11, <1>12 DEF TypeOK
<1>. QED
  BY <1>1, <1>2, <1>3, <1>6, <1>7, <1>8, <1>13

LEMMA AssignPrDoes ==
  ASSUME TypeOK, NEW t \in Threads, NEW n \in Numbers, NEW f \in Picked, AssignPr(t, n, f)
  PROVE  /\ TypeOK' /\ th[t].pc = "idle" /\ f \in Fids \ {None}
         /\ prs[n] \in Documents /\ Mapped(prs[n], f, TRUE) \in Documents
         /\ prs' = [prs EXCEPT ![n] = Mapped(prs[n], f, TRUE)]
         /\ \A s \in Threads \ {t} : /\ Alike(th[s], th'[s])
                                     /\ th[s].pc \in Ingestion \ {"upsert"} /\ th[s].n = n
                                        => th'[s].late
         /\ \/ th'[t] = Idle /\ broken' = broken \union {n}
            \/ th'[t] = [pc |-> "review", n |-> n, fid |-> f] /\ broken' = Meets(n)
         /\ UNCHANGED <<clock, upstream, last, runs, cov, seen, listed, excused>>
<1>1. f \in Fids \ {None}
  BY SyncAssumption DEF Fids
<1>2. /\ th[t].pc = "idle" /\ work < MaxWork /\ work' = work + 1 /\ prs[n] # None
      /\ prs' = [prs EXCEPT ![n] = Mapped(prs[n], f, TRUE)]
      /\ UNCHANGED <<clock, upstream, last, runs, cov, migrating, seen, listed, excused>>
  BY DEF AssignPr
<1>3. prs[n] \in Documents /\ Mapped(prs[n], f, TRUE) \in Documents
  BY <1>1, <1>2, MappedIs DEF TypeOK
<1>4. PICK y \in {Idle} \union Reviewing :
         /\ th' = [Overtaken(n) EXCEPT ![t] = y]
         /\ \/ y = Idle /\ broken' = broken \union {n}
            \/ y = [pc |-> "review", n |-> n, fid |-> f] /\ broken' = Meets(n)
  <2>1. [pc |-> "review", n |-> n, fid |-> f] \in Reviewing
    BY <1>1 DEF Reviewing
  <2>. QED
    BY <2>1 DEF AssignPr
<1>5. /\ th' \in [Threads -> Doing] /\ th'[t] = y
      /\ \A s \in Threads \ {t} : th'[s] = Overtaken(n)[s]
  BY <1>4, OvertakenIs DEF Doing
<1>6. work' \in 0 .. MaxWork
  BY <1>2, SyncAssumption DEF TypeOK
<1>7. prs' \in [Numbers -> {None} \union Documents]
  BY <1>2, <1>3 DEF TypeOK
<1>8. broken' \subseteq Numbers
  BY <1>4, MeetsIs DEF TypeOK
<1>9. TypeOK'
  BY <1>2, <1>5, <1>6, <1>7, <1>8 DEF TypeOK, Doing
<1>. QED
  BY <1>1, <1>2, <1>3, <1>4, <1>5, <1>9, OvertakenIs

\* An ingestion that is at another place, with another decision.
Turned(x, pc, f, m) == [x EXCEPT !.pc = pc, !.fid = f, !.manual = m]

LEMMA TurnedIs ==
  ASSUME NEW x \in Ingests, NEW pc \in Ingestion, NEW f \in Fids, NEW m \in BOOLEAN
  PROVE  /\ Turned(x, pc, f, m) \in Ingests
         /\ Turned(x, pc, f, m).pc = pc /\ Turned(x, pc, f, m).n = x.n
         /\ Turned(x, pc, f, m).upd = x.upd /\ Turned(x, pc, f, m).fid = f
         /\ Turned(x, pc, f, m).manual = m /\ Turned(x, pc, f, m).run = x.run
         /\ Turned(x, pc, f, m).late = x.late /\ Turned(x, pc, f, m).after = x.after
BY DEF Turned, Ingests, Fids

\* Thread t turns, and every other stays.
Turns(t, pc, f, m) == th' = [th EXCEPT ![t] = Turned(th[t], pc, f, m)]

LEMMA TurnsDoes ==
  ASSUME TypeOK, NEW t \in Threads, NEW pc \in Ingestion, NEW f \in Fids, NEW m \in BOOLEAN,
         th[t].pc \in Ingestion, Turns(t, pc, f, m)
  PROVE  /\ th[t] \in Ingests /\ th'[t] \in Ingests
         /\ th' \in [Threads -> {Idle} \union Syncing \union Ingests \union Reviewing]
         /\ th'[t].pc = pc /\ th'[t].n = th[t].n /\ th'[t].upd = th[t].upd /\ th'[t].fid = f
         /\ th'[t].manual = m /\ th'[t].run = th[t].run /\ th'[t].late = th[t].late
         /\ th'[t].after = th[t].after
         /\ \A s \in Threads \ {t} : th'[s] = th[s]
<1>1. th[t] \in Ingests
  BY Doings
<1>2. PICK y : y = Turned(th[t], pc, f, m)
  OBVIOUS
<1>3. /\ y \in Ingests /\ y.pc = pc /\ y.n = th[t].n /\ y.upd = th[t].upd /\ y.fid = f
      /\ y.manual = m /\ y.run = th[t].run /\ y.late = th[t].late /\ y.after = th[t].after
  BY <1>1, <1>2, TurnedIs
<1>4. th' = [th EXCEPT ![t] = y]
  BY <1>2 DEF Turns
<1>. QED
  BY <1>1, <1>3, <1>4, Moved DEF Doing

LEMMA IngestIs ==
  ASSUME TypeOK, NEW t \in Threads, th[t].pc \in Ingestion
  PROVE  /\ th[t] \in Ingests /\ th[t].n \in Numbers /\ th[t].upd \in 1 .. MaxTime
         /\ th[t].pin \in Fids /\ th[t].fid \in Fids /\ th[t].manual \in BOOLEAN
         /\ th[t].run \in 1 .. MaxWork
<1>1. th[t] \in Ingests
  BY Doings
<1>. QED
  BY <1>1 DEF Ingests

LEMMA GotoTurns ==
  ASSUME TypeOK, NEW t \in Threads, th[t].pc \in Ingestion, NEW pc, Goto(t, pc)
  PROVE  Turns(t, pc, th[t].fid, th[t].manual)
<1>1. th[t] \in Ingests
  BY IngestIs
<1>2. [th[t] EXCEPT !.pc = pc] = Turned(th[t], pc, th[t].fid, th[t].manual)
  BY <1>1 DEF Ingests, Turned
<1>3. th' = [th EXCEPT ![t] = [th[t] EXCEPT !.pc = pc]]
  BY DEF Goto
<1>. QED
  BY <1>2, <1>3 DEF Turns

LEMMA RegisteredDoes ==
  ASSUME TypeOK, NEW t \in Threads, th[t].pc = "upsert", Registered(t)
  PROVE  /\ Stored(th[t].n, th[t].upd) \in Documents
         /\ prs' = [prs EXCEPT ![th[t].n] = Stored(th[t].n, th[t].upd)]
         /\ prs' \in [Numbers -> {None} \union Documents]
         /\ seen' \in [Numbers -> 0 .. MaxTime]
         /\ seen'[th[t].n] >= seen[th[t].n] /\ seen'[th[t].n] >= th[t].upd
         /\ \A n \in Numbers \ {th[t].n} : seen'[n] = seen[n]
         /\ UNCHANGED <<clock, upstream, last, runs, cov, migrating, work, migrations, listed,
                         excused, broken>>
<1>1. th[t].pc \in Ingestion
  BY DEF Ingestion
<1>2. th[t].n \in Numbers /\ th[t].upd \in 1 .. MaxTime
  BY <1>1, IngestIs
<1>3. Stored(th[t].n, th[t].upd) \in Documents
  BY <1>2, StoredIs
<1>4. PICK m : m = Max({seen[th[t].n], th[t].upd})
  OBVIOUS
<1>5. m \in 0 .. MaxTime /\ m >= seen[th[t].n] /\ m >= th[t].upd
  BY <1>2, <1>4, MaxOfTwo DEF TypeOK
<1>6. seen' = [seen EXCEPT ![th[t].n] = m]
  BY <1>4 DEF Registered
<1>7. prs' = [prs EXCEPT ![th[t].n] = Stored(th[t].n, th[t].upd)]
  BY DEF Registered
<1>8. prs' \in [Numbers -> {None} \union Documents]
  BY <1>2, <1>3, <1>7 DEF TypeOK
<1>9. seen' \in [Numbers -> 0 .. MaxTime]
  BY <1>2, <1>5, <1>6 DEF TypeOK
<1>. QED
  BY <1>2, <1>3, <1>5, <1>6, <1>7, <1>8, <1>9 DEF TypeOK, Registered, ingestFrame

LEMMA UpsertDoes ==
  ASSUME TypeOK, NEW t \in Threads, Upsert(t)
  PROVE  /\ TypeOK' /\ th[t].pc = "upsert" /\ Registered(t)
         /\ \E f \in Fids, m \in BOOLEAN :
               /\ Turns(t, "map", f, m)
               /\ m => f # None
               /\ ~m => LET row == Stored(th[t].n, th[t].upd) IN ~(row.manual /\ row.fid # None)
<1>1. th[t].pc = "upsert" /\ Registered(t) /\ "map" \in Ingestion /\ "upsert" \in Ingestion
  BY DEF Upsert, At, Ingestion
<1>2. th[t].pin \in Fids /\ th[t] \in Ingests
  BY <1>1, IngestIs
<1>3. PICK row : row = Stored(th[t].n, th[t].upd)
  OBVIOUS
<1>4. row.fid \in Fids
  BY <1>1, <1>3, RegisteredDoes DEF Documents
<1>5. \E f \in Fids, m \in BOOLEAN :
         Decide(t, f, m) /\ (m => f # None) /\ (~m => ~(row.manual /\ row.fid # None))
  <2>1. CASE th[t].pin # None /\ Decide(t, th[t].pin, TRUE)
    BY <1>2, <2>1
  <2>2. CASE th[t].pin = None /\ row.manual /\ row.fid # None /\ Decide(t, row.fid, TRUE)
    BY <1>4, <2>2
  <2>3. CASE /\ th[t].pin = None /\ ~(row.manual /\ row.fid # None)
             /\ \E jiraOk \in BOOLEAN : Decide(t, Keyword(th[t].n, jiraOk), FALSE)
    BY <2>3, KeywordIs
  <2>. QED
    BY <1>3, <2>1, <2>2, <2>3 DEF Upsert
<1>6. PICK f \in Fids, m \in BOOLEAN :
         Decide(t, f, m) /\ (m => f # None) /\ (~m => ~(row.manual /\ row.fid # None))
  BY <1>5
<1>7. Turns(t, "map", f, m)
  BY <1>6 DEF Decide, Turns, Turned
<1>8. th' \in [Threads -> {Idle} \union Syncing \union Ingests \union Reviewing]
  BY <1>1, <1>7, TurnsDoes
<1>9. TypeOK'
  BY <1>1, <1>8, RegisteredDoes DEF TypeOK
<1>. QED
  BY <1>1, <1>3, <1>6, <1>7, <1>9

\* A pull request that is being mapped, or that was assigned, is stored.
Known == \A t \in Threads :
    th[t].pc \in (Ingestion \ {"upsert"}) \union {"review"} => prs[th[t].n] # None

LEMMA KnownIs ==
  ASSUME TypeOK, Known, NEW t \in Threads, th[t].pc \in Ingestion \ {"upsert"}
  PROVE  th[t].n \in Numbers /\ prs[th[t].n] \in Documents
<1>1. th[t].n \in Numbers
  BY IngestIs
<1>. QED
  BY <1>1 DEF TypeOK, Known

LEMMA SetMappingDoes ==
  ASSUME TypeOK, Known, NEW t \in Threads, SetMapping(t)
  PROVE  /\ TypeOK' /\ th[t].pc = "map" /\ th[t] \in Ingests /\ th'[t] \in Ingests
         /\ prs' = [prs EXCEPT ![th[t].n] = Mapped(prs[th[t].n], th[t].fid, th[t].manual)]
         /\ Mapped(prs[th[t].n], th[t].fid, th[t].manual) \in Documents
         /\ th'[t].pc = "create" /\ th'[t].n = th[t].n /\ th'[t].upd = th[t].upd
         /\ th'[t].fid = th[t].fid /\ th'[t].manual = th[t].manual /\ th'[t].run = th[t].run
         /\ th'[t].late = th[t].late /\ th'[t].after = th[t].after
         /\ ~th[t].manual => \A s \in Threads \ {t} : th'[s] = th[s]
         /\ \A s \in Threads \ {t} : /\ Alike(th[s], th'[s])
                                     /\ th[t].manual /\ th[s].pc \in Ingestion \ {"upsert"}
                                        /\ th[s].n = th[t].n => th'[s].late
         /\ UNCHANGED <<clock, upstream, last, runs, cov, seen, listed, excused, broken>>
<1>1. th[t].pc = "map" /\ th[t].pc \in Ingestion \ {"upsert"} /\ "create" \in Ingestion
  BY DEF SetMapping, At, Ingestion
<1>2. /\ th[t] \in Ingests /\ th[t].n \in Numbers /\ th[t].fid \in Fids
      /\ th[t].manual \in BOOLEAN
  BY <1>1, IngestIs
<1>3. PICK y : y = [th[t] EXCEPT !.pc = "create"]
  OBVIOUS
<1>4. /\ y \in Ingests /\ y.pc = "create" /\ y.n = th[t].n /\ y.upd = th[t].upd
      /\ y.fid = th[t].fid /\ y.manual = th[t].manual /\ y.run = th[t].run
      /\ y.late = th[t].late /\ y.after = th[t].after
  BY <1>1, <1>2, <1>3 DEF Ingests
<1>5. /\ prs' = [prs EXCEPT ![th[t].n] = Mapped(prs[th[t].n], th[t].fid, th[t].manual)]
      /\ UNCHANGED <<clock, upstream, last, migrating, work, runs, cov, seen, listed, excused, broken>>
  BY DEF SetMapping, ingestFrame
<1>6. th' = [IF th[t].manual THEN Overtaken(th[t].n) ELSE th EXCEPT ![t] = y]
  BY <1>3 DEF SetMapping
<1>7. th \in [Threads -> Doing]
  BY DEF TypeOK, Doing
<1>8. PICK o : o = Overtaken(th[t].n)
  OBVIOUS
<1>9. /\ o \in [Threads -> Doing]
      /\ \A s \in Threads : /\ Alike(th[s], o[s])
                            /\ th[s].pc \in Ingestion \ {"upsert"} /\ th[s].n = th[t].n
                               => o[s].late
  BY <1>8, OvertakenIs
<1>10. /\ th' \in [Threads -> Doing] /\ th'[t] = y
       /\ \A s \in Threads \ {t} : th'[s] = IF th[t].manual THEN o[s] ELSE th[s]
  <2>1. CASE th[t].manual
    BY <1>4, <1>6, <1>8, <1>9, <2>1 DEF Doing
  <2>2. CASE ~th[t].manual
    BY <1>4, <1>6, <1>7, <2>2 DEF Doing
  <2>. QED
    BY <2>1, <2>2
<1>11. \A s \in Threads : Alike(th[s], th[s])
  BY DEF Alike
<1>12. Mapped(prs[th[t].n], th[t].fid, th[t].manual) \in Documents
  BY <1>1, <1>2, KnownIs, MappedIs
<1>13. prs' \in [Numbers -> {None} \union Documents]
  BY <1>2, <1>5, <1>12 DEF TypeOK
<1>14. TypeOK'
  BY <1>5, <1>10, <1>13 DEF TypeOK, Doing
<1>. QED
  BY <1>1, <1>2, <1>4, <1>5, <1>9, <1>10, <1>11, <1>12, <1>14

LEMMA CreateRunDoes ==
  ASSUME TypeOK, NEW t \in Threads, CreateRun(t)
  PROVE  /\ TypeOK' /\ th[t].pc = "create" /\ Turns(t, "enrich", th[t].fid, th[t].manual)
         /\ \E row \in Rows : /\ row.id = th[t].run /\ row.n = th[t].n /\ row.status = "running"
                              /\ runs' = RunReplaced(row)
         /\ UNCHANGED <<clock, upstream, last, prs, cov, seen, listed, excused, broken>>
<1>1. /\ th[t].pc = "create" /\ th[t].pc \in Ingestion /\ "enrich" \in Ingestion
      /\ Goto(t, "enrich")
  BY DEF CreateRun, At, Ingestion
<1>2. PICK row : row = [id |-> th[t].run, n |-> th[t].n, fid |-> th[t].fid, status |-> "running"]
  OBVIOUS
<1>3. row \in Rows /\ row.id = th[t].run /\ row.n = th[t].n /\ row.status = "running"
  BY <1>1, <1>2, IngestIs DEF Rows
<1>4. /\ runs' = RunReplaced(row)
      /\ UNCHANGED <<clock, upstream, last, migrating, work, prs, cov, seen, listed, excused, broken>>
  BY <1>2 DEF CreateRun, ingestFrame
<1>5. runs' \subseteq Rows
  BY <1>3, <1>4, ReplacedIs
<1>6. Turns(t, "enrich", th[t].fid, th[t].manual)
  BY <1>1, GotoTurns
<1>7. th' \in [Threads -> {Idle} \union Syncing \union Ingests \union Reviewing]
  BY <1>1, <1>6, TurnsDoes, IngestIs
<1>8. TypeOK'
  BY <1>4, <1>5, <1>7 DEF TypeOK
<1>. QED
  BY <1>1, <1>3, <1>4, <1>6, <1>8

LEMMA EnrichDoes ==
  ASSUME TypeOK, Known, NEW t \in Threads, Enrich(t)
  PROVE  /\ TypeOK' /\ th[t].pc = "enrich"
         /\ Turns(t, IF th[t].fid # None THEN "cover" ELSE "resolve", th[t].fid, th[t].manual)
         /\ prs[th[t].n] \in Documents
         /\ prs' = [prs EXCEPT ![th[t].n] = [prs[th[t].n] EXCEPT !.upd = th[t].upd]]
         /\ UNCHANGED <<clock, upstream, last, runs, cov, seen, listed, excused, broken>>
<1>1. /\ th[t].pc = "enrich" /\ th[t].pc \in Ingestion \ {"upsert"}
      /\ {"cover", "resolve"} \subseteq Ingestion
      /\ Goto(t, IF th[t].fid # None THEN "cover" ELSE "resolve")
  BY DEF Enrich, At, Ingestion
<1>2. prs[th[t].n] \in Documents /\ th[t].upd \in 1 .. MaxTime /\ th[t].n \in Numbers
  BY <1>1, KnownIs, IngestIs
<1>3. /\ prs' = [prs EXCEPT ![th[t].n] = Stored(th[t].n, th[t].upd)]
      /\ UNCHANGED <<clock, upstream, last, migrating, work, runs, cov, seen, listed, excused, broken>>
  BY DEF Enrich, ingestFrame
<1>4. Stored(th[t].n, th[t].upd) = [prs[th[t].n] EXCEPT !.upd = th[t].upd]
  BY <1>2, DocumentAssumption DEF Stored
<1>5. prs' \in [Numbers -> {None} \union Documents]
  BY <1>2, <1>3, StoredIs DEF TypeOK
<1>6. PICK pc \in Ingestion : pc = IF th[t].fid # None THEN "cover" ELSE "resolve"
  BY <1>1
<1>7. Turns(t, pc, th[t].fid, th[t].manual)
  BY <1>1, <1>6, GotoTurns
<1>8. th' \in [Threads -> {Idle} \union Syncing \union Ingests \union Reviewing]
  BY <1>1, <1>7, TurnsDoes, IngestIs
<1>9. TypeOK'
  BY <1>3, <1>5, <1>8 DEF TypeOK
<1>. QED
  BY <1>1, <1>2, <1>3, <1>4, <1>6, <1>7, <1>9

LEMMA ResolveDoes ==
  ASSUME TypeOK, Known, NEW t \in Threads, Resolve(t)
  PROVE  /\ TypeOK' /\ th[t].pc = "resolve"
         /\ \E f \in Fids : Turns(t, IF f = None THEN "finish" ELSE "remap", f, th[t].manual)
         /\ prs[th[t].n] \in Documents
         /\ \E g \in Fids : prs' = [prs EXCEPT ![th[t].n] = [prs[th[t].n] EXCEPT !.sug = g]]
         /\ UNCHANGED <<clock, upstream, last, runs, cov, seen, listed, excused, broken>>
<1>1. /\ th[t].pc = "resolve" /\ th[t].pc \in Ingestion \ {"upsert"}
      /\ {"finish", "remap"} \subseteq Ingestion
  BY DEF Resolve, At, Ingestion
<1>2. prs[th[t].n] \in Documents /\ th[t].n \in Numbers /\ th[t] \in Ingests
  BY <1>1, KnownIs, IngestIs
<1>3. PICK jiraOk \in BOOLEAN, similar \in Picked \union {None} :
         LET found == ResolvePrMapping(Keyword(th[t].n, jiraOk), similar)
         IN  /\ prs' = [prs EXCEPT ![th[t].n].sug = found.suggestion]
             /\ th' = [th EXCEPT ![t].pc = IF found.feature = None THEN "finish" ELSE "remap",
                                 ![t].fid = found.feature]
  BY DEF Resolve
<1>4. PICK key \in Fids : key = Keyword(th[t].n, jiraOk)
  BY KeywordIs
<1>5. similar \in Fids
  BY SyncAssumption DEF Fids
<1>6. /\ ResolvePrMapping(key, similar).feature \in Fids
      /\ ResolvePrMapping(key, similar).suggestion \in Fids
  BY <1>5 DEF ResolvePrMapping, Fids
<1>7. PICK f \in Fids, g \in Fids : /\ f = ResolvePrMapping(key, similar).feature
                                   /\ g = ResolvePrMapping(key, similar).suggestion
  BY <1>6
<1>8. prs' = [prs EXCEPT ![th[t].n] = [prs[th[t].n] EXCEPT !.sug = g]]
  BY <1>3, <1>4, <1>7
<1>9. PICK pc \in Ingestion : pc = IF f = None THEN "finish" ELSE "remap"
  BY <1>1
<1>10. th' = [th EXCEPT ![t] = [th[t] EXCEPT !.pc = pc, !.fid = f]]
  BY <1>3, <1>4, <1>7, <1>9
<1>11. [th[t] EXCEPT !.pc = pc, !.fid = f] = Turned(th[t], pc, f, th[t].manual)
  BY <1>2 DEF Turned, Ingests
<1>12. Turns(t, pc, f, th[t].manual)
  BY <1>10, <1>11 DEF Turns
<1>13. th' \in [Threads -> {Idle} \union Syncing \union Ingests \union Reviewing]
  BY <1>1, <1>12, TurnsDoes, IngestIs
<1>14. prs' \in [Numbers -> {None} \union Documents]
  BY <1>2, <1>8 DEF TypeOK, Documents
<1>15. UNCHANGED <<clock, upstream, last, migrating, work, runs, cov, seen, listed, excused, broken>>
  BY DEF Resolve, ingestFrame
<1>16. TypeOK'
  BY <1>13, <1>14, <1>15 DEF TypeOK
<1>. QED
  BY <1>1, <1>2, <1>8, <1>9, <1>12, <1>15, <1>16

LEMMA RemapDoes ==
  ASSUME TypeOK, Known, NEW t \in Threads, Remap(t)
  PROVE  /\ TypeOK' /\ th[t].pc = "remap" /\ Turns(t, "cover", th[t].fid, th[t].manual)
         /\ Mapped(prs[th[t].n], th[t].fid, FALSE) \in Documents
         /\ prs' = [prs EXCEPT ![th[t].n] = Mapped(prs[th[t].n], th[t].fid, FALSE)]
         /\ runs' = Updating(th[t].run, "fid", th[t].fid)
         /\ UNCHANGED <<clock, upstream, last, cov, seen, listed, excused, broken>>
<1>1. /\ th[t].pc = "remap" /\ th[t].pc \in Ingestion \ {"upsert"} /\ "cover" \in Ingestion
      /\ Goto(t, "cover")
  BY DEF Remap, At, Ingestion
<1>2. prs[th[t].n] \in Documents /\ th[t].n \in Numbers /\ th[t].fid \in Fids
  BY <1>1, KnownIs, IngestIs
<1>3. /\ prs' = [prs EXCEPT ![th[t].n] = Mapped(prs[th[t].n], th[t].fid, FALSE)]
      /\ runs' = Updating(th[t].run, "fid", th[t].fid)
      /\ UNCHANGED <<clock, upstream, last, migrating, work, cov, seen, listed, excused, broken>>
  BY DEF Remap, ingestFrame
<1>4. Mapped(prs[th[t].n], th[t].fid, FALSE) \in Documents
  BY <1>2, MappedIs
<1>5. prs' \in [Numbers -> {None} \union Documents]
  BY <1>2, <1>3, <1>4 DEF TypeOK
<1>6. runs' \subseteq Rows
  BY <1>2, <1>3, UpdatingIs
<1>7. Turns(t, "cover", th[t].fid, th[t].manual)
  BY <1>1, GotoTurns
<1>8. th' \in [Threads -> {Idle} \union Syncing \union Ingests \union Reviewing]
  BY <1>1, <1>7, TurnsDoes, IngestIs
<1>9. TypeOK'
  BY <1>3, <1>5, <1>6, <1>8 DEF TypeOK
<1>. QED
  BY <1>1, <1>3, <1>4, <1>7, <1>9

LEMMA CoverDoes ==
  ASSUME TypeOK, NEW t \in Threads, Cover(t)
  PROVE  /\ TypeOK' /\ th[t].pc = "cover" /\ Turns(t, "finish", th[t].fid, th[t].manual)
         /\ cov' = IF th[t].fid \in WithCases THEN [cov EXCEPT ![th[t].n] = th[t].fid] ELSE cov
         /\ UNCHANGED <<clock, upstream, last, prs, runs, seen, listed, excused, broken>>
<1>1. /\ th[t].pc = "cover" /\ th[t].pc \in Ingestion /\ "finish" \in Ingestion
      /\ Goto(t, "finish")
  BY DEF Cover, At, Ingestion
<1>2. /\ cov' = IF th[t].fid \in WithCases THEN [cov EXCEPT ![th[t].n] = th[t].fid] ELSE cov
      /\ UNCHANGED <<clock, upstream, last, migrating, work, prs, runs, seen, listed, excused, broken>>
  BY DEF Cover, ingestFrame
<1>3. cov' \in [Numbers -> Fids]
  BY <1>1, <1>2, IngestIs DEF TypeOK
<1>4. Turns(t, "finish", th[t].fid, th[t].manual)
  BY <1>1, GotoTurns
<1>5. th' \in [Threads -> {Idle} \union Syncing \union Ingests \union Reviewing]
  BY <1>1, <1>4, TurnsDoes, IngestIs
<1>6. TypeOK'
  BY <1>2, <1>3, <1>5 DEF TypeOK
<1>. QED
  BY <1>1, <1>2, <1>4, <1>6

\* Where the thread of ingestion x goes when it ends.
Back(x) == IF x.after = <<>> THEN Idle ELSE x.after[1]

LEMMA BackIs ==
  ASSUME NEW x \in Ingests
  PROVE  /\ Back(x) \in {Idle} \union Syncing /\ Back(x).pc \in {"idle", "sync"}
         /\ Back(x).pc = "sync" => x.after # <<>> /\ Back(x) = x.after[1]
<1>1. Back(x) \in {Idle} \union Syncing
  BY AfterIs DEF Back
<1>. QED
  BY <1>1 DEF Back, Idle, Syncing

LEMMA EndRunDoes ==
  ASSUME TypeOK, NEW t \in Threads, Finish(t) \/ ReviewFails(t)
  PROVE  /\ TypeOK' /\ th[t] \in Ingests /\ th' = [th EXCEPT ![t] = Back(th[t])]
         /\ \/ th[t].pc = "finish" /\ UNCHANGED broken
            \/ th[t].pc = "cover" /\ broken' = broken \union {th[t].n}
         /\ \E status \in {"done", "failed"} : runs' = Updating(th[t].run, "status", status)
         /\ UNCHANGED <<clock, upstream, last, prs, cov, seen, listed, excused>>
<1>1. /\ th[t].pc \in Ingestion
      /\ \/ th[t].pc = "finish" /\ UNCHANGED broken
         \/ th[t].pc = "cover" /\ broken' = broken \union {th[t].n}
  BY DEF Finish, ReviewFails, At, Ingestion
<1>2. th[t] \in Ingests /\ th[t].n \in Numbers
  BY <1>1, IngestIs
<1>3. PICK status \in {"done", "failed"} : EndRun(t, status)
  BY DEF Finish, ReviewFails
<1>4. runs' = Updating(th[t].run, "status", status)
  BY <1>3 DEF EndRun
<1>5. th' = [th EXCEPT ![t] = Back(th[t])]
  BY <1>3 DEF EndRun, Leave, Back
<1>6. PICK y : y = Back(th[t])
  OBVIOUS
<1>7. th' \in [Threads -> {Idle} \union Syncing \union Ingests \union Reviewing]
  BY <1>2, <1>5, <1>6, BackIs, Moved DEF Doing
<1>8. runs' \subseteq Rows
  BY <1>4, UpdatingIs
<1>9. UNCHANGED <<clock, upstream, last, migrating, work, prs, cov, seen, listed, excused>>
  BY DEF Finish, ReviewFails, ingestFrame
<1>10. TypeOK'
  BY <1>1, <1>2, <1>7, <1>8, <1>9 DEF TypeOK
<1>. QED
  BY <1>1, <1>2, <1>4, <1>5, <1>9, <1>10

LEMMA IngestFailsDoes ==
  ASSUME TypeOK, NEW t \in Threads, IngestFails(t)
  PROVE  /\ TypeOK' /\ th[t].pc \in Ingestion /\ th[t] \in Ingests
         /\ broken' = broken \union {th[t].n}
         /\ \/ th' = [th EXCEPT ![t] = Idle]
            \/ /\ th' = [th EXCEPT ![t] = Back(th[t])]
               /\ th[t].after # <<>> => th[t].n \in excused'
         /\ excused \subseteq excused'
         /\ UNCHANGED <<clock, upstream, last, prs, runs, cov, seen, listed>>
<1>1. th[t].pc \in Ingestion
  BY DEF IngestFails
<1>2. th[t] \in Ingests /\ th[t].n \in Numbers
  BY <1>1, IngestIs
<1>3. /\ \/ th' = [th EXCEPT ![t] = Idle]
         \/ /\ th' = [th EXCEPT ![t] = Back(th[t])]
            /\ th[t].after # <<>> => th[t].n \in excused'
      /\ excused \subseteq excused' /\ excused' \subseteq excused \union {th[t].n}
  BY DEF IngestFails, Leave, Back
<1>4. PICK y : y = Back(th[t])
  OBVIOUS
<1>5. th' \in [Threads -> {Idle} \union Syncing \union Ingests \union Reviewing]
  BY <1>2, <1>3, <1>4, BackIs, Moved DEF Doing
<1>6. /\ broken' = broken \union {th[t].n}
      /\ UNCHANGED <<clock, upstream, last, prs, runs, cov, migrating, work, seen, listed>>
  BY DEF IngestFails, store
<1>7. TypeOK'
  BY <1>2, <1>3, <1>5, <1>6 DEF TypeOK
<1>. QED
  BY <1>1, <1>2, <1>3, <1>6, <1>7

LEMMA ReviewDoes ==
  ASSUME TypeOK, NEW t \in Threads, Review(t)
  PROVE  /\ TypeOK' /\ th[t].pc = "review" /\ th[t].n \in Numbers
         /\ th' = [th EXCEPT ![t] = Idle]
         /\ \/ cov' = [cov EXCEPT ![th[t].n] = th[t].fid] /\ UNCHANGED broken
            \/ UNCHANGED cov /\ broken' = broken \union {th[t].n}
         /\ UNCHANGED <<clock, upstream, last, prs, runs, seen, listed, excused>>
<1>1. /\ th[t].pc = "review" /\ th' = [th EXCEPT ![t] = Idle]
      /\ \/ cov' = [cov EXCEPT ![th[t].n] = th[t].fid] /\ UNCHANGED broken
         \/ UNCHANGED cov /\ broken' = broken \union {th[t].n}
      /\ UNCHANGED <<clock, upstream, last, prs, runs, migrating, work, seen, listed, excused>>
  BY DEF Review, At, ingestFrame
<1>2. th[t].n \in Numbers /\ th[t].fid \in Fids
  BY <1>1, Doings DEF Reviewing
<1>3. th' \in [Threads -> {Idle} \union Syncing \union Ingests \union Reviewing]
  BY <1>1, Moved DEF Doing
<1>4. TypeOK'
  BY <1>1, <1>2, <1>3 DEF TypeOK
<1>. QED
  BY <1>1, <1>2, <1>4

LEMMA OutsideDoes ==
  ASSUME TypeOK, BeginMigration \/ EndMigration \/ Reconnect
  PROVE  /\ TypeOK' /\ last' \in {0, last}
         /\ UNCHANGED <<clock, upstream, prs, runs, cov, th, seen, listed, excused, broken>>
<1>1. /\ last' \in {0, last} /\ migrating' \in BOOLEAN
      /\ UNCHANGED <<clock, upstream, prs, runs, cov, th, work, seen, listed, excused, broken>>
  BY DEF BeginMigration, EndMigration, Reconnect, store, history, TypeOK
<1>. QED
  BY <1>1, SyncAssumption DEF TypeOK

LEMMA StutterKeeps ==
  ASSUME TypeOK, UNCHANGED vars
  PROVE  /\ TypeOK'
         /\ UNCHANGED <<clock, upstream, last, prs, runs, cov, th, seen, listed, excused, broken>>
BY DEF vars, store, history, TypeOK

-----------------------------------------------------------------------------
(* Well-formed states *)

Typed == TypeOK /\ Known

LEMMA KnownStays ==
  ASSUME Known,
         \A n \in Numbers : prs[n] # None => prs'[n] # None,
         \A s \in Threads :
            th'[s].pc \in (Ingestion \ {"upsert"}) \union {"review"} =>
               /\ th'[s].n \in Numbers
               /\ \/ prs'[th'[s].n] # None
                  \/ /\ th[s].pc \in (Ingestion \ {"upsert"}) \union {"review"}
                     /\ th'[s].n = th[s].n
  PROVE  Known'
BY DEF Known

LEMMA AlikeIs ==
  ASSUME NEW x, NEW y, Alike(x, y)
  PROVE  y.pc = x.pc /\ y.n = x.n /\ y.after = x.after /\ y.fid = x.fid /\ y.run = x.run
         /\ y.manual = x.manual
BY DEF Alike

LEMMA BusyNumber ==
  ASSUME TypeOK, NEW t \in Threads, th[t].pc \in Ingestion \union {"review"}
  PROVE  th[t].n \in Numbers
<1>1. th[t] \in Ingests \union Reviewing
  BY Doings
<1>. QED
  BY <1>1 DEF Ingests, Reviewing

LEMMA TypedStep ==
  ASSUME Typed, [Next]_vars
  PROVE  Typed'
<1>. USE DEF Typed
<1>. DEFINE Doc == (Ingestion \ {"upsert"}) \union {"review"}
<1>1. \A n \in Numbers : UNCHANGED prs => (prs[n] # None => prs'[n] # None)
  OBVIOUS
<1>2. \A s \in Threads : th'[s] = th[s] /\ th'[s].pc \in Doc =>
         th'[s].n \in Numbers /\ th[s].pc \in Doc /\ th'[s].n = th[s].n
  BY BusyNumber
<1>3. ASSUME NEW n \in Numbers, NEW d \in Documents, prs' = [prs EXCEPT ![n] = d]
      PROVE  \A m \in Numbers : prs[m] # None => prs'[m] # None
  BY <1>3, DocumentAssumption DEF TypeOK
<1>4. "upsert" \notin Doc /\ "idle" \notin Doc /\ "sync" \notin Doc
  BY DEF Ingestion
<1>5. Idle.pc \notin Doc /\ \A y \in Syncing : y.pc \notin Doc
  BY <1>4 DEF Idle, Syncing
<1>6. ASSUME NEW t \in Threads, NEW y \in Doing, y.pc \notin Doc, th' = [th EXCEPT ![t] = y],
             UNCHANGED prs
      PROVE  Known'
  <2>1. /\ th'[t] = y /\ \A s \in Threads \ {t} : th'[s] = th[s]
    BY <1>6, Moved
  <2>2. \A s \in Threads : th'[s].pc \in Doc =>
           th'[s].n \in Numbers /\ th[s].pc \in Doc /\ th'[s].n = th[s].n
    BY <1>2, <1>6, <2>1
  <2>. QED
    BY <1>1, <1>6, <2>2, KnownStays
<1>7. ASSUME NEW t \in Threads, NEW pc \in Ingestion, NEW f \in Fids, NEW m \in BOOLEAN,
             th[t].pc \in Ingestion, Turns(t, pc, f, m),
             \A n \in Numbers : prs[n] # None => prs'[n] # None,
             th[t].pc \in Doc \/ prs'[th[t].n] # None
      PROVE  Known'
  <2>1. th'[t].n = th[t].n /\ th[t].n \in Numbers /\ \A s \in Threads \ {t} : th'[s] = th[s]
    BY <1>7, TurnsDoes, BusyNumber
  <2>2. \A s \in Threads : th'[s].pc \in Doc =>
           th'[s].n \in Numbers
           /\ (prs'[th'[s].n] # None \/ (th[s].pc \in Doc /\ th'[s].n = th[s].n))
    BY <1>2, <1>7, <2>1
  <2>. QED
    BY <1>7, <2>2, KnownStays
<1>8. ASSUME NEW n \in Numbers, NEW u \in 1 .. MaxTime, NEW p \in Fids,
             NEW t \in Threads
      PROVE  Ingesting(t, n, u, p).pc \notin Doc
  BY <1>4 DEF Ingesting
<1>9. CASE UNCHANGED vars
  BY <1>9, <1>1, <1>2, StutterKeeps, KnownStays
<1>10. ASSUME NEW n \in Numbers, Push(n)
       PROVE  Typed'
  BY <1>10, <1>1, <1>2, PushDoes, KnownStays
<1>11. CASE BeginMigration \/ EndMigration \/ Reconnect
  BY <1>11, <1>1, <1>2, OutsideDoes, KnownStays
<1>12. ASSUME NEW t \in Threads, StartSync(t)
       PROVE  Typed'
  <2>1. TypeOK' /\ UNCHANGED prs
    BY <1>12, StartSyncDoes
  <2>2. PICK y \in Syncing : th' = [th EXCEPT ![t] = y]
    BY <1>12, StartSyncDoes
  <2>. QED
    BY <1>5, <1>6, <2>1, <2>2 DEF Doing
<1>13. ASSUME NEW t \in Threads, SyncNext(t)
       PROVE  Typed'
  <2>1. TypeOK' /\ UNCHANGED prs
    BY <1>13, SyncNextDoes
  <2>2. PICK S \in Syncing, n \in Numbers, u \in 1 .. MaxTime :
          /\ th' = [th EXCEPT ![t] = [Ingesting(t, n, u, None) EXCEPT !.after = <<S>>]]
          /\ [Ingesting(t, n, u, None) EXCEPT !.after = <<S>>] \in Ingests
    BY <1>13, SyncNextDoes
  <2>3. PICK y : y = [Ingesting(t, n, u, None) EXCEPT !.after = <<S>>]
    OBVIOUS
  <2>4. y.pc = "upsert"
    BY <2>3 DEF Ingesting
  <2>. QED
    BY <1>4, <1>6, <2>1, <2>2, <2>3, <2>4 DEF Doing
<1>14. ASSUME NEW t \in Threads, SyncRefused(t) \/ SyncDone(t)
       PROVE  Typed'
  <2>1. TypeOK' /\ UNCHANGED prs /\ th' = [th EXCEPT ![t] = Idle]
    BY <1>14, IdleDoes
  <2>. QED
    BY <1>5, <1>6, <2>1 DEF Doing
<1>15. ASSUME NEW t \in Threads, NEW n \in Numbers, NEW u \in 1 .. MaxTime,
              NEW pin \in Picked \union {None}, Event(t, n, u) \/ ManualRun(t, n, pin)
       PROVE  Typed'
  <2>1. TypeOK' /\ UNCHANGED prs
    BY <1>15, BeginsDoes
  <2>2. PICK v \in 1 .. MaxTime, p \in Fids :
          /\ th' = [th EXCEPT ![t] = Ingesting(t, n, v, p)]
          /\ Ingesting(t, n, v, p) \in Ingests
    BY <1>15, BeginsDoes
  <2>3. PICK y : y = Ingesting(t, n, v, p)
    OBVIOUS
  <2>. QED
    BY <1>6, <1>8, <2>1, <2>2, <2>3 DEF Doing
<1>16. ASSUME NEW t \in Threads, NEW r \in runs, NEW f \in Picked, Reassign(t, r, f)
       PROVE  Typed'
  <2>1. TypeOK' /\ UNCHANGED prs /\ r.n \in Numbers
    BY <1>16, ReassignDoes
  <2>2. \/ th' = [th EXCEPT ![t] = Idle]
        \/ \E v \in 1 .. MaxTime, p \in Fids :
              /\ th' = [th EXCEPT ![t] = Ingesting(t, r.n, v, p)]
              /\ Ingesting(t, r.n, v, p) \in Ingests
    BY <1>16, ReassignDoes
  <2>3. PICK y \in Doing : th' = [th EXCEPT ![t] = y] /\ y.pc \notin Doc
    <3>1. CASE th' = [th EXCEPT ![t] = Idle]
      BY <1>5, <3>1 DEF Doing
    <3>2. ASSUME NEW v \in 1 .. MaxTime, NEW p \in Fids,
                 th' = [th EXCEPT ![t] = Ingesting(t, r.n, v, p)],
                 Ingesting(t, r.n, v, p) \in Ingests
          PROVE  \E y \in Doing : th' = [th EXCEPT ![t] = y] /\ y.pc \notin Doc
      BY <1>8, <2>1, <3>2 DEF Doing
    <3>. QED
      BY <2>2, <3>1, <3>2
  <2>. QED
    BY <1>6, <2>1, <2>3
<1>17. ASSUME NEW t \in Threads, NEW n \in Numbers, NEW f \in Picked, AssignPr(t, n, f)
       PROVE  Typed'
  <2>1. /\ TypeOK' /\ Mapped(prs[n], f, TRUE) \in Documents
        /\ prs' = [prs EXCEPT ![n] = Mapped(prs[n], f, TRUE)]
        /\ \A s \in Threads \ {t} : Alike(th[s], th'[s])
        /\ th'[t] = Idle \/ th'[t] = [pc |-> "review", n |-> n, fid |-> f]
    BY <1>17, AssignPrDoes, ZenonT(30)
  <2>2. \A m \in Numbers : prs[m] # None => prs'[m] # None
    BY <1>3, <2>1
  <2>3. prs'[n] # None
    BY <2>1, DocumentAssumption DEF TypeOK
  <2>4. \A s \in Threads : th'[s].pc \in Doc =>
           th'[s].n \in Numbers
           /\ (prs'[th'[s].n] # None \/ (th[s].pc \in Doc /\ th'[s].n = th[s].n))
    <3> TAKE s \in Threads
    <3> HAVE th'[s].pc \in Doc
    <3>1. CASE s = t
      <4>1. CASE th'[t] = Idle
        BY <1>5, <3>1, <4>1
      <4>2. CASE th'[t] = [pc |-> "review", n |-> n, fid |-> f]
        <5>1. th'[t].n = n
          BY <4>2
        <5>2. th'[s].n = n /\ prs'[n] # None
          BY <2>3, <3>1, <5>1
        <5>. QED
          BY <5>2
      <4>. QED
        BY <2>1, <4>1, <4>2
    <3>2. CASE s # t
      <4>1. th'[s].pc = th[s].pc /\ th'[s].n = th[s].n
        BY <2>1, <3>2, AlikeIs
      <4>. QED
        BY <4>1, BusyNumber
    <3>. QED
      BY <3>1, <3>2
  <2>. QED
    BY <2>1, <2>2, <2>4, KnownStays
<1>18. ASSUME NEW t \in Threads, Upsert(t)
       PROVE  Typed'
  <2>1. TypeOK' /\ th[t].pc = "upsert" /\ Registered(t) /\ {"upsert", "map"} \subseteq Ingestion
    BY <1>18, UpsertDoes DEF Ingestion
  <2>2. PICK f \in Fids, m \in BOOLEAN : Turns(t, "map", f, m)
    BY <1>18, UpsertDoes
  <2>3. th[t].n \in Numbers
    BY <2>1, BusyNumber
  <2>4. /\ Stored(th[t].n, th[t].upd) \in Documents
        /\ prs' = [prs EXCEPT ![th[t].n] = Stored(th[t].n, th[t].upd)]
    BY <2>1, RegisteredDoes
  <2>5. /\ \A n \in Numbers : prs[n] # None => prs'[n] # None
        /\ prs'[th[t].n] # None
    BY <2>3, <2>4, DocumentAssumption DEF TypeOK
  <2>. QED
    BY <1>7, <2>1, <2>2, <2>5
<1>19. ASSUME NEW t \in Threads, SetMapping(t)
       PROVE  Typed'
  <2>1. /\ TypeOK' /\ Mapped(prs[th[t].n], th[t].fid, th[t].manual) \in Documents
        /\ prs' = [prs EXCEPT ![th[t].n] = Mapped(prs[th[t].n], th[t].fid, th[t].manual)]
        /\ \A s \in Threads \ {t} : Alike(th[s], th'[s])
        /\ th'[t].n = th[t].n /\ th[t].pc = "map"
    BY <1>19, SetMappingDoes
  <2>2. th[t].pc \in Doc /\ th[t].n \in Numbers
    BY <2>1, BusyNumber DEF Ingestion
  <2>3. \A m \in Numbers : prs[m] # None => prs'[m] # None
    BY <1>3, <2>1, <2>2
  <2>4. \A s \in Threads : th'[s].pc \in Doc =>
           th'[s].n \in Numbers /\ th[s].pc \in Doc /\ th'[s].n = th[s].n
    <3> TAKE s \in Threads
    <3> HAVE th'[s].pc \in Doc
    <3>1. CASE s = t
      BY <2>1, <2>2, <3>1
    <3>2. CASE s # t
      <4>1. th'[s].pc = th[s].pc /\ th'[s].n = th[s].n
        BY <2>1, <3>2, AlikeIs
      <4>. QED
        BY <4>1, BusyNumber
    <3>. QED
      BY <3>1, <3>2
  <2>. QED
    BY <2>1, <2>3, <2>4, KnownStays
<1>20. ASSUME NEW t \in Threads,
              CreateRun(t) \/ Enrich(t) \/ Resolve(t) \/ Remap(t) \/ Cover(t)
       PROVE  Typed'
  <2>1. TypeOK' /\ th[t].pc \in {"create", "enrich", "resolve", "remap", "cover"}
    BY <1>20, CreateRunDoes, EnrichDoes, ResolveDoes, RemapDoes, CoverDoes
  <2>2. th[t].pc \in Ingestion /\ th[t].pc \in Doc
        /\ {"enrich", "resolve", "remap", "cover", "finish"} \subseteq Ingestion
    BY <2>1 DEF Ingestion
  <2>3. th[t].n \in Numbers /\ th[t].fid \in Fids /\ th[t].manual \in BOOLEAN
    BY <2>2, IngestIs
  <2>4. \E pc \in Ingestion, f \in Fids, m \in BOOLEAN : Turns(t, pc, f, m)
    <3>1. CASE CreateRun(t)
      BY <2>2, <2>3, <3>1, CreateRunDoes
    <3>2. CASE Enrich(t)
      <4>1. PICK pc : pc = IF th[t].fid # None THEN "cover" ELSE "resolve"
        OBVIOUS
      <4>2. Turns(t, pc, th[t].fid, th[t].manual)
        BY <3>2, <4>1, EnrichDoes
      <4>. QED
        BY <2>2, <2>3, <4>1, <4>2
    <3>3. CASE Resolve(t)
      <4>1. PICK f \in Fids : Turns(t, IF f = None THEN "finish" ELSE "remap", f, th[t].manual)
        BY <3>3, ResolveDoes
      <4>. QED
        BY <2>2, <2>3, <4>1
    <3>4. CASE Remap(t)
      <4>1. Turns(t, "cover", th[t].fid, th[t].manual)
        BY <3>4, RemapDoes
      <4>. QED
        BY <2>2, <2>3, <4>1
    <3>5. CASE Cover(t)
      BY <2>2, <2>3, <3>5, CoverDoes
    <3>. QED
      BY <1>20, <3>1, <3>2, <3>3, <3>4, <3>5
  <2>5. UNCHANGED prs \/ \E d \in Documents : prs' = [prs EXCEPT ![th[t].n] = d]
    <3>1. CASE CreateRun(t) \/ Cover(t)
      BY <3>1, CreateRunDoes, CoverDoes
    <3>2. CASE Enrich(t)
      <4>1. [prs[th[t].n] EXCEPT !.upd = th[t].upd] \in Documents
        BY <2>2, <3>2, EnrichDoes, IngestIs DEF Documents
      <4>. QED
        BY <3>2, <4>1, EnrichDoes
    <3>3. CASE Resolve(t)
      <4>1. PICK g \in Fids : prs' = [prs EXCEPT ![th[t].n] = [prs[th[t].n] EXCEPT !.sug = g]]
        BY <3>3, ResolveDoes
      <4>2. [prs[th[t].n] EXCEPT !.sug = g] \in Documents
        BY <3>3, ResolveDoes DEF Documents
      <4>. QED
        BY <4>1, <4>2
    <3>4. CASE Remap(t)
      BY <3>4, RemapDoes
    <3>. QED
      BY <1>20, <3>1, <3>2, <3>3, <3>4
  <2>6. \A m \in Numbers : prs[m] # None => prs'[m] # None
    BY <1>1, <1>3, <2>3, <2>5
  <2>. QED
    BY <1>7, <2>1, <2>2, <2>4, <2>6
<1>21. ASSUME NEW t \in Threads, Finish(t) \/ ReviewFails(t)
       PROVE  Typed'
  <2>1. TypeOK' /\ UNCHANGED prs /\ th[t] \in Ingests /\ th' = [th EXCEPT ![t] = Back(th[t])]
    BY <1>21, EndRunDoes
  <2>2. PICK y : y = Back(th[t])
    OBVIOUS
  <2>. QED
    BY <1>5, <1>6, <2>1, <2>2, BackIs DEF Doing
<1>22. ASSUME NEW t \in Threads, IngestFails(t)
       PROVE  Typed'
  <2>1. /\ TypeOK' /\ UNCHANGED prs /\ th[t] \in Ingests
        /\ (th' = [th EXCEPT ![t] = Idle] \/ th' = [th EXCEPT ![t] = Back(th[t])])
    BY <1>22, IngestFailsDoes
  <2>2. PICK y : y = Back(th[t])
    OBVIOUS
  <2>. QED
    BY <1>5, <1>6, <2>1, <2>2, BackIs DEF Doing
<1>23. ASSUME NEW t \in Threads, Review(t)
       PROVE  Typed'
  <2>1. TypeOK' /\ UNCHANGED prs /\ th' = [th EXCEPT ![t] = Idle]
    BY <1>23, ReviewDoes
  <2>. QED
    BY <1>5, <1>6, <2>1 DEF Doing
<1>. QED
  <2>1. Environment => Typed'
    BY <1>10, <1>11 DEF Environment
  <2>2. \A t \in Threads : Requests(t) => Typed'
    <3>1. 1 \in 1 .. MaxTime
      BY SyncAssumption
    <3>2. \A t \in Threads, n \in Numbers, u \in 1 .. MaxTime : Event(t, n, u) => Typed'
      BY <1>15
    <3>3. \A t \in Threads, n \in Numbers, pin \in Picked \union {None} :
             ManualRun(t, n, pin) => Typed'
      BY <1>15, <3>1
    <3>. QED
      BY <1>12, <1>16, <1>17, <3>2, <3>3 DEF Requests
  <2>3. \A t \in Threads : Steps(t) => Typed'
    BY <1>13, <1>14, <1>18, <1>19, <1>20, <1>21, <1>22, <1>23 DEF Steps
  <2>4. UNCHANGED vars => Typed'
    BY <1>9
  <2>. QED
    BY <2>1, <2>2, <2>3, <2>4 DEF Next

-----------------------------------------------------------------------------
(* The watermark *)

\* The last listing is not in the future, and the watermark not past it.
Clocked == /\ last <= listed /\ listed <= clock
           /\ \A p \in upstream : p[2] <= clock

\* What a sync will have passed once it is done: the seconds up to its
\* newest, and up to those of the versions it has still to ingest.
Passes(S, u) == u <= S.newest \/ \E i \in DOMAIN S.todo : u <= S.todo[i][2]
Due(S, p) == \E i \in DOMAIN S.todo : S.todo[i][1] = p[1] /\ p[2] <= S.todo[i][2]
Listed(S, second) == /\ S.newest <= second
                     /\ \A i \in DOMAIN S.todo : S.todo[i][2] <= second

\* Thread x is about to store p, or a newer version.
Storing(x, p) == x.pc = "upsert" /\ x.n = p[1] /\ p[2] <= x.upd

\* Of the updates `ups', those that sync S of thread x will have passed are
\* stored, excused, still to do, or about to be stored.
Watched(x, S, ups, excuses, versions) ==
    \A p \in ups : p[1] \notin excuses /\ Passes(S, p[2]) =>
        p[2] <= versions[p[1]] \/ Due(S, p) \/ Storing(x, p)

Carries(x, S) == \/ x.pc = "sync" /\ S = x
                 \/ x.pc \in Ingestion /\ x.after # <<>> /\ S = x.after[1]

Syncs == \A t \in Threads : \A S \in Syncing :
    Carries(th[t], S) => Listed(S, listed) /\ Watched(th[t], S, upstream, excused, seen)

Watermark == Clocked /\ Syncs /\ WatermarkCovers

LEMMA WatchedStays ==
  ASSUME NEW x, NEW y, NEW S \in Syncing, NEW ups, NEW ups2 \in SUBSET Versions,
         NEW ex, NEW ex2, NEW vs \in [Numbers -> 0 .. MaxTime],
         NEW vs2 \in [Numbers -> 0 .. MaxTime], NEW second \in 0 .. MaxTime,
         Watched(x, S, ups, ex, vs), Listed(S, second), ex \subseteq ex2,
         \A p \in ups2 : p \in ups \/ p[1] \in ex2 \/ second < p[2],
         \A n \in Numbers : vs[n] <= vs2[n],
         \A p \in Versions :
            Storing(x, p) => Storing(y, p) \/ p[2] <= vs2[p[1]] \/ p[1] \in ex2
  PROVE  Watched(y, S, ups2, ex2, vs2)
<1> SUFFICES ASSUME NEW p \in ups2, p[1] \notin ex2, Passes(S, p[2])
             PROVE  p[2] <= vs2[p[1]] \/ Due(S, p) \/ Storing(y, p)
  BY DEF Watched
<1>1. p \in Versions /\ p[1] \in Numbers /\ p[2] \in 1 .. MaxTime
  BY DEF Versions
<1>2. p[2] <= second
  <2>1. S.newest \in 0 .. MaxTime /\ S.todo \in Seq(Versions)
    BY DEF Syncing
  <2>2. \A i \in DOMAIN S.todo : S.todo[i][2] \in 1 .. MaxTime
    BY <2>1 DEF Versions
  <2>. QED
    BY <1>1, <2>1, <2>2, SyncAssumption, SMTT(30) DEF Passes, Listed
<1>3. p \in ups
  BY <1>1, <1>2, SyncAssumption
<1>4. p[2] <= vs[p[1]] \/ Due(S, p) \/ Storing(x, p)
  BY <1>3 DEF Watched
<1>5. p[2] <= vs[p[1]] => p[2] <= vs2[p[1]]
  BY <1>1, SyncAssumption
<1>. QED
  BY <1>1, <1>4, <1>5

LEMMA SyncsStay ==
  ASSUME TypeOK, TypeOK', Syncs, listed <= listed', excused \subseteq excused',
         \A p \in upstream' : p \in upstream \/ p[1] \in excused' \/ listed < p[2],
         \A n \in Numbers : seen[n] <= seen'[n],
         \A s \in Threads : \A S \in Syncing : Carries(th'[s], S) =>
            /\ Carries(th[s], S)
            /\ \A p \in Versions : Storing(th[s], p) =>
                  Storing(th'[s], p) \/ p[2] <= seen'[p[1]] \/ p[1] \in excused'
  PROVE  Syncs'
<1> SUFFICES ASSUME NEW s \in Threads, NEW S \in Syncing, Carries(th'[s], S)
             PROVE  Listed(S, listed') /\ Watched(th'[s], S, upstream', excused', seen')
  BY DEF Syncs
<1>1. Carries(th[s], S) /\ Listed(S, listed) /\ Watched(th[s], S, upstream, excused, seen)
  BY DEF Syncs
<1>2. Listed(S, listed')
  <2>1. S.newest \in 0 .. MaxTime /\ \A i \in DOMAIN S.todo : S.todo[i][2] \in 1 .. MaxTime
    BY DEF Syncing, Versions
  <2>2. listed \in 0 .. MaxTime /\ listed' \in 0 .. MaxTime
    BY DEF TypeOK
  <2>. QED
    BY <1>1, <2>1, <2>2 DEF Listed
<1>3. PICK x, y : x = th[s] /\ y = th'[s]
  OBVIOUS
<1>4. \A p \in Versions : Storing(x, p) =>
         Storing(y, p) \/ p[2] <= seen'[p[1]] \/ p[1] \in excused'
  BY <1>3
<1>5. Watched(x, S, upstream, excused, seen)
  BY <1>1, <1>3
<1>6. Watched(y, S, upstream', excused', seen')
  <2>1. /\ upstream' \in SUBSET Versions /\ listed \in 0 .. MaxTime
        /\ seen \in [Numbers -> 0 .. MaxTime] /\ seen' \in [Numbers -> 0 .. MaxTime]
    BY DEF TypeOK
  <2>. QED
    BY <1>1, <1>4, <1>5, <2>1, WatchedStays
<1>. QED
  BY <1>2, <1>3, <1>6

LEMMA WatermarkStays ==
  ASSUME TypeOK, TypeOK', Watermark, UNCHANGED <<clock, upstream, listed>>, last' <= last,
         excused \subseteq excused', \A n \in Numbers : seen[n] <= seen'[n],
         \A s \in Threads : \A S \in Syncing : Carries(th'[s], S) =>
            /\ Carries(th[s], S)
            /\ \A p \in Versions : Storing(th[s], p) =>
                  Storing(th'[s], p) \/ p[2] <= seen'[p[1]] \/ p[1] \in excused'
  PROVE  Watermark'
<1>1. Syncs'
  <2>1. listed <= listed'
    BY DEF TypeOK
  <2>. QED
    BY <2>1, SyncsStay DEF Watermark
<1>2. Clocked'
  BY DEF Watermark, Clocked, TypeOK
<1>3. WatermarkCovers'
  <2> SUFFICES ASSUME NEW p \in upstream, p[2] <= last', p[1] \notin excused'
               PROVE  seen'[p[1]] >= p[2]
    BY DEF WatermarkCovers
  <2>1. p[1] \in Numbers /\ p[2] \in 1 .. MaxTime
    BY DEF TypeOK, Versions
  <2>2. p[2] <= last
    BY <2>1 DEF TypeOK
  <2>3. seen[p[1]] >= p[2]
    BY <2>2 DEF Watermark, WatermarkCovers
  <2>4. seen[p[1]] \in 0 .. MaxTime /\ seen'[p[1]] \in 0 .. MaxTime
    BY <2>1 DEF TypeOK
  <2>. QED
    BY <2>1, <2>3, <2>4
<1>. QED
  BY <1>1, <1>2, <1>3 DEF Watermark

LEMMA CarriesNothing ==
  ASSUME NEW S \in Syncing
  PROVE  /\ ~Carries(Idle, S)
         /\ \A y \in Reviewing : ~Carries(y, S)
         /\ \A t, n, u, p : ~Carries(Ingesting(t, n, u, p), S)
BY DEF Carries, Idle, Reviewing, Ingesting, Ingestion

LEMMA BackCarries ==
  ASSUME NEW x \in Ingests, NEW S \in Syncing, Carries(Back(x), S)
  PROVE  Carries(x, S)
<1>1. Back(x).pc = "sync" /\ S = Back(x)
  BY BackIs DEF Carries, Ingestion
<1>2. x.after # <<>> /\ S = x.after[1] /\ x.pc \in Ingestion
  BY <1>1, BackIs DEF Ingests
<1>. QED
  BY <1>2 DEF Carries

LEMMA SeenSame == ASSUME TypeOK PROVE \A n \in Numbers : seen[n] <= seen[n]
BY DEF TypeOK

LEMMA PushCovers ==
  ASSUME TypeOK, Watermark, NEW n \in Numbers, Push(n)
  PROVE  Watermark'
<1>1. TypeOK' /\ UNCHANGED <<last, th, seen, listed>>
  BY PushDoes
<1>2. PICK now \in 1 .. MaxTime :
         /\ now >= clock /\ clock' = now /\ upstream' = upstream \union {<<n, now>>}
         /\ excused' = IF listed = now THEN excused \union {n} ELSE excused
  BY PushDoes
<1>3. clock \in 1 .. MaxTime /\ listed \in 0 .. MaxTime /\ last \in 0 .. MaxTime
  BY DEF TypeOK
<1>4. last <= listed /\ listed <= clock /\ \A p \in upstream : p[2] <= clock
  BY DEF Watermark, Clocked
<1>5. Clocked'
  <2>1. \A p \in upstream : p[2] <= now
    <3>1. \A p \in upstream : p[2] \in 1 .. MaxTime
      BY DEF TypeOK, Versions
    <3>. QED
      BY <1>2, <1>3, <1>4, <3>1
  <2>. QED
    BY <1>1, <1>2, <1>3, <1>4, <2>1 DEF Clocked
<1>6. \A p \in upstream' : p \in upstream \/ p[1] \in excused' \/ listed < p[2]
  <2>1. listed = now \/ listed < now
    BY <1>2, <1>3, <1>4
  <2>. QED
    BY <1>2, <2>1
<1>7. excused \subseteq excused' /\ listed <= listed'
  BY <1>1, <1>2, <1>3
<1>8. Syncs'
  BY <1>1, <1>6, <1>7, SeenSame, SyncsStay DEF Watermark
<1>9. WatermarkCovers'
  <2> SUFFICES ASSUME NEW p \in upstream', p[2] <= last, p[1] \notin excused'
               PROVE  seen[p[1]] >= p[2]
    BY <1>1 DEF WatermarkCovers
  <2>1. p[2] \in 1 .. MaxTime
    BY <1>1 DEF TypeOK, Versions
  <2>2. p \in upstream
    BY <1>3, <1>4, <1>6, <2>1
  <2>. QED
    BY <1>7, <2>2 DEF Watermark, WatermarkCovers
<1>. QED
  BY <1>5, <1>8, <1>9 DEF Watermark

(* A listing shows what the watermark has still to pass, or excuses it.    *)
LEMMA StartSyncCovers ==
  ASSUME TypeOK, Watermark, NEW t \in Threads, StartSync(t)
  PROVE  Watermark'
<1>1. TypeOK' /\ listed' = clock /\ UNCHANGED <<clock, upstream, last, seen>>
  BY StartSyncDoes
<1>2. PICK pulls \in Pages : \E todo \in NewestFirst({p \in pulls : p[2] > last}) :
         /\ th' = [th EXCEPT ![t] =
                      [pc |-> "sync", n |-> None, newest |-> last, todo |-> todo]]
         /\ [pc |-> "sync", n |-> None, newest |-> last, todo |-> todo] \in Syncing
         /\ excused' = excused \union {p[1] : p \in Opened \ pulls}
  BY StartSyncDoes
<1>3. PICK todo \in NewestFirst({p \in pulls : p[2] > last}) :
         /\ th' = [th EXCEPT ![t] =
                      [pc |-> "sync", n |-> None, newest |-> last, todo |-> todo]]
         /\ [pc |-> "sync", n |-> None, newest |-> last, todo |-> todo] \in Syncing
         /\ excused' = excused \union {p[1] : p \in Opened \ pulls}
  BY <1>2
<1>4. PICK y : y = [pc |-> "sync", n |-> None, newest |-> last, todo |-> todo]
  OBVIOUS
<1>5. /\ y \in Syncing /\ y.pc = "sync" /\ y.newest = last /\ y.todo = todo
      /\ th' = [th EXCEPT ![t] = y] /\ excused' = excused \union {p[1] : p \in Opened \ pulls}
  BY <1>3, <1>4
<1>6. th'[t] = y /\ \A s \in Threads \ {t} : th'[s] = th[s]
  BY <1>5, Moved DEF Doing
<1>7. clock \in 1 .. MaxTime /\ listed \in 0 .. MaxTime /\ last \in 0 .. MaxTime
  BY DEF TypeOK
<1>8. last <= listed /\ listed <= clock /\ \A p \in upstream : p[2] <= clock
  BY DEF Watermark, Clocked
<1>9. /\ \A i \in DOMAIN todo : todo[i] \in upstream
      /\ \A p \in pulls : p[2] > last => \E i \in DOMAIN todo : todo[i] = p
  BY ListingIs
<1>10. Listed(y, clock)
  BY <1>5, <1>7, <1>8, <1>9 DEF Listed
<1>11. Watched(y, y, upstream, excused', seen)
  <2> SUFFICES ASSUME NEW p \in upstream, p[1] \notin excused'
               PROVE  p[2] <= seen[p[1]] \/ Due(y, p)
    BY DEF Watched
  <2>1. p \in Versions /\ p[1] \in Numbers /\ p[2] \in 1 .. MaxTime /\ p = <<p[1], p[2]>>
    BY DEF TypeOK, Versions
  <2>2. CASE p[2] <= last
    <3>1. seen[p[1]] >= p[2]
      BY <1>5, <2>2 DEF Watermark, WatermarkCovers
    <3>. QED
      BY <2>1, <3>1 DEF TypeOK
  <2>3. CASE ~(p[2] <= last)
    <3>1. p[2] \in Updated(p[1])
      BY <2>1 DEF Updated
    <3>2. /\ Fetched(p[1]) \in 1 .. MaxTime /\ p[2] <= Fetched(p[1])
          /\ <<p[1], Fetched(p[1])>> \in Opened
      BY <2>1, <3>1, FetchedIs, OpenedIs
    <3>3. PICK q : q = <<p[1], Fetched(p[1])>>
      OBVIOUS
    <3>4. q[1] = p[1] /\ q[2] = Fetched(p[1]) /\ q \in Opened
      BY <3>2, <3>3
    <3>5. q \in pulls
      BY <1>5, <3>4
    <3>6. q[2] > last
      BY <1>7, <2>1, <2>3, <3>2, <3>4
    <3>7. PICK i \in DOMAIN todo : todo[i] = q
      BY <1>9, <3>5, <3>6
    <3>. QED
      BY <1>5, <3>2, <3>4, <3>7 DEF Due
  <2>. QED
    BY <2>2, <2>3
<1>12. Syncs'
  <2> SUFFICES ASSUME NEW s \in Threads, NEW S \in Syncing, Carries(th'[s], S)
               PROVE  Listed(S, clock) /\ Watched(th'[s], S, upstream, excused', seen)
    BY <1>1 DEF Syncs
  <2>1. CASE s = t
    <3>1. S = y
      BY <1>5, <1>6, <2>1 DEF Carries, Ingestion
    <3>. QED
      BY <1>6, <1>10, <1>11, <2>1, <3>1
  <2>2. CASE s # t
    <3>1. PICK x : x = th[s] /\ x = th'[s]
      BY <1>6, <2>2
    <3>2. Listed(S, listed) /\ Watched(x, S, upstream, excused, seen)
      BY <3>1 DEF Watermark, Syncs
    <3>3. S.newest \in 0 .. MaxTime /\ \A i \in DOMAIN S.todo : S.todo[i][2] \in 1 .. MaxTime
      BY DEF Syncing, Versions
    <3>4. Listed(S, clock)
      BY <1>7, <1>8, <3>2, <3>3 DEF Listed
    <3>5. Watched(x, S, upstream, excused', seen)
      BY <1>5, <3>2 DEF Watched
    <3>. QED
      BY <3>1, <3>4, <3>5
  <2>. QED
    BY <2>1, <2>2
<1>13. Clocked'
  BY <1>1, <1>7, <1>8 DEF Clocked
<1>14. WatermarkCovers'
  BY <1>1, <1>5 DEF Watermark, WatermarkCovers
<1>. QED
  BY <1>12, <1>13, <1>14 DEF Watermark

(* The version a sync goes on with leaves what is to do for what is being  *)
(* stored.                                                                 *)
LEMMA SyncNextCovers ==
  ASSUME TypeOK, Watermark, NEW t \in Threads, SyncNext(t)
  PROVE  Watermark'
<1>1. /\ TypeOK' /\ th[t] \in Syncing /\ th[t].todo # <<>>
      /\ UNCHANGED <<clock, upstream, last, seen, listed, excused>>
  BY SyncNextDoes
<1>2. PICK S \in Syncing, n \in Numbers, u \in 1 .. MaxTime :
         /\ <<n, u>> = Head(th[t].todo)
         /\ S.newest = (IF th[t].newest >= u THEN th[t].newest ELSE u)
         /\ S.todo = Tail(th[t].todo)
         /\ th' = [th EXCEPT ![t] = [Ingesting(t, n, u, None) EXCEPT !.after = <<S>>]]
         /\ [Ingesting(t, n, u, None) EXCEPT !.after = <<S>>] \in Ingests
  BY SyncNextDoes
<1>3. PICK y : y = [Ingesting(t, n, u, None) EXCEPT !.after = <<S>>]
  OBVIOUS
<1>4. /\ y \in Ingests /\ y.pc = "upsert" /\ y.n = n /\ y.upd = u
      /\ y.after # <<>> /\ y.after[1] = S
  BY <1>2, <1>3 DEF Ingesting
<1>5. th'[t] = y /\ \A s \in Threads \ {t} : th'[s] = th[s]
  BY <1>2, <1>3, <1>4, Moved DEF Doing
<1>6. PICK x : x = th[t]
  OBVIOUS
<1>7. /\ x \in Syncing /\ x.pc = "sync" /\ x.newest \in 0 .. MaxTime /\ x.todo \in Seq(Versions)
      /\ x.todo # <<>>
  BY <1>1, <1>6 DEF Syncing
<1>8. Listed(x, listed) /\ Watched(x, x, upstream, excused, seen)
  BY <1>6, <1>7 DEF Watermark, Syncs, Carries
<1>9. /\ Len(x.todo) \in Nat /\ Len(x.todo) > 0 /\ DOMAIN x.todo = 1 .. Len(x.todo)
      /\ x.todo[1] = <<n, u>>
      /\ DOMAIN S.todo = 1 .. (Len(x.todo) - 1)
      /\ \A i \in 1 .. (Len(x.todo) - 1) : S.todo[i] = x.todo[i + 1]
  <2>1. Len(x.todo) \in Nat /\ Len(x.todo) > 0 /\ DOMAIN x.todo = 1 .. Len(x.todo)
    BY <1>7, LenProperties, EmptySeq
  <2>2. /\ S.todo \in Seq(Versions) /\ Len(S.todo) = Len(x.todo) - 1
        /\ \A i \in 1 .. Len(S.todo) : S.todo[i] = x.todo[i + 1]
    BY <1>2, <1>6, <1>7, HeadTailProperties
  <2>3. DOMAIN S.todo = 1 .. Len(S.todo)
    BY <2>2, LenProperties
  <2>4. x.todo[1] = Head(x.todo)
    BY <1>7
  <2>. QED
    BY <1>2, <1>6, <2>1, <2>2, <2>3, <2>4
<1>10. S.newest \in {x.newest, u} /\ x.newest <= S.newest /\ u <= S.newest
  BY <1>2, <1>6, <1>7
<1>11. \A i \in DOMAIN S.todo : i + 1 \in DOMAIN x.todo /\ S.todo[i] = x.todo[i + 1]
  BY <1>9
<1>12. 1 \in DOMAIN x.todo /\ x.todo[1][1] = n /\ x.todo[1][2] = u
  BY <1>9
<1>13. Listed(S, listed)
  BY <1>8, <1>10, <1>11, <1>12 DEF Listed
<1>14. Watched(y, S, upstream, excused, seen)
  <2> SUFFICES ASSUME NEW p \in upstream, p[1] \notin excused, Passes(S, p[2])
               PROVE  p[2] <= seen[p[1]] \/ Due(S, p) \/ Storing(y, p)
    BY DEF Watched
  <2>1. Passes(x, p[2])
    BY <1>10, <1>11, <1>12 DEF Passes
  <2>2. p[2] <= seen[p[1]] \/ Due(x, p) \/ Storing(x, p)
    BY <1>8, <2>1 DEF Watched
  <2>3. ~Storing(x, p)
    BY <1>7 DEF Storing
  <2>4. ASSUME NEW i \in DOMAIN x.todo, x.todo[i][1] = p[1], p[2] <= x.todo[i][2]
        PROVE  Due(S, p) \/ Storing(y, p)
    <3>1. CASE i = 1
      BY <1>4, <1>12, <2>4, <3>1 DEF Storing
    <3>2. CASE i # 1
      <4>1. i - 1 \in DOMAIN S.todo /\ S.todo[i - 1] = x.todo[i]
        BY <1>9, <3>2
      <4>. QED
        BY <2>4, <4>1 DEF Due
    <3>. QED
      BY <3>1, <3>2
  <2>. QED
    BY <2>2, <2>3, <2>4 DEF Due
<1>15. Syncs'
  <2> SUFFICES ASSUME NEW s \in Threads, NEW R \in Syncing, Carries(th'[s], R)
               PROVE  Listed(R, listed) /\ Watched(th'[s], R, upstream, excused, seen)
    BY <1>1 DEF Syncs
  <2>1. CASE s = t
    <3>1. R = S
      BY <1>4, <1>5, <2>1 DEF Carries
    <3>. QED
      BY <1>5, <1>13, <1>14, <2>1, <3>1
  <2>2. CASE s # t
    <3>1. th'[s] = th[s]
      BY <1>5, <2>2
    <3>. QED
      BY <3>1 DEF Watermark, Syncs
  <2>. QED
    BY <2>1, <2>2
<1>. QED
  BY <1>1, <1>15 DEF Watermark, Clocked, WatermarkCovers

(* When a sync is done, all that it has passed is stored or excused.       *)
LEMMA SyncDoneCovers ==
  ASSUME TypeOK, Watermark, NEW t \in Threads, SyncDone(t)
  PROVE  Watermark'
<1>1. /\ TypeOK' /\ th' = [th EXCEPT ![t] = Idle] /\ th[t] \in Syncing
      /\ last' = th[t].newest /\ UNCHANGED <<clock, upstream, seen, listed, excused>>
  BY IdleDoes
<1>2. th[t].pc = "sync" /\ th[t].todo = <<>>
  BY DEF SyncDone
<1>3. PICK x : x = th[t]
  OBVIOUS
<1>4. Listed(x, listed) /\ Watched(x, x, upstream, excused, seen)
  BY <1>1, <1>2, <1>3 DEF Watermark, Syncs, Carries
<1>5. Clocked'
  BY <1>1, <1>3, <1>4 DEF Watermark, Clocked, Listed
<1>6. DOMAIN x.todo = {} /\ x.pc = "sync"
  BY <1>2, <1>3
<1>7. WatermarkCovers'
  <2> SUFFICES ASSUME NEW p \in upstream, p[2] <= x.newest, p[1] \notin excused
               PROVE  seen[p[1]] >= p[2]
    BY <1>1, <1>3 DEF WatermarkCovers
  <2>1. p[2] <= seen[p[1]]
    BY <1>4, <1>6 DEF Watched, Passes, Due, Storing
  <2>2. p[1] \in Numbers /\ p[2] \in 1 .. MaxTime /\ seen[p[1]] \in 0 .. MaxTime
    BY DEF TypeOK, Versions
  <2>. QED
    BY <2>1, <2>2
<1>8. Syncs'
  <2>1. th'[t] = Idle /\ \A s \in Threads \ {t} : th'[s] = th[s]
    BY <1>1, Moved DEF Doing
  <2>. QED
    BY <1>1, <2>1, CarriesNothing DEF Watermark, Syncs
<1>. QED
  BY <1>5, <1>7, <1>8 DEF Watermark

LEMMA TurnCarries ==
  ASSUME TypeOK, NEW t \in Threads, NEW pc \in Ingestion \ {"upsert"}, NEW f \in Fids,
         NEW m \in BOOLEAN, th[t].pc \in Ingestion, Turns(t, pc, f, m), NEW S \in Syncing,
         NEW s \in Threads, Carries(th'[s], S)
  PROVE  /\ Carries(th[s], S)
         /\ s # t => th'[s] = th[s]
         /\ s = t => \A p : Storing(th[s], p) => th[t].pc = "upsert" /\ p[1] = th[t].n
                                                /\ p[2] <= th[t].upd
<1>1. /\ th'[t].pc = pc /\ th'[t].after = th[t].after
      /\ \A r \in Threads \ {t} : th'[r] = th[r]
  BY TurnsDoes
<1>2. pc # "sync"
  BY DEF Ingestion
<1>. QED
  BY <1>1, <1>2 DEF Carries, Storing

(* The watermark stays sound, whatever step is taken.                      *)
LEMMA WatermarkStep ==
  ASSUME Typed, Typed', Watermark, [Next]_vars
  PROVE  Watermark'
<1>. USE DEF Typed
<1>1. last <= last /\ last \in Nat
  BY DEF TypeOK
<1>2. ASSUME NEW t \in Threads, NEW y \in Doing, th' = [th EXCEPT ![t] = y],
             UNCHANGED <<clock, upstream, last, seen, listed>>, excused \subseteq excused',
             \A S \in Syncing : Carries(y, S) => /\ Carries(th[t], S)
                /\ \A p \in Versions : Storing(th[t], p) => Storing(y, p) \/ p[1] \in excused'
      PROVE  Watermark'
  <2>1. /\ th'[t] = y /\ \A s \in Threads \ {t} : th'[s] = th[s]
    BY <1>2, Moved
  <2>2. \A s \in Threads : \A S \in Syncing : Carries(th'[s], S) =>
            /\ Carries(th[s], S)
            /\ \A p \in Versions : Storing(th[s], p) =>
                  Storing(th'[s], p) \/ p[2] <= seen'[p[1]] \/ p[1] \in excused'
    BY <1>2, <2>1
  <2>3. \A n \in Numbers : seen[n] <= seen'[n]
    BY <1>2, SeenSame
  <2>. QED
    BY <1>1, <1>2, <2>2, <2>3, WatermarkStays
<1>3. ASSUME NEW t \in Threads, NEW pc \in Ingestion \ {"upsert"}, NEW f \in Fids,
             NEW m \in BOOLEAN, th[t].pc \in Ingestion, Turns(t, pc, f, m),
             UNCHANGED <<clock, upstream, last, listed, excused>>,
             \A n \in Numbers : seen[n] <= seen'[n],
             th[t].pc = "upsert" => th[t].upd <= seen'[th[t].n]
      PROVE  Watermark'
  <2>1. ASSUME NEW s \in Threads, NEW S \in Syncing, Carries(th'[s], S)
        PROVE  /\ Carries(th[s], S)
               /\ \A p \in Versions : Storing(th[s], p) =>
                     Storing(th'[s], p) \/ p[2] <= seen'[p[1]] \/ p[1] \in excused'
    <3>1. /\ Carries(th[s], S) /\ (s # t => th'[s] = th[s])
          /\ s = t => \A p : Storing(th[s], p) => th[t].pc = "upsert" /\ p[1] = th[t].n
                                                 /\ p[2] <= th[t].upd
      BY <1>3, <2>1, TurnCarries
    <3>2. CASE s # t
      BY <3>1, <3>2
    <3>3. CASE s = t
      <4> SUFFICES ASSUME NEW p \in Versions, Storing(th[s], p)
                   PROVE  p[2] <= seen'[p[1]]
        BY <3>1
      <4>1. th[t].pc = "upsert" /\ p[1] = th[t].n /\ p[2] <= th[t].upd
        BY <3>1, <3>3
      <4>2. p[2] \in 1 .. MaxTime /\ p[1] \in Numbers
        BY DEF Versions
      <4>3. th[t].upd \in 1 .. MaxTime /\ seen'[p[1]] \in 0 .. MaxTime
        BY <1>3, <4>2, IngestIs DEF TypeOK
      <4>. QED
        BY <1>3, <4>1, <4>2, <4>3
    <3>. QED
      BY <3>2, <3>3
  <2>. QED
    BY <1>1, <1>3, <2>1, WatermarkStays
<1>4. ASSUME UNCHANGED <<clock, upstream, seen, listed, excused>>, last' \in {0, last},
             \A s \in Threads : \A S \in Syncing : Carries(th'[s], S) =>
                Carries(th[s], S) /\ \A p \in Versions : Storing(th[s], p) => Storing(th'[s], p)
      PROVE  Watermark'
  <2>1. last' <= last /\ \A n \in Numbers : seen[n] <= seen'[n]
    BY <1>1, <1>4, SeenSame
  <2>2. \A s \in Threads : \A S \in Syncing : Carries(th'[s], S) =>
            /\ Carries(th[s], S)
            /\ \A p \in Versions : Storing(th[s], p) =>
                  Storing(th'[s], p) \/ p[2] <= seen'[p[1]] \/ p[1] \in excused'
    BY <1>4
  <2>. QED
    BY <1>4, <2>1, <2>2, WatermarkStays
<1>5. ASSUME NEW x, NEW y, Alike(x, y), NEW S, Carries(y, S), y.pc # "sync" \/ y = x
      PROVE  Carries(x, S) /\ \A p : Storing(x, p) => Storing(y, p)
  BY <1>5 DEF Alike, Carries, Storing
<1>6. ASSUME NEW x, NEW y, Alike(x, y)
      PROVE  y.pc # "sync" \/ y = x
  BY <1>6 DEF Alike, Ingests, Ingestion
<1>7. CASE UNCHANGED vars
  BY <1>4, <1>7, StutterKeeps
<1>8. CASE BeginMigration \/ EndMigration \/ Reconnect
  BY <1>4, <1>8, OutsideDoes
<1>9. ASSUME NEW t \in Threads, SyncRefused(t)
      PROVE  Watermark'
  BY <1>2, <1>9, IdleDoes, CarriesNothing DEF Doing
<1>10. ASSUME NEW t \in Threads, NEW n \in Numbers, NEW u \in 1 .. MaxTime,
              NEW pin \in Picked \union {None}, Event(t, n, u) \/ ManualRun(t, n, pin)
       PROVE  Watermark'
  <2>1. UNCHANGED <<clock, upstream, last, seen, listed, excused>>
    BY <1>10, BeginsDoes
  <2>2. PICK v \in 1 .. MaxTime, p \in Fids :
          /\ th' = [th EXCEPT ![t] = Ingesting(t, n, v, p)]
          /\ Ingesting(t, n, v, p) \in Ingests
    BY <1>10, BeginsDoes
  <2>3. PICK y : y = Ingesting(t, n, v, p)
    OBVIOUS
  <2>4. \A S \in Syncing : ~Carries(y, S)
    BY <2>3, CarriesNothing
  <2>. QED
    BY <1>2, <2>1, <2>2, <2>3, <2>4 DEF Doing
<1>11. ASSUME NEW t \in Threads, NEW r \in runs, NEW f \in Picked, Reassign(t, r, f)
       PROVE  Watermark'
  <2>1. UNCHANGED <<clock, upstream, last, seen, listed, excused>>
    BY <1>11, ReassignDoes
  <2>2. PICK y \in Doing : th' = [th EXCEPT ![t] = y] /\ \A S \in Syncing : ~Carries(y, S)
    <3>1. CASE th' = [th EXCEPT ![t] = Idle]
      BY <3>1, CarriesNothing DEF Doing
    <3>2. ASSUME NEW v \in 1 .. MaxTime, NEW p \in Fids,
                 th' = [th EXCEPT ![t] = Ingesting(t, r.n, v, p)],
                 Ingesting(t, r.n, v, p) \in Ingests
          PROVE  \E y \in Doing : th' = [th EXCEPT ![t] = y] /\ \A S \in Syncing : ~Carries(y, S)
      BY <3>2, CarriesNothing DEF Doing
    <3>. QED
      BY <1>11, <3>1, <3>2, ReassignDoes
  <2>. QED
    BY <1>2, <2>1, <2>2
<1>12. ASSUME NEW t \in Threads, NEW n \in Numbers, NEW f \in Picked, AssignPr(t, n, f)
       PROVE  Watermark'
  <2>1. /\ UNCHANGED <<clock, upstream, last, seen, listed, excused>> /\ f \in Fids
        /\ \A s \in Threads \ {t} : Alike(th[s], th'[s])
        /\ th'[t] = Idle \/ th'[t] = [pc |-> "review", n |-> n, fid |-> f]
    BY <1>12, AssignPrDoes
  <2>2. \A S \in Syncing : ~Carries(th'[t], S)
    <3>1. [pc |-> "review", n |-> n, fid |-> f] \in Reviewing
      BY <2>1 DEF Reviewing
    <3>. QED
      BY <2>1, <3>1, CarriesNothing
  <2>3. \A s \in Threads : \A S \in Syncing : Carries(th'[s], S) =>
           Carries(th[s], S) /\ \A p \in Versions : Storing(th[s], p) => Storing(th'[s], p)
    BY <1>5, <1>6, <2>1, <2>2
  <2>. QED
    BY <1>4, <2>1, <2>3
<1>13. ASSUME NEW t \in Threads, Upsert(t)
       PROVE  Watermark'
  <2>1. /\ th[t].pc = "upsert" /\ Registered(t) /\ "map" \in Ingestion \ {"upsert"}
        /\ th[t].pc \in Ingestion
    BY <1>13, UpsertDoes DEF Ingestion
  <2>2. PICK f \in Fids, m \in BOOLEAN : Turns(t, "map", f, m)
    BY <1>13, UpsertDoes
  <2>3. /\ UNCHANGED <<clock, upstream, last, listed, excused>>
        /\ seen'[th[t].n] >= seen[th[t].n] /\ seen'[th[t].n] >= th[t].upd
        /\ \A n \in Numbers \ {th[t].n} : seen'[n] = seen[n]
    BY <2>1, RegisteredDoes
  <2>4. th[t].n \in Numbers /\ th[t].upd \in 1 .. MaxTime
    BY <2>1, IngestIs
  <2>5. \A n \in Numbers : seen[n] <= seen'[n]
    BY <2>3, <2>4 DEF TypeOK
  <2>6. th[t].upd <= seen'[th[t].n]
    BY <2>3, <2>4 DEF TypeOK
  <2>. QED
    BY <1>3, <2>1, <2>2, <2>3, <2>5, <2>6
<1>14. ASSUME NEW t \in Threads, SetMapping(t)
       PROVE  Watermark'
  <2>1. /\ UNCHANGED <<clock, upstream, last, seen, listed, excused>> /\ th[t].pc = "map"
        /\ \A s \in Threads \ {t} : Alike(th[s], th'[s])
        /\ th'[t].pc = "create" /\ th'[t].after = th[t].after
    BY <1>14, SetMappingDoes
  <2>2. \A S \in Syncing : Carries(th'[t], S) =>
           Carries(th[t], S) /\ \A p : ~Storing(th[t], p)
    BY <2>1 DEF Carries, Storing, Ingestion
  <2>3. \A s \in Threads : \A S \in Syncing : Carries(th'[s], S) =>
           Carries(th[s], S) /\ \A p \in Versions : Storing(th[s], p) => Storing(th'[s], p)
    BY <1>5, <1>6, <2>1, <2>2
  <2>. QED
    BY <1>4, <2>1, <2>3
<1>15. ASSUME NEW t \in Threads,
              CreateRun(t) \/ Enrich(t) \/ Resolve(t) \/ Remap(t) \/ Cover(t)
       PROVE  Watermark'
  <2>1. /\ th[t].pc \in {"create", "enrich", "resolve", "remap", "cover"}
        /\ UNCHANGED <<clock, upstream, last, seen, listed, excused>>
    BY <1>15, CreateRunDoes, EnrichDoes, ResolveDoes, RemapDoes, CoverDoes
  <2>2. th[t].pc \in Ingestion /\ th[t].pc # "upsert"
        /\ {"enrich", "resolve", "remap", "cover", "finish"} \subseteq Ingestion \ {"upsert"}
    BY <2>1 DEF Ingestion
  <2>3. th[t].n \in Numbers /\ th[t].fid \in Fids /\ th[t].manual \in BOOLEAN
    BY <2>2, IngestIs
  <2>4. \E pc \in Ingestion \ {"upsert"}, f \in Fids, m \in BOOLEAN : Turns(t, pc, f, m)
    <3>1. CASE CreateRun(t)
      BY <2>2, <2>3, <3>1, CreateRunDoes
    <3>2. CASE Enrich(t)
      <4>1. PICK pc : pc = IF th[t].fid # None THEN "cover" ELSE "resolve"
        OBVIOUS
      <4>2. Turns(t, pc, th[t].fid, th[t].manual)
        BY <3>2, <4>1, EnrichDoes
      <4>. QED
        BY <2>2, <2>3, <4>1, <4>2
    <3>3. CASE Resolve(t)
      <4>1. PICK f \in Fids : Turns(t, IF f = None THEN "finish" ELSE "remap", f, th[t].manual)
        BY <3>3, ResolveDoes
      <4>. QED
        BY <2>2, <2>3, <4>1
    <3>4. CASE Remap(t)
      <4>1. Turns(t, "cover", th[t].fid, th[t].manual)
        BY <3>4, RemapDoes
      <4>. QED
        BY <2>2, <2>3, <4>1
    <3>5. CASE Cover(t)
      BY <2>2, <2>3, <3>5, CoverDoes
    <3>. QED
      BY <1>15, <3>1, <3>2, <3>3, <3>4, <3>5
  <2>5. \A n \in Numbers : seen[n] <= seen'[n]
    BY <2>1, SeenSame
  <2>. QED
    BY <1>3, <2>1, <2>2, <2>4, <2>5
<1>16. ASSUME NEW t \in Threads, Finish(t) \/ ReviewFails(t)
       PROVE  Watermark'
  <2>1. /\ UNCHANGED <<clock, upstream, last, seen, listed, excused>>
        /\ th[t] \in Ingests /\ th' = [th EXCEPT ![t] = Back(th[t])]
        /\ th[t].pc \in {"finish", "cover"}
    BY <1>16, EndRunDoes
  <2>2. PICK y : y = Back(th[t])
    OBVIOUS
  <2>3. y \in Doing
    BY <2>1, <2>2, BackIs DEF Doing
  <2>4. \A S \in Syncing : Carries(y, S) => Carries(th[t], S)
    BY <2>1, <2>2, BackCarries
  <2>5. \A p : ~Storing(th[t], p)
    BY <2>1 DEF Storing
  <2>. QED
    BY <1>2, <2>1, <2>2, <2>3, <2>4, <2>5
<1>17. ASSUME NEW t \in Threads, IngestFails(t)
       PROVE  Watermark'
  <2>1. /\ UNCHANGED <<clock, upstream, last, seen, listed>> /\ excused \subseteq excused'
        /\ th[t] \in Ingests
        /\ \/ th' = [th EXCEPT ![t] = Idle]
           \/ /\ th' = [th EXCEPT ![t] = Back(th[t])]
              /\ th[t].after # <<>> => th[t].n \in excused'
    BY <1>17, IngestFailsDoes
  <2>2. CASE th' = [th EXCEPT ![t] = Idle]
    BY <1>2, <2>1, <2>2, CarriesNothing DEF Doing
  <2>3. CASE /\ th' = [th EXCEPT ![t] = Back(th[t])]
             /\ th[t].after # <<>> => th[t].n \in excused'
    <3>1. PICK y : y = Back(th[t])
      OBVIOUS
    <3>2. y \in Doing
      BY <2>1, <3>1, BackIs DEF Doing
    <3>3. ASSUME NEW S \in Syncing, Carries(y, S)
          PROVE  /\ Carries(th[t], S)
                 /\ \A p \in Versions : Storing(th[t], p) => p[1] \in excused'
      <4>1. Carries(th[t], S)
        BY <2>1, <3>1, <3>3, BackCarries
      <4>2. th[t].after # <<>>
        BY <2>1, <3>1, <3>3, BackIs DEF Carries, Ingestion
      <4>. QED
        BY <2>3, <4>1, <4>2 DEF Storing
    <3>. QED
      BY <1>2, <2>1, <2>3, <3>1, <3>2, <3>3
  <2>. QED
    BY <2>1, <2>2, <2>3
<1>18. ASSUME NEW t \in Threads, Review(t)
       PROVE  Watermark'
  BY <1>2, <1>18, ReviewDoes, CarriesNothing DEF Doing
<1>19. Environment => Watermark'
  BY <1>8, PushCovers DEF Environment
<1>20. \A t \in Threads : Requests(t) => Watermark'
  <2>1. 1 \in 1 .. MaxTime
    BY SyncAssumption
  <2>2. \A t \in Threads, n \in Numbers, u \in 1 .. MaxTime : Event(t, n, u) => Watermark'
    BY <1>10
  <2>3. \A t \in Threads, n \in Numbers, pin \in Picked \union {None} :
           ManualRun(t, n, pin) => Watermark'
    BY <1>10, <2>1
  <2>. QED
    BY <1>11, <1>12, <2>2, <2>3, StartSyncCovers DEF Requests
<1>21. \A t \in Threads : Steps(t) => Watermark'
  BY <1>9, <1>13, <1>14, <1>15, <1>16, <1>17, <1>18, SyncNextCovers, SyncDoneCovers DEF Steps
<1>. QED
  BY <1>7, <1>19, <1>20, <1>21 DEF Next

-----------------------------------------------------------------------------
(* Manual assignments *)

\* An ingestion between its decision and the last write of it: a mapping that
\* is kept has a feature, and an automatic one replaces no assignment, unless
\* the ingestion is late.  d is the document.
Mapping == {"map", "create", "enrich", "resolve", "remap"}
DecidedBy(x, d) == /\ x.manual => x.fid # None
                   /\ x.pc \in {"resolve", "remap"} => ~x.manual
                   /\ ~x.manual /\ ~x.late => ~d.manual
Decided == \A t \in Threads : th[t].pc \in Mapping => DecidedBy(th[t], prs[th[t].n])
Assigned == \A n \in Numbers : prs[n] # None /\ prs[n].manual => prs[n].fid # None

Manual == Decided /\ Assigned

LEMMA MappingIs ==
  /\ Mapping \subseteq Ingestion \ {"upsert"}
  /\ {"idle", "sync", "review", "upsert", "cover", "finish"} \intersect Mapping = {}
BY DEF Mapping, Ingestion

LEMMA AlikeDecided ==
  ASSUME NEW x, NEW y, NEW d, NEW d2, Alike(x, y), DecidedBy(x, d),
         d2.manual => d.manual \/ y.late
  PROVE  DecidedBy(y, d2)
BY DEF Alike, DecidedBy

\* What t leaves alone.
LEMMA OthersDecided ==
  ASSUME Typed, Manual, NEW t \in Threads, NEW s \in Threads \ {t},
         th'[s].pc \in Mapping, th'[s] = th[s],
         \A n \in Numbers : prs[n] # None => (prs'[n].manual => prs[n].manual)
  PROVE  DecidedBy(th'[s], prs'[th'[s].n])
<1>1. th[s].n \in Numbers /\ prs[th[s].n] # None
  BY MappingIs, KnownIs, IngestIs DEF Typed, Known
<1>2. DecidedBy(th[s], prs[th[s].n])
  BY DEF Manual, Decided
<1>. QED
  BY <1>1, <1>2 DEF DecidedBy

LEMMA LeavesManual ==
  ASSUME Typed, Manual, NEW t \in Threads, NEW y \in Doing, y.pc \notin Mapping,
         th' = [th EXCEPT ![t] = y], UNCHANGED prs
  PROVE  Manual'
<1>1. th'[t] = y /\ \A s \in Threads \ {t} : th'[s] = th[s]
  BY Moved DEF Typed
<1>2. Decided'
  BY <1>1, OthersDecided DEF Decided
<1>. QED
  BY <1>2 DEF Manual, Assigned

LEMMA TurnsManual ==
  ASSUME Typed, Manual, NEW t \in Threads, NEW pc \in Ingestion, NEW f \in Fids,
         NEW m \in BOOLEAN, th[t].pc \in Ingestion, Turns(t, pc, f, m),
         NEW d \in Documents, prs' = [prs EXCEPT ![th[t].n] = d],
         d.manual => d.fid # None,
         prs[th[t].n] # None => (d.manual => prs[th[t].n].manual),
         pc \in Mapping =>
            /\ m => f # None
            /\ pc \in {"resolve", "remap"} => ~m
            /\ ~m /\ ~th[t].late => ~d.manual
  PROVE  Manual'
<1>1. /\ th'[t].pc = pc /\ th'[t].n = th[t].n /\ th'[t].fid = f /\ th'[t].manual = m
      /\ th'[t].late = th[t].late /\ \A s \in Threads \ {t} : th'[s] = th[s]
  BY TurnsDoes DEF Typed
<1>2. th[t].n \in Numbers
  BY IngestIs DEF Typed
<1>3. prs'[th[t].n] = d /\ \A n \in Numbers \ {th[t].n} : prs'[n] = prs[n]
  BY <1>2 DEF Typed, TypeOK
<1>4. \A n \in Numbers : prs[n] # None => (prs'[n].manual => prs[n].manual)
  BY <1>3
<1>5. pc \in Mapping => DecidedBy(th'[t], prs'[th'[t].n])
  BY <1>1, <1>3 DEF DecidedBy
<1>6. Decided'
  BY <1>1, <1>4, <1>5, OthersDecided DEF Decided
<1>7. Assigned'
  BY <1>3 DEF Manual, Assigned
<1>. QED
  BY <1>6, <1>7 DEF Manual

LEMMA KeepsManual ==
  ASSUME Typed, Manual, NEW t \in Threads, NEW pc \in Ingestion, NEW f \in Fids,
         th[t].pc \in Ingestion, Turns(t, pc, f, th[t].manual),
         NEW d \in Documents, prs' = [prs EXCEPT ![th[t].n] = d],
         d.manual => d.fid # None,
         prs[th[t].n] # None => (d.manual => prs[th[t].n].manual),
         pc \in Mapping =>
            /\ th[t].manual => f # None
            /\ pc \in {"resolve", "remap"} => ~th[t].manual
            /\ ~th[t].manual /\ ~th[t].late => ~d.manual
  PROVE  Manual'
<1>1. th[t].manual \in BOOLEAN
  BY IngestIs DEF Typed
<1>2. PICK m : m = th[t].manual
  OBVIOUS
<1>3. m \in BOOLEAN
  BY <1>1, <1>2
<1>4. Turns(t, pc, f, m)
  BY <1>2
<1>5. pc \in Mapping =>
            /\ m => f # None
            /\ pc \in {"resolve", "remap"} => ~m
            /\ ~m /\ ~th[t].late => ~d.manual
  BY <1>2
<1>. QED
  BY <1>3, <1>4, <1>5, TurnsManual, ZenonT(60)

LEMMA UpsertManual ==
  ASSUME Typed, Manual, NEW t \in Threads, Upsert(t)
  PROVE  /\ Manual'
         /\ \A n \in Numbers : prs[n] # None /\ prs[n].manual => prs'[n].manual
<1>1. /\ th[t].pc = "upsert" /\ Registered(t) /\ {"upsert", "map"} \subseteq Ingestion
      /\ "map" \in Mapping
  BY UpsertDoes DEF Typed, Ingestion, Mapping
<1>2. PICK f \in Fids, m \in BOOLEAN :
         /\ Turns(t, "map", f, m)
         /\ m => f # None
         /\ ~m => LET row == Stored(th[t].n, th[t].upd) IN ~(row.manual /\ row.fid # None)
  BY UpsertDoes DEF Typed
<1>3. PICK d : d = Stored(th[t].n, th[t].upd)
  OBVIOUS
<1>4. d \in Documents /\ prs' = [prs EXCEPT ![th[t].n] = d]
  BY <1>1, <1>3, RegisteredDoes DEF Typed
<1>5. th[t].n \in Numbers /\ th[t].pc \in Ingestion /\ "map" \in Ingestion
      /\ "map" \notin {"resolve", "remap"}
  BY <1>1, IngestIs DEF Typed
<1>6. CASE prs[th[t].n] = None
  <2>1. ~d.manual
    BY <1>3, <1>6 DEF Stored
  <2>2. Manual'
    BY <1>2, <1>4, <1>5, <1>6, <2>1, TurnsManual
  <2>. QED
    BY <1>4, <1>5, <1>6, <2>2 DEF Typed, TypeOK
<1>7. CASE prs[th[t].n] # None
  <2>1. prs[th[t].n] \in Documents
    BY <1>5, <1>7 DEF Typed, TypeOK
  <2>2. d.manual = prs[th[t].n].manual /\ d.fid = prs[th[t].n].fid
    BY <1>3, <1>7, <2>1 DEF Stored, Documents
  <2>3. d.manual => d.fid # None
    BY <1>5, <1>7, <2>2 DEF Manual, Assigned
  <2>4. ~m => ~d.manual
    BY <1>2, <1>3, <2>3
  <2>5. Manual'
    <3>1. d.manual => prs[th[t].n].manual
      BY <2>2
    <3>. QED
      BY <1>2, <1>4, <1>5, <2>3, <2>4, <3>1, TurnsManual, ZenonT(30)
  <2>. QED
    BY <1>4, <1>5, <2>2, <2>5 DEF Typed, TypeOK
<1>. QED
  BY <1>6, <1>7

LEMMA SetMappingManual ==
  ASSUME Typed, Manual, NEW t \in Threads, SetMapping(t)
  PROVE  /\ Manual' /\ th'[t] # th[t]
         /\ \A n \in Numbers : prs[n] # None /\ prs[n].manual /\ ~prs'[n].manual =>
               n = th[t].n /\ th[t].pc = "map" /\ th[t].late
<1>1. /\ th[t].pc = "map" /\ th[t] \in Ingests /\ th'[t] \in Ingests
      /\ prs' = [prs EXCEPT ![th[t].n] = Mapped(prs[th[t].n], th[t].fid, th[t].manual)]
      /\ Mapped(prs[th[t].n], th[t].fid, th[t].manual) \in Documents
      /\ th'[t].pc = "create" /\ th'[t].n = th[t].n
      /\ th'[t].fid = th[t].fid /\ th'[t].manual = th[t].manual
      /\ ~th[t].manual => \A s \in Threads \ {t} : th'[s] = th[s]
      /\ \A s \in Threads \ {t} : /\ Alike(th[s], th'[s])
                                  /\ th[t].manual /\ th[s].pc \in Ingestion \ {"upsert"}
                                     /\ th[s].n = th[t].n => th'[s].late
  BY SetMappingDoes DEF Typed
<1>2. th[t].n \in Numbers /\ prs[th[t].n] \in Documents
  BY <1>1, MappingIs, KnownIs DEF Typed, Mapping
<1>3. PICK d : d = Mapped(prs[th[t].n], th[t].fid, th[t].manual)
  OBVIOUS
<1>4. d.manual = th[t].manual /\ d.fid = th[t].fid
  BY <1>2, <1>3 DEF Mapped, Documents
<1>5. prs'[th[t].n] = d /\ \A n \in Numbers \ {th[t].n} : prs'[n] = prs[n]
  BY <1>1, <1>2, <1>3 DEF Typed, TypeOK
<1>6. DecidedBy(th[t], prs[th[t].n])
  BY <1>1 DEF Manual, Decided, Mapping
<1>7. Assigned'
  BY <1>4, <1>5, <1>6 DEF Manual, Assigned, DecidedBy
<1>8. ASSUME NEW s \in Threads \ {t}, th'[s].pc \in Mapping
      PROVE  DecidedBy(th'[s], prs'[th'[s].n])
  <2>1. Alike(th[s], th'[s]) /\ th'[s].pc = th[s].pc /\ th'[s].n = th[s].n
    BY <1>1, AlikeIs
  <2>2. th[s].n \in Numbers /\ DecidedBy(th[s], prs[th[s].n])
    BY <1>8, <2>1, MappingIs, IngestIs DEF Manual, Decided, Typed
  <2>3. CASE th[s].n # th[t].n
    BY <1>5, <2>1, <2>2, <2>3, AlikeDecided
  <2>4. CASE th[s].n = th[t].n
    <3>1. th[t].manual => th'[s].late
      BY <1>1, <1>8, <2>1, <2>4, MappingIs
    <3>2. d.manual => prs[th[s].n].manual \/ th'[s].late
      BY <1>4, <3>1
    <3>. QED
      BY <1>5, <2>1, <2>2, <2>4, <3>2, AlikeDecided
  <2>. QED
    BY <2>3, <2>4
<1>9. DecidedBy(th'[t], prs'[th'[t].n])
  BY <1>1, <1>4, <1>5, <1>6 DEF DecidedBy
<1>10. Decided'
  BY <1>8, <1>9 DEF Decided
<1>11. th[t].manual \in BOOLEAN /\ th[t].late \in BOOLEAN /\ prs[th[t].n].manual \in BOOLEAN
  BY <1>1, <1>2 DEF Ingests, Documents
<1>12. \A n \in Numbers : prs[n] # None /\ prs[n].manual /\ ~prs'[n].manual =>
          n = th[t].n /\ th[t].late
  BY <1>4, <1>5, <1>6, <1>11 DEF DecidedBy
<1>. QED
  BY <1>1, <1>7, <1>10, <1>12 DEF Manual

LEMMA AssignPrManual ==
  ASSUME Typed, Manual, NEW t \in Threads, NEW n \in Numbers, NEW f \in Picked,
         AssignPr(t, n, f)
  PROVE  /\ Manual'
         /\ \A m \in Numbers : prs[m] # None /\ prs[m].manual => prs'[m].manual
<1>1. /\ f \in Fids \ {None} /\ prs[n] \in Documents
      /\ prs' = [prs EXCEPT ![n] = Mapped(prs[n], f, TRUE)]
      /\ \A s \in Threads \ {t} : /\ Alike(th[s], th'[s])
                                  /\ th[s].pc \in Ingestion \ {"upsert"} /\ th[s].n = n
                                     => th'[s].late
      /\ th'[t] = Idle \/ th'[t] = [pc |-> "review", n |-> n, fid |-> f]
  BY AssignPrDoes, ZenonT(30) DEF Typed
<1>2. PICK d : d = Mapped(prs[n], f, TRUE)
  OBVIOUS
<1>3. d.manual = TRUE /\ d.fid = f
  BY <1>1, <1>2 DEF Mapped, Documents
<1>4. prs'[n] = d /\ \A m \in Numbers \ {n} : prs'[m] = prs[m]
  BY <1>1, <1>2 DEF Typed, TypeOK
<1>5. Assigned'
  BY <1>1, <1>3, <1>4 DEF Manual, Assigned
<1>6. th'[t].pc \notin Mapping
  BY <1>1, MappingIs DEF Idle
<1>7. ASSUME NEW s \in Threads \ {t}, th'[s].pc \in Mapping
      PROVE  DecidedBy(th'[s], prs'[th'[s].n])
  <2>1. Alike(th[s], th'[s]) /\ th'[s].pc = th[s].pc /\ th'[s].n = th[s].n
    BY <1>1, AlikeIs
  <2>2. th[s].n \in Numbers /\ DecidedBy(th[s], prs[th[s].n])
    BY <1>7, <2>1, MappingIs, IngestIs DEF Manual, Decided, Typed
  <2>3. CASE th[s].n # n
    BY <1>4, <2>1, <2>2, <2>3, AlikeDecided
  <2>4. CASE th[s].n = n
    <3>1. th'[s].late
      BY <1>1, <1>7, <2>1, <2>4, MappingIs
    <3>. QED
      BY <2>1, <2>2, <3>1, AlikeDecided
  <2>. QED
    BY <2>3, <2>4
<1>8. Decided'
  BY <1>6, <1>7 DEF Decided
<1>. QED
  BY <1>3, <1>4, <1>5, <1>8 DEF Manual

LEMMA LateMappings ==
  ASSUME Typed, Manual, NEW t \in Threads,
         CreateRun(t) \/ Enrich(t) \/ Resolve(t) \/ Remap(t) \/ Cover(t)
  PROVE  /\ Manual' /\ th'[t] # th[t]
         /\ \A n \in Numbers : prs[n] # None /\ prs[n].manual /\ ~prs'[n].manual =>
               n = th[t].n /\ th[t].pc = "remap" /\ th[t].late
<1>1. th[t].pc \in {"create", "enrich", "resolve", "remap", "cover"}
  BY CreateRunDoes, EnrichDoes, ResolveDoes, RemapDoes, CoverDoes DEF Typed
<1>2. /\ th[t].pc \in Ingestion \ {"upsert"}
      /\ {"enrich", "resolve", "remap", "cover", "finish"} \subseteq Ingestion
  BY <1>1 DEF Ingestion
<1>3. /\ th[t] \in Ingests /\ th[t].n \in Numbers /\ th[t].fid \in Fids
      /\ th[t].manual \in BOOLEAN /\ th[t].late \in BOOLEAN /\ prs[th[t].n] \in Documents
  BY <1>2, KnownIs, IngestIs DEF Ingests, Typed
<1>4. /\ prs[th[t].n] # None
      /\ prs[th[t].n].manual => prs[th[t].n].fid # None
  BY <1>2, <1>3 DEF Known, Manual, Assigned, Typed
<1>5. th[t].pc # "cover" => DecidedBy(th[t], prs[th[t].n])
  BY <1>1 DEF Manual, Decided, Mapping
<1>6. /\ th[t].pc # "cover" /\ th[t].manual => th[t].fid # None
      /\ th[t].pc \in {"resolve", "remap"} => ~th[t].manual
      /\ th[t].pc # "cover" /\ ~th[t].manual /\ ~th[t].late => ~prs[th[t].n].manual
  BY <1>1, <1>5 DEF DecidedBy
<1>7. prs[th[t].n].manual \in BOOLEAN
  BY <1>3 DEF Documents
<1>8. PICK old \in Documents : old = prs[th[t].n]
  BY <1>3
<1>9. prs = [prs EXCEPT ![th[t].n] = old]
  BY <1>3, <1>8 DEF TypeOK, Typed
<1>15. /\ th[t].pc \in Ingestion /\ prs[th[t].n] # None
       /\ {"enrich", "resolve", "remap", "cover", "finish"} \subseteq Ingestion
       /\ old.manual => old.fid # None
       /\ old.manual => prs[th[t].n].manual
  BY <1>2, <1>4, <1>8
<1>10. CASE CreateRun(t)
  <2>1. th[t].pc = "create" /\ Turns(t, "enrich", th[t].fid, th[t].manual) /\ UNCHANGED prs
    BY <1>10, CreateRunDoes DEF Typed
  <2>2. prs' = [prs EXCEPT ![th[t].n] = old]
    BY <1>9, <2>1
  <2>3. "enrich" \notin {"resolve", "remap"}
    OBVIOUS
  <2>4. Manual'
    <3>1. ~th[t].manual /\ ~th[t].late => ~old.manual
      BY <1>6, <1>8, <2>1
    <3>2. th[t].manual => th[t].fid # None
      BY <1>6, <2>1
    <3>. QED
      BY <1>3, <1>15, <2>1, <2>2, <2>3, <3>1, <3>2, KeepsManual
  <2>5. th'[t].pc = "enrich"
    BY <1>2, <1>3, <2>1, TurnsDoes DEF Typed
  <2>. QED
    BY <2>1, <2>4, <2>5
<1>11. CASE Cover(t)
  <2>1. th[t].pc = "cover" /\ Turns(t, "finish", th[t].fid, th[t].manual) /\ UNCHANGED prs
    BY <1>11, CoverDoes DEF Typed
  <2>2. prs' = [prs EXCEPT ![th[t].n] = old]
    BY <1>9, <2>1
  <2>3. "finish" \notin Mapping
    BY MappingIs DEF Typed
  <2>4. Manual'
    BY <1>3, <1>15, <2>1, <2>2, <2>3, KeepsManual
  <2>5. th'[t].pc = "finish"
    BY <1>2, <1>3, <2>1, TurnsDoes DEF Typed
  <2>. QED
    BY <2>1, <2>4, <2>5
<1>12. CASE Enrich(t)
  <2>1. PICK pc : pc = IF th[t].fid # None THEN "cover" ELSE "resolve"
    OBVIOUS
  <2>2. th[t].pc = "enrich" /\ Turns(t, pc, th[t].fid, th[t].manual) /\ pc \in Ingestion
    BY <1>2, <1>12, <2>1, EnrichDoes DEF Typed
  <2>3. PICK d : d = [prs[th[t].n] EXCEPT !.upd = th[t].upd]
    OBVIOUS
  <2>4. prs' = [prs EXCEPT ![th[t].n] = d]
    BY <1>12, <2>3, EnrichDoes DEF Typed
  <2>5. d \in Documents /\ d.fid = old.fid /\ d.manual = old.manual
    BY <1>2, <1>8, <2>3, IngestIs DEF Documents, Typed
  <2>6. (d.manual => old.manual) /\ (old.manual => d.manual)
    BY <2>5
  <2>7. pc \in Mapping => th[t].fid = None /\ ~th[t].manual
    BY <1>6, <2>1, <2>2, MappingIs DEF Typed
  <2>8. d.manual => d.fid # None
    BY <1>4, <1>8, <2>5, <2>6
  <2>9. ~th[t].manual /\ ~th[t].late => ~d.manual
    BY <1>6, <1>8, <2>2, <2>6
  <2>10. Manual'
    <3>1. d.manual => prs[th[t].n].manual
      BY <1>8, <2>6
    <3>. QED
      BY <1>3, <1>15, <2>2, <2>4, <2>5, <2>7, <2>8, <2>9, <3>1, KeepsManual
  <2>11. th'[t].pc = pc
    BY <1>2, <1>3, <2>2, TurnsDoes DEF Typed
  <2>12. \A n \in Numbers : prs[n].manual => prs'[n].manual
    BY <1>3, <1>8, <2>4, <2>6 DEF TypeOK, Typed
  <2>. QED
    BY <2>1, <2>2, <2>10, <2>11, <2>12
<1>13. CASE Resolve(t)
  <2>1. PICK f \in Fids : Turns(t, IF f = None THEN "finish" ELSE "remap", f, th[t].manual)
    BY <1>13, ResolveDoes DEF Typed
  <2>2. PICK pc : pc = IF f = None THEN "finish" ELSE "remap"
    OBVIOUS
  <2>3. th[t].pc = "resolve" /\ Turns(t, pc, f, th[t].manual) /\ pc \in Ingestion
    BY <1>2, <1>13, <2>1, <2>2, ResolveDoes DEF Typed
  <2>4. PICK g \in Fids : prs' = [prs EXCEPT ![th[t].n] = [prs[th[t].n] EXCEPT !.sug = g]]
    BY <1>13, ResolveDoes DEF Typed
  <2>5. PICK d : d = [prs[th[t].n] EXCEPT !.sug = g]
    OBVIOUS
  <2>6. prs' = [prs EXCEPT ![th[t].n] = d]
    BY <2>4, <2>5
  <2>7. d \in Documents /\ d.fid = old.fid /\ d.manual = old.manual
    BY <1>8, <2>5 DEF Documents
  <2>8. (d.manual => old.manual) /\ (old.manual => d.manual)
    BY <2>7
  <2>9. ~th[t].manual
    BY <1>6, <2>3
  <2>10. d.manual => d.fid # None
    BY <1>4, <1>8, <2>7, <2>8
  <2>11. ~th[t].manual /\ ~th[t].late => ~d.manual
    BY <1>6, <1>8, <2>3, <2>8
  <2>12. Manual'
    <3>1. d.manual => prs[th[t].n].manual
      BY <1>8, <2>8
    <3>. QED
      BY <1>3, <1>15, <2>3, <2>6, <2>7, <2>9, <2>10, <2>11, <3>1, KeepsManual
  <2>13. th'[t].pc = pc
    BY <1>2, <1>3, <2>3, TurnsDoes DEF Typed
  <2>14. \A n \in Numbers : prs[n].manual => prs'[n].manual
    BY <1>3, <1>8, <2>6, <2>8 DEF TypeOK, Typed
  <2>. QED
    BY <2>2, <2>3, <2>12, <2>13, <2>14
<1>14. CASE Remap(t)
  <2>1. th[t].pc = "remap" /\ Turns(t, "cover", th[t].fid, th[t].manual)
    BY <1>14, RemapDoes DEF Typed
  <2>2. PICK d : d = Mapped(prs[th[t].n], th[t].fid, FALSE)
    OBVIOUS
  <2>3. d \in Documents /\ prs' = [prs EXCEPT ![th[t].n] = d]
    BY <1>14, <2>2, RemapDoes DEF Typed
  <2>4. ~d.manual
    BY <1>3, <2>2 DEF Mapped, Documents
  <2>5. "cover" \notin Mapping
    BY MappingIs DEF Typed
  <2>6. Manual'
    BY <1>3, <1>15, <2>1, <2>3, <2>4, <2>5, KeepsManual
  <2>7. th'[t].pc = "cover"
    BY <1>2, <1>3, <2>1, TurnsDoes DEF Typed
  <2>8. ~th[t].manual /\ (prs[th[t].n].manual => th[t].late)
    BY <1>3, <1>6, <2>1
  <2>9. \A n \in Numbers \ {th[t].n} : prs'[n] = prs[n]
    BY <2>3 DEF TypeOK, Typed
  <2>. QED
    BY <2>1, <2>6, <2>7, <2>8, <2>9
<1>. QED
  BY <1>10, <1>11, <1>12, <1>13, <1>14

(* What is known of a mapping holds on, and an automatic one replaces an   *)
(* assignment only by the step of an ingestion that is late.               *)
LEMMA ManualStep ==
  ASSUME Typed, Typed', Manual, [Next]_vars
  PROVE  /\ Manual'
         /\ \A n \in Numbers :
               prs[n] # None /\ prs[n].manual /\ ~prs'[n].manual
               => \E t \in Threads : /\ th[t].pc \in {"map", "remap"} /\ th[t].n = n /\ th[t].late
                                    /\ th'[t] # th[t]
<1>. DEFINE Gives ==
         \A n \in Numbers :
             prs[n] # None /\ prs[n].manual /\ ~prs'[n].manual
             => \E t \in Threads : /\ th[t].pc \in {"map", "remap"} /\ th[t].n = n /\ th[t].late
                                  /\ th'[t] # th[t]
            Goal == Manual' /\ Gives
<1>1. UNCHANGED prs => Gives
  OBVIOUS
<1>2. UNCHANGED <<prs, th>> => Manual'
  BY DEF Manual, Decided, Assigned
<1>3. ASSUME NEW t \in Threads, NEW y \in Doing, y.pc \notin Mapping,
             th' = [th EXCEPT ![t] = y], UNCHANGED prs
      PROVE  Goal
  BY <1>1, <1>3, LeavesManual
<1>4. Idle.pc \notin Mapping /\ Idle \in Doing
      /\ \A y \in Syncing : y.pc \notin Mapping /\ y \in Doing
  BY MappingIs DEF Idle, Syncing, Doing
<1>5. "upsert" \notin Mapping
  BY MappingIs
<1>6. \A t, n, u, p : Ingesting(t, n, u, p).pc \notin Mapping
  BY <1>5 DEF Ingesting
<1>. HIDE DEF Goal
<1>7. UNCHANGED vars => Goal
  BY <1>1, <1>2, StutterKeeps DEF Goal, Typed
<1>8. Environment => Goal
  BY <1>1, <1>2, OutsideDoes, PushDoes DEF Goal, Typed, Environment
<1>9. ASSUME NEW t \in Threads, StartSync(t)
      PROVE  Goal
  <2>1. UNCHANGED prs
    BY <1>9, StartSyncDoes DEF Typed
  <2>2. PICK y \in Syncing : th' = [th EXCEPT ![t] = y]
    BY <1>9, StartSyncDoes DEF Typed
  <2>. QED
    BY <1>3, <1>4, <2>1, <2>2
<1>10. ASSUME NEW t \in Threads, SyncNext(t)
       PROVE  Goal
  <2>1. UNCHANGED prs
    BY <1>10, SyncNextDoes DEF Typed
  <2>2. PICK S \in Syncing, n \in Numbers, u \in 1 .. MaxTime :
          /\ th' = [th EXCEPT ![t] = [Ingesting(t, n, u, None) EXCEPT !.after = <<S>>]]
          /\ [Ingesting(t, n, u, None) EXCEPT !.after = <<S>>] \in Ingests
    BY <1>10, SyncNextDoes DEF Typed
  <2>3. PICK y : y = [Ingesting(t, n, u, None) EXCEPT !.after = <<S>>]
    OBVIOUS
  <2>4. y.pc = "upsert"
    BY <2>3 DEF Ingesting
  <2>. QED
    BY <1>3, <1>5, <2>1, <2>2, <2>3, <2>4 DEF Doing
<1>11. ASSUME NEW t \in Threads, SyncRefused(t) \/ SyncDone(t)
       PROVE  Goal
  BY <1>3, <1>4, <1>11, IdleDoes DEF Typed
<1>12. ASSUME NEW t \in Threads, NEW n \in Numbers, NEW u \in 1 .. MaxTime,
              NEW pin \in Picked \union {None}, Event(t, n, u) \/ ManualRun(t, n, pin)
       PROVE  Goal
  <2>1. UNCHANGED prs
    BY <1>12, BeginsDoes DEF Typed
  <2>2. PICK v \in 1 .. MaxTime, p \in Fids :
          /\ th' = [th EXCEPT ![t] = Ingesting(t, n, v, p)]
          /\ Ingesting(t, n, v, p) \in Ingests
    BY <1>12, BeginsDoes DEF Typed
  <2>3. PICK y : y = Ingesting(t, n, v, p)
    OBVIOUS
  <2>. QED
    BY <1>3, <1>6, <2>1, <2>2, <2>3 DEF Doing
<1>13. ASSUME NEW t \in Threads, NEW r \in runs, NEW f \in Picked, Reassign(t, r, f)
       PROVE  Goal
  <2>1. UNCHANGED prs
    BY <1>13, ReassignDoes DEF Typed
  <2>2. PICK y \in Doing : th' = [th EXCEPT ![t] = y] /\ y.pc \notin Mapping
    <3>1. CASE th' = [th EXCEPT ![t] = Idle]
      BY <1>4, <3>1
    <3>2. ASSUME NEW v \in 1 .. MaxTime, NEW p \in Fids,
                 th' = [th EXCEPT ![t] = Ingesting(t, r.n, v, p)],
                 Ingesting(t, r.n, v, p) \in Ingests
          PROVE  \E y \in Doing : th' = [th EXCEPT ![t] = y] /\ y.pc \notin Mapping
      BY <1>6, <3>2 DEF Doing
    <3>. QED
      BY <1>13, <3>1, <3>2, ReassignDoes DEF Typed
  <2>. QED
    BY <1>3, <2>1, <2>2
<1>14. ASSUME NEW t \in Threads, NEW n \in Numbers, NEW f \in Picked, AssignPr(t, n, f)
       PROVE  Goal
  BY <1>14, AssignPrManual DEF Goal
<1>15. ASSUME NEW t \in Threads, Upsert(t)
       PROVE  Goal
  BY <1>15, UpsertManual DEF Goal
<1>16. ASSUME NEW t \in Threads, SetMapping(t)
       PROVE  Goal
  <2>1. /\ Manual' /\ th'[t] # th[t]
        /\ \A n \in Numbers : prs[n] # None /\ prs[n].manual /\ ~prs'[n].manual =>
              n = th[t].n /\ th[t].pc = "map" /\ th[t].late
    BY <1>16, SetMappingManual
  <2>2. Gives
    BY <2>1
  <2>. QED
    BY <2>1, <2>2 DEF Goal
<1>17. ASSUME NEW t \in Threads,
              CreateRun(t) \/ Enrich(t) \/ Resolve(t) \/ Remap(t) \/ Cover(t)
       PROVE  Goal
  <2>1. /\ Manual' /\ th'[t] # th[t]
        /\ \A n \in Numbers : prs[n] # None /\ prs[n].manual /\ ~prs'[n].manual =>
              n = th[t].n /\ th[t].pc = "remap" /\ th[t].late
    BY <1>17, LateMappings
  <2>2. Gives
    BY <2>1
  <2>. QED
    BY <2>1, <2>2 DEF Goal
<1>18. ASSUME NEW t \in Threads, Finish(t) \/ ReviewFails(t) \/ IngestFails(t)
       PROVE  Goal
  <2>1. /\ UNCHANGED prs /\ th[t] \in Ingests
        /\ (th' = [th EXCEPT ![t] = Idle] \/ th' = [th EXCEPT ![t] = Back(th[t])])
    BY <1>18, EndRunDoes, IngestFailsDoes DEF Typed
  <2>2. PICK y : y = Back(th[t])
    OBVIOUS
  <2>3. y \in {Idle} \union Syncing
    BY <2>1, <2>2, BackIs
  <2>. QED
    BY <1>3, <1>4, <2>1, <2>2, <2>3
<1>19. ASSUME NEW t \in Threads, Review(t)
       PROVE  Goal
  BY <1>3, <1>4, <1>19, ReviewDoes DEF Typed
<1>20. \A t \in Threads : Requests(t) => Goal
  <2>1. 1 \in 1 .. MaxTime
    BY SyncAssumption
  <2>2. \A t \in Threads, n \in Numbers, u \in 1 .. MaxTime : Event(t, n, u) => Goal
    BY <1>12
  <2>3. \A t \in Threads, n \in Numbers, pin \in Picked \union {None} :
           ManualRun(t, n, pin) => Goal
    BY <1>12, <2>1
  <2>. QED
    BY <1>9, <1>13, <1>14, <2>2, <2>3 DEF Requests
<1>21. \A t \in Threads : Steps(t) => Goal
  BY <1>10, <1>11, <1>15, <1>16, <1>17, <1>18, <1>19 DEF Steps
<1>22. Goal
  BY <1>7, <1>8, <1>20, <1>21 DEF Next
<1>. QED
  BY <1>22 DEF Goal

-----------------------------------------------------------------------------
(* What is left at rest *)

\* Thread record x works on n.  Good: the review c is that of the feature
\* that document d is mapped to.  Fits: how far x, alone with d, has come.
On(x, n) == x.pc # "idle" /\ x.n = n
Good(d, c) == d # None /\ d.fid \in WithCases => c = d.fid
Fits(x, d, c) == /\ x.pc \in {"create", "enrich", "resolve", "cover", "review"} => d.fid = x.fid
                 /\ x.pc = "resolve" => x.fid = None
                 /\ x.pc = "finish" => Good(d, c)

\* A pull request that is not broken has at most one thread, which fits; with
\* none, its review is good.
Worked == \A n \in Numbers \ broken :
    /\ \A s, t \in Threads : On(th[s], n) /\ On(th[t], n) => s = t
    /\ \A t \in Threads : On(th[t], n) => Fits(th[t], prs[n], cov[n])
    /\ (\A t \in Threads : ~On(th[t], n)) => Good(prs[n], cov[n])

\* One row per pull request.  A running one is that of a thread still to end.
OneRun == \A q, r \in runs : q.n = r.n => q = r
Handles(x, r) == /\ x.pc \in Ingestion \ {"upsert", "map", "create"}
                 /\ x.n = r.n /\ x.run = r.id
Running == \A r \in runs : r.n \notin broken /\ r.status = "running" =>
               \E t \in Threads : Handles(th[t], r)

Settled == Worked /\ OneRun /\ Running

Same(x, y) == y.pc = x.pc /\ y.n = x.n /\ y.fid = x.fid /\ y.run = x.run

LEMMA WorkedStays ==
  ASSUME Worked, NEW t \in Threads, broken \subseteq broken',
         \A s \in Threads \ {t} : Same(th[s], th'[s]),
         \A n \in Numbers \ broken' :
            \/ /\ ~On(th[t], n) /\ ~On(th'[t], n)
               /\ prs'[n] = prs[n] /\ cov'[n] = cov[n]
            \/ On(th[t], n) /\ On(th'[t], n) /\ Fits(th'[t], prs'[n], cov'[n])
            \/ On(th[t], n) /\ ~On(th'[t], n) /\ Good(prs'[n], cov'[n])
            \/ ~Busy(n) /\ On(th'[t], n) /\ Fits(th'[t], prs'[n], cov'[n])
  PROVE  Worked'
<1>. SUFFICES ASSUME NEW n \in Numbers \ broken'
              PROVE  /\ \A r, s \in Threads : On(th'[r], n) /\ On(th'[s], n) => r = s
                     /\ \A s \in Threads : On(th'[s], n) => Fits(th'[s], prs'[n], cov'[n])
                     /\ (\A s \in Threads : ~On(th'[s], n)) => Good(prs'[n], cov'[n])
  BY DEF Worked
<1>1. /\ n \in Numbers \ broken
      /\ \A r, s \in Threads : On(th[r], n) /\ On(th[s], n) => r = s
      /\ \A s \in Threads : On(th[s], n) => Fits(th[s], prs[n], cov[n])
      /\ (\A s \in Threads : ~On(th[s], n)) => Good(prs[n], cov[n])
  BY DEF Worked
<1>2. \A s \in Threads \ {t} : On(th'[s], n) <=> On(th[s], n)
  BY DEF On, Same
<1>3. CASE /\ ~On(th[t], n) /\ ~On(th'[t], n)
           /\ prs'[n] = prs[n] /\ cov'[n] = cov[n]
  <2>1. \A s \in Threads : On(th'[s], n) <=> On(th[s], n)
    BY <1>2, <1>3
  <2>2. \A s \in Threads : On(th'[s], n) => Same(th[s], th'[s])
    BY <1>3
  <2>. QED
    BY <1>1, <1>3, <2>1, <2>2 DEF Same, Fits
<1>4. CASE On(th[t], n) /\ On(th'[t], n) /\ Fits(th'[t], prs'[n], cov'[n])
  BY <1>1, <1>2, <1>4
<1>5. CASE On(th[t], n) /\ ~On(th'[t], n) /\ Good(prs'[n], cov'[n])
  BY <1>1, <1>2, <1>5
<1>6. CASE ~Busy(n) /\ On(th'[t], n) /\ Fits(th'[t], prs'[n], cov'[n])
  <2>1. \A s \in Threads : ~On(th[s], n)
    BY <1>6 DEF Busy, On
  <2>. QED
    BY <1>2, <1>6, <2>1
<1>. QED
  BY <1>3, <1>4, <1>5, <1>6

LEMMA RunningStays ==
  ASSUME Running, NEW t \in Threads, broken \subseteq broken',
         \A s \in Threads \ {t} : Same(th[s], th'[s]),
         \A r \in runs' : r.n \notin broken' /\ r.status = "running" =>
            \/ Handles(th'[t], r)
            \/ \E q \in runs : /\ q.id = r.id /\ q.n = r.n /\ q.status = "running"
                               /\ Handles(th[t], q) => Handles(th'[t], q)
  PROVE  Running'
<1>. SUFFICES ASSUME NEW r \in runs', r.n \notin broken', r.status = "running"
              PROVE  \E s \in Threads : Handles(th'[s], r)
  BY DEF Running
<1>1. CASE Handles(th'[t], r)
  BY <1>1
<1>2. ASSUME NEW q \in runs, q.id = r.id, q.n = r.n, q.status = "running",
             Handles(th[t], q) => Handles(th'[t], q)
      PROVE  \E s \in Threads : Handles(th'[s], r)
  <2>1. PICK s \in Threads : Handles(th[s], q)
    BY <1>2 DEF Running
  <2>2. Handles(th'[s], q)
    BY <1>2, <2>1 DEF Handles, Same
  <2>. QED
    BY <1>2, <2>2 DEF Handles
<1>. QED
  BY <1>1, <1>2

\* Steps that leave the rows alone.
LEMMA RowsStay ==
  ASSUME OneRun, Running, NEW t \in Threads, broken \subseteq broken', UNCHANGED runs,
         \A s \in Threads \ {t} : Same(th[s], th'[s]),
         \A r : Handles(th[t], r) /\ r.n \notin broken' => Handles(th'[t], r)
  PROVE  OneRun' /\ Running'
<1>1. OneRun'
  BY DEF OneRun
<1>2. \A r \in runs' : r.n \notin broken' /\ r.status = "running" =>
            \E q \in runs : /\ q.id = r.id /\ q.n = r.n /\ q.status = "running"
                            /\ Handles(th[t], q) => Handles(th'[t], q)
  OBVIOUS
<1>3. Running'
  BY <1>2, RunningStays
<1>. QED
  BY <1>1, <1>3

LEMMA UpdatingRows ==
  ASSUME TypeOK, OneRun, NEW id, NEW field \in {"fid", "status"}, NEW value,
         runs' = Updating(id, field, value)
  PROVE  /\ OneRun'
         /\ \A q \in runs' : \E r \in runs :
               /\ q.id = r.id /\ q.n = r.n
               /\ field = "fid" => q.status = r.status
               /\ r.id = id /\ field = "status" => q.status = value
               /\ r.id # id => q = r
<1>. DEFINE Put(r) == [r EXCEPT ![field] = value]
<1>1. \A r \in runs : /\ Put(r).id = r.id /\ Put(r).n = r.n
                      /\ field = "fid" => Put(r).status = r.status
                      /\ field = "status" => Put(r).status = value
  BY DEF TypeOK, Rows
<1>. HIDE DEF Put
<1>2. runs' = {IF r.id = id THEN Put(r) ELSE r : r \in runs}
  BY DEF Updating, Put
<1>3. \A q \in runs' : \E r \in runs : q = IF r.id = id THEN Put(r) ELSE r
  BY <1>2
<1>4. OneRun'
  BY <1>1, <1>3 DEF OneRun
<1>. QED
  BY <1>1, <1>3, <1>4

(* Which threads work on a pull request.                                   *)
LEMMA OffNumbers ==
  ASSUME NEW x \in {Idle} \union Syncing, NEW n \in Numbers
  PROVE  ~On(x, n) /\ \A r : ~Handles(x, r)
<1>1. x.pc = "idle" \/ (x.pc = "sync" /\ x.n = None)
  BY DEF Idle, Syncing
<1>. QED
  BY <1>1, SyncAssumption DEF On, Handles, Ingestion

LEMMA TurnsSettled ==
  ASSUME Typed, Settled, NEW t \in Threads, NEW pc \in Ingestion, NEW f \in Fids,
         NEW m \in BOOLEAN, th[t].pc \in Ingestion, Turns(t, pc, f, m), UNCHANGED broken,
         \A n \in Numbers \ {th[t].n} : prs'[n] = prs[n] /\ cov'[n] = cov[n],
         th[t].n \notin broken =>
            /\ pc \in {"create", "enrich", "resolve", "cover", "review"} => prs'[th[t].n].fid = f
            /\ pc = "resolve" => f = None
            /\ pc = "finish" => Good(prs'[th[t].n], cov'[th[t].n])
  PROVE  /\ Worked' /\ \A s \in Threads \ {t} : Same(th[s], th'[s])
         /\ \A r : Handles(th'[t], r) <=> /\ pc \in Ingestion \ {"upsert", "map", "create"}
                                          /\ th[t].n = r.n /\ th[t].run = r.id
<1>1. /\ th'[t].pc = pc /\ th'[t].n = th[t].n /\ th'[t].fid = f /\ th'[t].run = th[t].run
      /\ \A s \in Threads \ {t} : th'[s] = th[s]
  BY TurnsDoes DEF Typed
<1>2. th[t].n \in Numbers
  BY IngestIs DEF Typed
<1>3. \A s \in Threads \ {t} : Same(th[s], th'[s])
  BY <1>1 DEF Same
<1>4. \A n \in Numbers : (On(th[t], n) <=> n = th[t].n) /\ (On(th'[t], n) <=> n = th[t].n)
  BY <1>1 DEF On, Ingestion
<1>5. th[t].n \notin broken => Fits(th'[t], prs'[th[t].n], cov'[th[t].n])
  BY <1>1 DEF Fits
<1>6. Worked'
  BY <1>3, <1>4, <1>5, WorkedStays DEF Settled
<1>. QED
  BY <1>1, <1>3, <1>6 DEF Handles

LEMMA LeavesWorked ==
  ASSUME Typed, Settled, NEW t \in Threads, NEW y \in {Idle} \union Syncing,
         th' = [th EXCEPT ![t] = y], broken \subseteq broken', UNCHANGED prs,
         \A n \in Numbers \ broken' : cov'[n] = cov[n] \/ On(th[t], n),
         \A n \in Numbers \ broken' : On(th[t], n) => Good(prs[n], cov'[n])
  PROVE  Worked' /\ \A s \in Threads \ {t} : Same(th[s], th'[s])
<1>1. th'[t] = y /\ \A s \in Threads \ {t} : th'[s] = th[s]
  BY Moved DEF Typed, Doing
<1>2. \A s \in Threads \ {t} : Same(th[s], th'[s])
  BY <1>1 DEF Same
<1>3. \A n \in Numbers : ~On(th'[t], n)
  BY <1>1, OffNumbers
<1>. QED
  BY <1>2, <1>3, WorkedStays DEF Settled

LEMMA LeavesSettled ==
  ASSUME Typed, Settled, NEW t \in Threads, NEW y \in {Idle} \union Syncing,
         th' = [th EXCEPT ![t] = y], broken \subseteq broken', UNCHANGED <<prs, runs>>,
         \A n \in Numbers \ broken' : cov'[n] = cov[n] \/ On(th[t], n),
         \A n \in Numbers \ broken' : On(th[t], n) => Good(prs[n], cov'[n]),
         \A r : r.n \notin broken' => ~Handles(th[t], r)
  PROVE  Settled'
<1>1. Worked' /\ \A s \in Threads \ {t} : Same(th[s], th'[s])
  BY LeavesWorked
<1>. QED
  BY <1>1, RowsStay DEF Settled

LEMMA BeginsWorked ==
  ASSUME Typed, Settled, NEW t \in Threads, NEW n \in Numbers, NEW y \in Doing,
         y.pc = "upsert" /\ y.n = n, th[t] \in {Idle} \union Syncing,
         th' = [th EXCEPT ![t] = y], broken' = Meets(n), UNCHANGED <<prs, cov>>
  PROVE  /\ Worked' /\ broken \subseteq broken'
         /\ \A s \in Threads \ {t} : Same(th[s], th'[s])
         /\ \A r : ~Handles(th[t], r)
<1>1. th'[t] = y /\ \A s \in Threads \ {t} : th'[s] = th[s]
  BY Moved DEF Typed
<1>2. \A s \in Threads \ {t} : Same(th[s], th'[s])
  BY <1>1 DEF Same
<1>3. \A k \in Numbers : ~On(th[t], k) /\ (On(th'[t], k) <=> k = n)
  BY <1>1, OffNumbers DEF On
<1>4. broken \subseteq broken' /\ (n \notin broken' => ~Busy(n))
  BY DEF Meets
<1>5. \A d, c : Fits(th'[t], d, c)
  BY <1>1 DEF Fits
<1>6. Worked'
  BY <1>2, <1>3, <1>4, <1>5, WorkedStays DEF Settled
<1>. QED
  BY <1>2, <1>4, <1>6, OffNumbers

(* The steps of an ingestion that keep to its pull request.                *)
LEMMA UpsertSettled ==
  ASSUME Typed, Settled, NEW t \in Threads, Upsert(t)
  PROVE  Settled'
<1>1. /\ th[t].pc = "upsert" /\ Registered(t) /\ {"upsert", "map"} \subseteq Ingestion
      /\ \E f \in Fids, m \in BOOLEAN : Turns(t, "map", f, m)
  BY UpsertDoes DEF Typed, Ingestion
<1>2. PICK f \in Fids, m \in BOOLEAN : Turns(t, "map", f, m)
  BY <1>1
<1>3. UNCHANGED <<cov, runs, broken>> /\ th[t].n \in Numbers
  BY <1>1, IngestIs DEF Registered, Typed
<1>4. \A n \in Numbers \ {th[t].n} : prs'[n] = prs[n] /\ cov'[n] = cov[n]
  BY <1>1, <1>3 DEF Registered, Typed, TypeOK
<1>5. Worked' /\ \A s \in Threads \ {t} : Same(th[s], th'[s])
  BY <1>1, <1>2, <1>3, <1>4, TurnsSettled
<1>6. \A r : ~Handles(th[t], r)
  BY <1>1 DEF Handles
<1>. QED
  BY <1>3, <1>5, <1>6, RowsStay DEF Settled

LEMMA SetMappingSettled ==
  ASSUME Typed, Settled, NEW t \in Threads, SetMapping(t)
  PROVE  Settled'
<1>1. /\ th[t].pc = "map" /\ th'[t].pc = "create" /\ th'[t].n = th[t].n
      /\ th'[t].fid = th[t].fid
      /\ prs' = [prs EXCEPT ![th[t].n] = Mapped(prs[th[t].n], th[t].fid, th[t].manual)]
      /\ \A s \in Threads \ {t} : Alike(th[s], th'[s])
      /\ UNCHANGED <<runs, cov, broken>>
  BY SetMappingDoes DEF Typed
<1>2. th[t].n \in Numbers /\ prs[th[t].n] \in Documents
  BY <1>1, KnownIs DEF Typed, Ingestion
<1>3. \A s \in Threads \ {t} : Same(th[s], th'[s])
  BY <1>1, AlikeIs DEF Same
<1>4. /\ prs'[th[t].n].fid = th[t].fid
      /\ \A n \in Numbers \ {th[t].n} : prs'[n] = prs[n] /\ cov'[n] = cov[n]
  BY <1>1, <1>2 DEF Typed, TypeOK, Mapped, Documents
<1>5. Fits(th'[t], prs'[th[t].n], cov'[th[t].n])
  BY <1>1, <1>4 DEF Fits
<1>6. \A n \in Numbers : (On(th[t], n) <=> n = th[t].n) /\ (On(th'[t], n) <=> n = th[t].n)
  BY <1>1 DEF On
<1>7. Worked'
  BY <1>1, <1>3, <1>4, <1>5, <1>6, WorkedStays DEF Settled
<1>8. \A r : ~Handles(th[t], r)
  BY <1>1 DEF Handles
<1>. QED
  BY <1>1, <1>3, <1>7, <1>8, RowsStay DEF Settled

LEMMA CreateRunSettled ==
  ASSUME Typed, Settled, NEW t \in Threads, CreateRun(t)
  PROVE  Settled'
<1>1. /\ th[t].pc = "create" /\ th[t].pc \in Ingestion /\ "enrich" \in Ingestion
      /\ Turns(t, "enrich", th[t].fid, th[t].manual) /\ UNCHANGED <<prs, cov, broken>>
  BY CreateRunDoes DEF Typed, Ingestion
<1>2. PICK row \in Rows : /\ row.id = th[t].run /\ row.n = th[t].n /\ row.status = "running"
                          /\ runs' = RunReplaced(row)
  BY CreateRunDoes DEF Typed
<1>3. th[t].n \in Numbers /\ th[t].fid \in Fids /\ th[t].manual \in BOOLEAN
  BY <1>1, IngestIs DEF Typed
<1>4. th[t].n \notin broken => prs[th[t].n].fid = th[t].fid
  BY <1>1, <1>3 DEF Settled, Worked, On, Fits
<1>5. PICK m \in BOOLEAN : m = th[t].manual
  BY <1>3
<1>6. Turns(t, "enrich", th[t].fid, m)
  BY <1>1, <1>5
<1>7. /\ Worked' /\ \A s \in Threads \ {t} : Same(th[s], th'[s])
      /\ \A r : Handles(th'[t], r) <=> th[t].n = r.n /\ th[t].run = r.id
  <2>1. "enrich" \in Ingestion \ {"upsert", "map", "create"}
    BY DEF Ingestion
  <2>2. /\ Worked' /\ \A s \in Threads \ {t} : Same(th[s], th'[s])
        /\ \A r : Handles(th'[t], r) <=> /\ "enrich" \in Ingestion \ {"upsert", "map", "create"}
                                         /\ th[t].n = r.n /\ th[t].run = r.id
    BY <1>1, <1>3, <1>4, <1>6, TurnsSettled
  <2>. QED
    BY <2>1, <2>2
<1>8. OneRun'
  BY <1>2 DEF Settled, OneRun, RunReplaced
<1>9. \A r : ~Handles(th[t], r)
  BY <1>1 DEF Handles
<1>10. Running'
  <2>1. \A r \in runs' : r = row \/ r \in runs
    BY <1>2 DEF RunReplaced
  <2>2. Handles(th'[t], row)
    BY <1>2, <1>7
  <2>3. \A r \in runs' : r.n \notin broken' /\ r.status = "running" =>
            \/ Handles(th'[t], r)
            \/ \E q \in runs : /\ q.id = r.id /\ q.n = r.n /\ q.status = "running"
                               /\ Handles(th[t], q) => Handles(th'[t], q)
    BY <1>9, <2>1, <2>2
  <2>. QED
    BY <1>1, <1>7, <2>3, RunningStays DEF Settled
<1>. QED
  BY <1>7, <1>8, <1>10 DEF Settled

\* The steps after it, which keep the run.
LEMMA KeepsSettled ==
  ASSUME Typed, Settled, NEW t \in Threads, NEW pc \in Ingestion \ {"upsert", "map", "create"},
         NEW f \in Fids, th[t].pc \in Ingestion, Turns(t, pc, f, th[t].manual), UNCHANGED broken,
         \A n \in Numbers \ {th[t].n} : prs'[n] = prs[n] /\ cov'[n] = cov[n],
         th[t].n \notin broken =>
            /\ pc \in {"create", "enrich", "resolve", "cover", "review"} => prs'[th[t].n].fid = f
            /\ pc = "resolve" => f = None
            /\ pc = "finish" => Good(prs'[th[t].n], cov'[th[t].n]),
         \/ UNCHANGED runs
         \/ runs' = Updating(th[t].run, "fid", f)
  PROVE  Settled'
<1>1. th[t].manual \in BOOLEAN
  BY IngestIs DEF Typed
<1>2. PICK m \in BOOLEAN : m = th[t].manual
  BY <1>1
<1>3. Turns(t, pc, f, m)
  BY <1>2
<1>4. /\ Worked' /\ \A s \in Threads \ {t} : Same(th[s], th'[s])
      /\ \A r : Handles(th'[t], r) <=> th[t].n = r.n /\ th[t].run = r.id
  BY <1>3, TurnsSettled
<1>5. \A r : Handles(th[t], r) => Handles(th'[t], r)
  BY <1>4 DEF Handles
<1>6. CASE UNCHANGED runs
  BY <1>4, <1>5, <1>6, RowsStay DEF Settled
<1>7. CASE runs' = Updating(th[t].run, "fid", f)
  <2>1. /\ OneRun'
        /\ \A q \in runs' : \E r \in runs : q.id = r.id /\ q.n = r.n /\ q.status = r.status
    BY <1>7, UpdatingRows DEF Settled, Typed
  <2>2. \A q \in runs' : q.n \notin broken' /\ q.status = "running" =>
            \E r \in runs : /\ r.id = q.id /\ r.n = q.n /\ r.status = "running"
                            /\ Handles(th[t], r) => Handles(th'[t], r)
    BY <1>5, <2>1
  <2>3. Running'
    BY <1>4, <2>2, RunningStays DEF Settled
  <2>. QED
    BY <1>4, <2>1, <2>3 DEF Settled
<1>. QED
  BY <1>6, <1>7

LEMMA ProgressSettled ==
  ASSUME Typed, Settled, NEW t \in Threads,
         Enrich(t) \/ Resolve(t) \/ Remap(t) \/ Cover(t)
  PROVE  Settled'
<1>1. th[t].pc \in {"enrich", "resolve", "remap", "cover"}
  BY EnrichDoes, ResolveDoes, RemapDoes, CoverDoes DEF Typed
<1>2. /\ th[t].pc \in Ingestion \ {"upsert"}
      /\ {"resolve", "remap", "cover", "finish"} \subseteq Ingestion \ {"upsert", "map", "create"}
  BY <1>1 DEF Ingestion
<1>3. th[t].n \in Numbers /\ th[t].fid \in Fids /\ prs[th[t].n] \in Documents
  BY <1>2, KnownIs, IngestIs DEF Typed
<1>4. th[t].n \notin broken => Fits(th[t], prs[th[t].n], cov[th[t].n])
  BY <1>1, <1>3 DEF Settled, Worked, On
<1>5. \A d : prs' = [prs EXCEPT ![th[t].n] = d] =>
            prs'[th[t].n] = d /\ \A n \in Numbers \ {th[t].n} : prs'[n] = prs[n]
  BY <1>3 DEF Typed, TypeOK
<1>6. CASE Enrich(t)
  <2>1. PICK pc : pc = IF th[t].fid # None THEN "cover" ELSE "resolve"
    OBVIOUS
  <2>2. /\ Turns(t, pc, th[t].fid, th[t].manual) /\ th[t].pc = "enrich"
        /\ UNCHANGED <<runs, cov, broken>>
        /\ prs' = [prs EXCEPT ![th[t].n] = [prs[th[t].n] EXCEPT !.upd = th[t].upd]]
    BY <1>6, <2>1, EnrichDoes DEF Typed
  <2>3. /\ prs'[th[t].n].fid = prs[th[t].n].fid
        /\ \A n \in Numbers \ {th[t].n} : prs'[n] = prs[n] /\ cov'[n] = cov[n]
    BY <1>3, <1>5, <2>2 DEF Documents
  <2>4. th[t].n \notin broken => prs'[th[t].n].fid = th[t].fid
    BY <1>4, <2>2, <2>3 DEF Fits
  <2>5. pc \in Ingestion \ {"upsert", "map", "create"} /\ pc # "finish"
        /\ (pc = "resolve" => th[t].fid = None)
    BY <1>2, <2>1
  <2>. QED
    BY <1>2, <1>3, <2>2, <2>3, <2>4, <2>5, KeepsSettled
<1>7. CASE Resolve(t)
  <2>1. PICK f \in Fids : Turns(t, IF f = None THEN "finish" ELSE "remap", f, th[t].manual)
    BY <1>7, ResolveDoes DEF Typed
  <2>2. PICK pc : pc = IF f = None THEN "finish" ELSE "remap"
    OBVIOUS
  <2>3. Turns(t, pc, f, th[t].manual) /\ th[t].pc = "resolve" /\ UNCHANGED <<runs, cov, broken>>
    BY <1>7, <2>1, <2>2, ResolveDoes DEF Typed
  <2>4. PICK g \in Fids : prs' = [prs EXCEPT ![th[t].n] = [prs[th[t].n] EXCEPT !.sug = g]]
    BY <1>7, ResolveDoes DEF Typed
  <2>5. /\ prs'[th[t].n].fid = prs[th[t].n].fid
        /\ \A n \in Numbers \ {th[t].n} : prs'[n] = prs[n] /\ cov'[n] = cov[n]
    BY <1>3, <1>5, <2>3, <2>4 DEF Documents
  <2>6. th[t].n \notin broken => prs'[th[t].n].fid = None
    BY <1>4, <2>3, <2>5 DEF Fits
  <2>7. None \notin WithCases
    BY SyncAssumption
  <2>8. th[t].n \notin broken => Good(prs'[th[t].n], cov'[th[t].n])
    BY <2>6, <2>7 DEF Good
  <2>9. pc \in Ingestion \ {"upsert", "map", "create"} /\ pc \in {"finish", "remap"}
    BY <1>2, <2>2
  <2>. QED
    BY <1>2, <2>3, <2>5, <2>8, <2>9, KeepsSettled
<1>8. CASE Remap(t)
  <2>1. /\ Turns(t, "cover", th[t].fid, th[t].manual)
        /\ prs' = [prs EXCEPT ![th[t].n] = Mapped(prs[th[t].n], th[t].fid, FALSE)]
        /\ runs' = Updating(th[t].run, "fid", th[t].fid) /\ UNCHANGED <<cov, broken>>
    BY <1>8, RemapDoes DEF Typed
  <2>2. /\ prs'[th[t].n].fid = th[t].fid
        /\ \A n \in Numbers \ {th[t].n} : prs'[n] = prs[n] /\ cov'[n] = cov[n]
    BY <1>3, <1>5, <2>1, ZenonT(30) DEF Documents, Mapped
  <2>. QED
    BY <1>2, <1>3, <2>1, <2>2, KeepsSettled
<1>9. CASE Cover(t)
  <2>1. /\ Turns(t, "finish", th[t].fid, th[t].manual) /\ th[t].pc = "cover"
        /\ cov' = IF th[t].fid \in WithCases THEN [cov EXCEPT ![th[t].n] = th[t].fid] ELSE cov
        /\ UNCHANGED <<prs, runs, broken>>
    BY <1>9, CoverDoes DEF Typed
  <2>2. /\ \A n \in Numbers \ {th[t].n} : prs'[n] = prs[n] /\ cov'[n] = cov[n]
        /\ th[t].fid \in WithCases => cov'[th[t].n] = th[t].fid
    BY <1>3, <2>1 DEF Typed, TypeOK
  <2>3. th[t].n \notin broken => prs'[th[t].n].fid = th[t].fid
    BY <1>4, <2>1 DEF Fits
  <2>4. th[t].n \notin broken => Good(prs'[th[t].n], cov'[th[t].n])
    BY <2>2, <2>3 DEF Good
  <2>. QED
    BY <1>2, <1>3, <2>1, <2>2, <2>4, KeepsSettled
<1>. QED
  BY <1>6, <1>7, <1>8, <1>9

(* The steps with which a thread leaves its pull request.                  *)
LEMMA EndSettled ==
  ASSUME Typed, Settled, NEW t \in Threads, Finish(t) \/ ReviewFails(t)
  PROVE  Settled'
<1>1. PICK y : y = Back(th[t])
  OBVIOUS
<1>2. /\ th[t] \in Ingests /\ th' = [th EXCEPT ![t] = y] /\ UNCHANGED <<prs, cov>>
      /\ \/ th[t].pc = "finish" /\ UNCHANGED broken
         \/ th[t].pc = "cover" /\ broken' = broken \union {th[t].n}
  BY <1>1, EndRunDoes DEF Typed
<1>3. y \in {Idle} \union Syncing /\ broken \subseteq broken'
  BY <1>1, <1>2, BackIs
<1>4. \A n \in Numbers \ broken' : On(th[t], n) => Good(prs[n], cov'[n])
  BY <1>2 DEF On, Settled, Worked, Fits
<1>5. Worked' /\ \A s \in Threads \ {t} : Same(th[s], th'[s])
  BY <1>2, <1>3, <1>4, LeavesWorked
<1>6. PICK status \in {"done", "failed"} : runs' = Updating(th[t].run, "status", status)
  BY EndRunDoes DEF Typed
<1>7. /\ OneRun'
      /\ \A q \in runs' : \E r \in runs :
            /\ r.id = th[t].run => q.status = status
            /\ r.id # th[t].run => q = r
  BY <1>6, UpdatingRows DEF Settled, Typed
<1>8. \A q \in runs' : q.status = "running" => q \in runs /\ q.id # th[t].run
  BY <1>7
<1>9. \A q \in runs' : q.status = "running" => ~Handles(th[t], q)
  BY <1>8 DEF Handles
<1>10. Running'
  <2>1. \A q \in runs' : q.n \notin broken' /\ q.status = "running" =>
            \E r \in runs : /\ r.id = q.id /\ r.n = q.n /\ r.status = "running"
                            /\ Handles(th[t], r) => Handles(th'[t], r)
    BY <1>8, <1>9
  <2>. QED
    BY <1>3, <1>5, <2>1, RunningStays DEF Settled
<1>. QED
  BY <1>5, <1>7, <1>10 DEF Settled

LEMMA FailsSettled ==
  ASSUME Typed, Settled, NEW t \in Threads, IngestFails(t)
  PROVE  Settled'
<1>1. /\ th[t] \in Ingests /\ broken' = broken \union {th[t].n} /\ UNCHANGED <<prs, runs, cov>>
      /\ (th' = [th EXCEPT ![t] = Idle] \/ th' = [th EXCEPT ![t] = Back(th[t])])
  BY IngestFailsDoes DEF Typed
<1>2. PICK y \in {Idle} \union Syncing : th' = [th EXCEPT ![t] = y]
  <2>1. Back(th[t]) \in {Idle} \union Syncing
    BY <1>1, BackIs
  <2>. QED
    BY <1>1, <2>1
<1>3. \A n \in Numbers \ broken' : ~On(th[t], n)
  BY <1>1 DEF On
<1>4. \A r : r.n \notin broken' => ~Handles(th[t], r)
  BY <1>1 DEF Handles
<1>. QED
  BY <1>1, <1>2, <1>3, <1>4, LeavesSettled

LEMMA ReviewSettled ==
  ASSUME Typed, Settled, NEW t \in Threads, Review(t)
  PROVE  Settled'
<1>1. /\ th[t].pc = "review" /\ th[t].n \in Numbers /\ th' = [th EXCEPT ![t] = Idle]
      /\ \/ cov' = [cov EXCEPT ![th[t].n] = th[t].fid] /\ UNCHANGED broken
         \/ UNCHANGED cov /\ broken' = broken \union {th[t].n}
      /\ UNCHANGED <<prs, runs>>
  BY ReviewDoes DEF Typed
<1>2. \A n \in Numbers : On(th[t], n) <=> n = th[t].n
  BY <1>1 DEF On
<1>3. \A n \in Numbers \ broken' : cov'[n] = cov[n] \/ On(th[t], n)
  BY <1>1, <1>2 DEF Typed, TypeOK
<1>4. th[t].n \notin broken' => Good(prs[th[t].n], cov'[th[t].n])
  <2>1. SUFFICES ASSUME th[t].n \notin broken'
                 PROVE  Good(prs[th[t].n], cov'[th[t].n])
    OBVIOUS
  <2>2. prs[th[t].n].fid = th[t].fid
    BY <1>1, <1>2, <2>1 DEF Settled, Worked, Fits
  <2>3. cov'[th[t].n] = th[t].fid
    BY <1>1, <2>1 DEF Typed, TypeOK
  <2>. QED
    BY <2>2, <2>3 DEF Good
<1>5. \A r : ~Handles(th[t], r)
  BY <1>1 DEF Handles, Ingestion
<1>. QED
  BY <1>1, <1>2, <1>3, <1>4, <1>5, LeavesSettled

LEMMA IdleIs ==
  ASSUME Typed, NEW t \in Threads, th[t].pc \in {"idle", "sync"}
  PROVE  /\ th[t] \in {Idle} \union Syncing /\ \A n \in Numbers : ~On(th[t], n)
         /\ \A r : ~Handles(th[t], r)
<1>1. th[t] \in {Idle} \union Syncing
  BY Doings DEF Typed
<1>. QED
  BY <1>1, OffNumbers, SyncAssumption DEF Handles, Ingestion

(* Syncs, and the steps with which a thread takes a pull request.          *)
LEMMA SyncSettled ==
  ASSUME Typed, Settled, NEW t \in Threads, StartSync(t) \/ SyncRefused(t) \/ SyncDone(t)
  PROVE  Settled'
<1>1. PICK y \in {Idle} \union Syncing : th' = [th EXCEPT ![t] = y]
  BY StartSyncDoes, IdleDoes DEF Typed
<1>2. th[t].pc \in {"idle", "sync"} /\ UNCHANGED <<prs, runs, cov, broken>>
  BY StartSyncDoes, IdleDoes DEF Typed, Syncing
<1>3. (\A n \in Numbers : ~On(th[t], n)) /\ \A r : ~Handles(th[t], r)
  BY <1>2, IdleIs
<1>. QED
  BY <1>1, <1>2, <1>3, LeavesSettled

LEMMA TakesSettled ==
  ASSUME Typed, Settled, NEW t \in Threads, NEW n \in Numbers, NEW u \in 1 .. MaxTime,
         NEW pin \in Picked \union {None},
         SyncNext(t) \/ Event(t, n, u) \/ ManualRun(t, n, pin)
  PROVE  Settled'
<1>1. \E k \in Numbers, y \in Doing : /\ y.pc = "upsert" /\ y.n = k
                                      /\ th' = [th EXCEPT ![t] = y] /\ broken' = Meets(k)
  <2>1. CASE SyncNext(t)
    <3>1. PICK S \in Syncing, k \in Numbers, v \in 1 .. MaxTime :
             /\ th' = [th EXCEPT ![t] = [Ingesting(t, k, v, None) EXCEPT !.after = <<S>>]]
             /\ [Ingesting(t, k, v, None) EXCEPT !.after = <<S>>] \in Ingests
             /\ broken' = Meets(k)
      BY <2>1, SyncNextDoes DEF Typed
    <3>2. PICK y : y = [Ingesting(t, k, v, None) EXCEPT !.after = <<S>>]
      OBVIOUS
    <3>3. y.pc = "upsert" /\ y.n = k /\ y \in Doing
      BY <3>1, <3>2 DEF Ingesting, Doing
    <3>. QED
      BY <3>1, <3>2, <3>3
  <2>2. CASE Event(t, n, u) \/ ManualRun(t, n, pin)
    <3>1. PICK v \in 1 .. MaxTime, p \in Fids :
             /\ th' = [th EXCEPT ![t] = Ingesting(t, n, v, p)]
             /\ Ingesting(t, n, v, p) \in Ingests
      BY <2>2, BeginsDoes DEF Typed
    <3>2. PICK y : y = Ingesting(t, n, v, p)
      OBVIOUS
    <3>3. y.pc = "upsert" /\ y.n = n /\ y \in Doing
      BY <3>1, <3>2 DEF Ingesting, Doing
    <3>4. broken' = Meets(n)
      BY <2>2, BeginsDoes DEF Typed
    <3>. QED
      BY <3>1, <3>2, <3>3, <3>4
  <2>. QED
    BY <2>1, <2>2
<1>2. th[t].pc \in {"idle", "sync"} /\ UNCHANGED <<prs, runs, cov>>
  BY SyncNextDoes, BeginsDoes DEF Typed, Syncing
<1>3. /\ Worked' /\ broken \subseteq broken'
      /\ \A s \in Threads \ {t} : Same(th[s], th'[s])
      /\ \A r : ~Handles(th[t], r)
  BY <1>1, <1>2, IdleIs, BeginsWorked
<1>. QED
  BY <1>2, <1>3, RowsStay DEF Settled

LEMMA ReassignSettled ==
  ASSUME Typed, Settled, NEW t \in Threads, NEW r \in runs, NEW f \in Picked, Reassign(t, r, f)
  PROVE  Settled'
<1>1. /\ th[t].pc = "idle" /\ r.n \in Numbers /\ UNCHANGED <<prs, cov>>
      /\ runs' = Updating(r.id, "fid", f)
  BY ReassignDoes DEF Typed
<1>2. /\ th[t] \in {Idle} \union Syncing /\ \A n \in Numbers : ~On(th[t], n)
      /\ \A q : ~Handles(th[t], q)
  BY <1>1, IdleIs
<1>3. Worked' /\ broken \subseteq broken' /\ \A s \in Threads \ {t} : Same(th[s], th'[s])
  <2>1. CASE th' = [th EXCEPT ![t] = Idle] /\ broken' = broken \union {r.n}
    BY <1>1, <1>2, <2>1, LeavesWorked
  <2>2. ASSUME NEW v \in 1 .. MaxTime, NEW p \in Fids,
               th' = [th EXCEPT ![t] = Ingesting(t, r.n, v, p)],
               Ingesting(t, r.n, v, p) \in Ingests, broken' = Meets(r.n)
        PROVE  Worked' /\ broken \subseteq broken' /\ \A s \in Threads \ {t} : Same(th[s], th'[s])
    <3>1. PICK y : y = Ingesting(t, r.n, v, p)
      OBVIOUS
    <3>2. y.pc = "upsert" /\ y.n = r.n /\ y \in Doing
      BY <2>2, <3>1 DEF Ingesting, Doing
    <3>. QED
      BY <1>1, <1>2, <2>2, <3>1, <3>2, BeginsWorked
  <2>. QED
    BY <2>1, <2>2, ReassignDoes DEF Typed
<1>4. /\ OneRun'
      /\ \A q \in runs' : \E p \in runs : q.id = p.id /\ q.n = p.n /\ q.status = p.status
  BY <1>1, UpdatingRows DEF Settled, Typed
<1>5. Running'
  <2>1. \A q \in runs' : q.n \notin broken' /\ q.status = "running" =>
            \E p \in runs : /\ p.id = q.id /\ p.n = q.n /\ p.status = "running"
                            /\ Handles(th[t], p) => Handles(th'[t], p)
    BY <1>2, <1>4
  <2>. QED
    BY <1>3, <2>1, RunningStays DEF Settled
<1>. QED
  BY <1>3, <1>4, <1>5 DEF Settled

LEMMA AssignPrSettled ==
  ASSUME Typed, Settled, NEW t \in Threads, NEW n \in Numbers, NEW f \in Picked, AssignPr(t, n, f)
  PROVE  Settled'
<1>1. /\ th[t].pc = "idle" /\ prs[n] \in Documents /\ UNCHANGED <<runs, cov>>
      /\ prs' = [prs EXCEPT ![n] = Mapped(prs[n], f, TRUE)]
      /\ \A s \in Threads \ {t} : Alike(th[s], th'[s])
      /\ \/ th'[t] = Idle /\ broken' = broken \union {n}
         \/ th'[t] = [pc |-> "review", n |-> n, fid |-> f] /\ broken' = Meets(n)
  BY AssignPrDoes, ZenonT(30) DEF Typed
<1>2. (\A k \in Numbers : ~On(th[t], k)) /\ \A r : ~Handles(th[t], r)
  BY <1>1, IdleIs
<1>3. \A s \in Threads \ {t} : Same(th[s], th'[s])
  BY <1>1, AlikeIs DEF Same
<1>4. prs'[n].fid = f /\ \A k \in Numbers \ {n} : prs'[k] = prs[k]
  BY <1>1 DEF Typed, TypeOK, Mapped, Documents
<1>5. broken \subseteq broken'
  BY <1>1 DEF Meets
<1>6. \A k \in Numbers \ broken' :
         \/ ~On(th'[t], k) /\ k # n
         \/ ~Busy(k) /\ On(th'[t], k) /\ Fits(th'[t], prs'[k], cov'[k])
  <2>1. CASE th'[t] = Idle /\ broken' = broken \union {n}
    BY <2>1, OffNumbers
  <2>2. CASE th'[t] = [pc |-> "review", n |-> n, fid |-> f] /\ broken' = Meets(n)
    <3>1. n \notin broken' => ~Busy(n)
      BY <2>2 DEF Meets
    <3>2. \A k : On(th'[t], k) <=> k = n
      BY <2>2 DEF On
    <3>3. Fits(th'[t], prs'[n], cov'[n])
      BY <1>4, <2>2 DEF Fits
    <3>. QED
      BY <3>1, <3>2, <3>3
  <2>. QED
    BY <1>1, <2>1, <2>2
<1>7. Worked'
  BY <1>1, <1>2, <1>3, <1>4, <1>5, <1>6, WorkedStays DEF Settled
<1>. QED
  BY <1>1, <1>2, <1>3, <1>5, <1>7, RowsStay DEF Settled

LEMMA SettledStep ==
  ASSUME Typed, Settled, [Next]_vars
  PROVE  Settled'
<1>1. UNCHANGED <<prs, runs, cov, th, broken>> => Settled'
  BY DEF Settled, Worked, OneRun, Running
<1>2. (UNCHANGED vars) \/ Environment => Settled'
  BY <1>1, StutterKeeps, OutsideDoes, PushDoes DEF Typed, Environment
<1>3. \A t \in Threads : Requests(t) => Settled'
  <2>1. 1 \in 1 .. MaxTime
    BY SyncAssumption
  <2>2. \A t \in Threads, n \in Numbers, u \in 1 .. MaxTime : Event(t, n, u) => Settled'
    BY TakesSettled
  <2>3. \A t \in Threads, n \in Numbers, pin \in Picked \union {None} :
           ManualRun(t, n, pin) => Settled'
    BY <2>1, TakesSettled
  <2>. QED
    BY <2>2, <2>3, SyncSettled, AssignPrSettled, ReassignSettled DEF Requests
<1>4. \A t \in Threads : SyncNext(t) => Settled'
  <2>1. SUFFICES ASSUME NEW t \in Threads, SyncNext(t) PROVE Settled'
    OBVIOUS
  <2>2. PICK n \in Numbers, u \in 1 .. MaxTime : <<n, u>> = Head(th[t].todo)
    BY <2>1, SyncNextDoes DEF Typed
  <2>. QED
    BY <2>1, <2>2, TakesSettled
<1>5. \A t \in Threads : Steps(t) => Settled'
  BY <1>4, SyncSettled, UpsertSettled, SetMappingSettled, CreateRunSettled, ProgressSettled,
     EndSettled, FailsSettled, ReviewSettled DEF Steps
<1>. QED
  BY <1>2, <1>3, <1>5 DEF Next

-----------------------------------------------------------------------------
(* The inductive invariant *)

IInv == Typed /\ Watermark /\ Manual /\ Settled

LEMMA InitIInv == Init => IInv
<1>. SUFFICES ASSUME Init PROVE IInv
  OBVIOUS
<1>1. /\ clock = 1 /\ upstream = {} /\ last = 0 /\ prs = [n \in Numbers |-> None]
      /\ runs = {} /\ cov = [n \in Numbers |-> None] /\ migrating = FALSE
      /\ th = [t \in Threads |-> Idle] /\ work = 0 /\ listed = 0
      /\ seen = [n \in Numbers |-> 0] /\ excused = {} /\ broken = {}
  BY DEF Init
<1>2. \A t \in Threads : th[t] = Idle /\ th[t].pc = "idle"
  BY <1>1 DEF Idle
<1>3. 0 \in 0 .. MaxTime /\ 1 \in 1 .. MaxTime /\ 0 \in 0 .. MaxWork /\ None \in Fids
  BY SyncAssumption DEF Fids
<1>4. TypeOK
  BY <1>1, <1>3 DEF TypeOK
<1>5. Typed
  BY <1>2, <1>4 DEF Typed, Known, Ingestion
<1>6. Watermark
  <2>1. \A t \in Threads : \A S : ~Carries(th[t], S)
    BY <1>2 DEF Carries, Ingestion
  <2>. QED
    BY <1>1, <2>1 DEF Watermark, Clocked, Syncs, WatermarkCovers
<1>7. Manual
  BY <1>1, <1>2, MappingIs DEF Manual, Decided, Assigned
<1>8. Settled
  <2>1. \A n \in Numbers : Good(prs[n], cov[n])
    BY <1>1 DEF Good
  <2>2. \A t \in Threads, n \in Numbers : ~On(th[t], n)
    BY <1>2 DEF On
  <2>. QED
    BY <1>1, <2>1, <2>2 DEF Settled, Worked, OneRun, Running
<1>. QED
  BY <1>5, <1>6, <1>7, <1>8 DEF IInv

LEMMA StepIInv == IInv /\ [Next]_vars => IInv'
<1>. SUFFICES ASSUME IInv, [Next]_vars PROVE IInv'
  OBVIOUS
<1>1. Typed'
  BY TypedStep DEF IInv
<1>2. Watermark'
  BY <1>1, WatermarkStep DEF IInv, Typed
<1>3. Manual'
  BY <1>1, ManualStep DEF IInv
<1>4. Settled'
  BY SettledStep DEF IInv
<1>. QED
  BY <1>1, <1>2, <1>3, <1>4 DEF IInv

LEMMA SpecIInv == Spec => []IInv
BY InitIInv, StepIInv, PTL DEF Spec

-----------------------------------------------------------------------------
(* The theorems *)

(* The repository, its pull requests and the threads that work on them are *)
(* well formed in every state.                                             *)
THEOREM TypeCorrect == Spec => []TypeOK
<1>1. IInv => TypeOK
  BY DEF IInv, Typed
<1>. QED
  BY <1>1, SpecIInv, PTL

(* However syncs, events, assignments and migrations interleave, no update *)
(* that the watermark has passed is missing from the store, but for those  *)
(* that are excused.                                                       *)
THEOREM WatermarkSound == Spec => []WatermarkCovers
<1>1. IInv => WatermarkCovers
  BY DEF IInv, Watermark
<1>. QED
  BY <1>1, SpecIInv, PTL

(* An automatic mapping replaces a manual assignment only by the step of   *)
(* an ingestion that had decided before it was written.                    *)
THEOREM AssignmentKept == Spec => ManualKept
<1>. DEFINE Kept == \A n \in Numbers :
               prs[n] # None /\ prs[n].manual /\ ~prs'[n].manual
               => \E t \in Threads : /\ th[t].pc \in {"map", "remap"} /\ th[t].n = n /\ th[t].late
                                    /\ th'[t] # th[t]
<1>1. IInv /\ IInv' /\ [Next]_vars => [Kept]_vars
  <2>. SUFFICES ASSUME IInv, IInv', [Next]_vars PROVE Kept
    OBVIOUS
  <2>. QED
    BY ManualStep DEF IInv
<1>2. Spec => [][Kept]_vars
  <2>. HIDE DEF Kept
  <2>. QED
    BY <1>1, SpecIInv, PTL DEF Spec
<1>. QED
  BY <1>2 DEF ManualKept

(* A pull request on which one thread at a time worked, and none gave up,  *)
(* is left reviewed for the feature it is mapped to, with at most one run, *)
(* which has ended.                                                        *)
THEOREM LeftAtRest == Spec => []AtRest
<1>1. IInv => AtRest
  <2>. SUFFICES ASSUME IInv, NEW n \in Numbers, ~Busy(n), n \notin broken, prs[n] # None
                PROVE  LET mine == {r \in runs : r.n = n} IN
                       /\ prs[n].fid \in WithCases => cov[n] = prs[n].fid
                       /\ Cardinality(mine) <= 1
                       /\ \A r \in mine : r.status # "running"
    BY DEF AtRest
  <2>. DEFINE mine == {r \in runs : r.n = n}
  <2>1. \A t \in Threads : ~On(th[t], n) /\ \A r \in mine : ~Handles(th[t], r)
    BY DEF Busy, On, Handles, Ingestion
  <2>2. prs[n].fid \in WithCases => cov[n] = prs[n].fid
    BY <2>1 DEF IInv, Settled, Worked, Good
  <2>3. \A r \in mine : r.status # "running"
    BY <2>1 DEF IInv, Settled, Running
  <2>4. Cardinality(mine) <= 1
    <3>1. \A q, r \in mine : q = r
      BY DEF IInv, Settled, OneRun
    <3>. HIDE DEF mine
    <3>2. CASE mine = {}
      BY <3>2, FS_EmptySet
    <3>3. CASE mine # {}
      <4>1. PICK r : mine = {r}
        BY <3>1, <3>3
      <4>2. Cardinality({r}) = 1
        BY FS_Singleton
      <4>. QED
        BY <4>1, <4>2
    <3>. QED
      BY <3>2, <3>3
  <2>. QED
    BY <2>2, <2>3, <2>4
<1>. QED
  BY <1>1, SpecIInv, PTL

-----------------------------------------------------------------------------
(* What similarity suggests *)

(* Chunks in the order of their likeness to a pull request.                *)
Sorted(c) ==
    /\ c \in Seq([feature : DOMAIN Features \union Deleted, score : Nat])
    /\ \A i, j \in DOMAIN c : i <= j => c[j].score <= c[i].score

LEMMA SortedIs ==
  ASSUME NEW c, Sorted(c)
  PROVE  /\ Len(c) \in Nat /\ DOMAIN c = 1 .. Len(c) /\ IsFiniteSet(DOMAIN c)
         /\ \A i \in DOMAIN c : c[i].score \in Nat /\ c[i].feature \in DOMAIN Features \union Deleted
<1>1. Len(c) \in Nat /\ DOMAIN c = 1 .. Len(c)
  BY DEF Sorted
<1>2. IsFiniteSet(1 .. Len(c))
  BY <1>1, FS_Interval
<1>3. \A i \in DOMAIN c : c[i] \in [feature : DOMAIN Features \union Deleted, score : Nat]
  <2>. DEFINE Chunk == [feature : DOMAIN Features \union Deleted, score : Nat]
  <2>1. c \in Seq(Chunk)
    BY DEF Sorted
  <2>. HIDE DEF Chunk
  <2>2. \A i \in DOMAIN c : c[i] \in Chunk
    BY <2>1
  <2>. QED
    BY <2>2 DEF Chunk
<1>. QED
  BY <1>1, <1>2, <1>3

(* The greatest of a set of numbers.                                       *)
LEMMA GreatestIs ==
  ASSUME NEW S \in SUBSET Nat, NEW m \in S, \A y \in S : y <= m
  PROVE  Max(S) = m
<1>1. \A y \in S : m >= y
  OBVIOUS
<1>2. \A x \in S : (\A y \in S : x >= y) => x = m
  OBVIOUS
<1>. QED
  BY <1>1, <1>2 DEF Max

LEMMA GreatestOf ==
  ASSUME NEW S \in SUBSET Nat, IsFiniteSet(S), S # {}
  PROVE  Max(S) \in S /\ \A y \in S : y <= Max(S)
<1>. DEFINE v == [y \in S |-> y]
<1>1. \A x \in S : v[x] \in Nat
  OBVIOUS
<1>2. PICK x \in S : \A y \in S : v[y] <= v[x]
  <2>. HIDE DEF v
  <2>. QED
    BY <1>1, Greatest, Zenon
<1>3. \A y \in S : y <= x
  BY <1>2
<1>4. Max(S) = x
  BY <1>3, GreatestIs
<1>. QED
  BY <1>3, <1>4

(* The values of a function on a finite set are finitely many.             *)
LEMMA ValuesAreFinite ==
  ASSUME NEW S, IsFiniteSet(S), NEW v, v = [x \in S |-> v[x]]
  PROVE  IsFiniteSet({v[x] : x \in S})
<1>. DEFINE T == {v[x] : x \in S}
<1>1. v \in [S -> T] /\ \A y \in T : \E x \in S : v[x] = y
  OBVIOUS
<1>2. v \in Surjection(S, T)
  BY <1>1, Zenon DEF Surjection
<1>. QED
  BY <1>2, FS_Surjection

(* A page holds nothing that is excluded, and whatever else is not on it   *)
(* comes after all of it.                                                  *)
LEMMA NearestIs ==
  ASSUME NEW c, Sorted(c), NEW exclude
  PROVE  LET page == Nearest(c, exclude)
         IN  /\ page \subseteq DOMAIN c /\ IsFiniteSet(page)
             /\ \A i \in page : c[i].feature \notin exclude
             /\ \A j \in DOMAIN c \ page : c[j].feature \notin exclude =>
                   /\ page # {}
                   /\ \A i \in page : c[j].score <= c[i].score
<1>. DEFINE rest == {i \in DOMAIN c : c[i].feature \notin exclude}
            before(i) == {j \in rest : j < i}
            page == {i \in rest : Cardinality(before(i)) < PageLen}
<1>1. /\ page \subseteq rest /\ rest \subseteq DOMAIN c /\ page = Nearest(c, exclude)
      /\ rest \subseteq Nat /\ IsFiniteSet(rest)
  <2>1. rest \subseteq DOMAIN c
    OBVIOUS
  <2>2. IsFiniteSet(rest) /\ rest \subseteq Nat
    BY <2>1, SortedIs, FS_Subset
  <2>. QED
    BY <2>1, <2>2 DEF Nearest
<1>2. \A i \in rest : IsFiniteSet(before(i)) /\ Cardinality(before(i)) \in Nat
  <2>1. \A i \in rest : before(i) \subseteq rest
    OBVIOUS
  <2>. QED
    BY <1>1, <2>1, FS_Subset, FS_CardinalityType
<1>3. ASSUME NEW j \in rest \ page, NEW i \in page
      PROVE  c[j].score <= c[i].score
  <2>1. CASE i < j
    BY <1>1, <2>1 DEF Sorted
  <2>2. CASE j <= i
    <3>1. before(j) \subseteq before(i)
      BY <1>1, <2>2
    <3>2. Cardinality(before(j)) <= Cardinality(before(i))
      <4>. HIDE DEF before, rest
      <4>1. IsFiniteSet(before(i)) /\ i \in rest /\ j \in rest
        BY <1>1, <1>2
      <4>. QED
        BY <3>1, <4>1, FS_Subset
    <3>3. PageLen \in Nat /\ Cardinality(before(i)) < PageLen
      BY MappingAssumption
    <3>4. Cardinality(before(j)) < PageLen
      <4>. HIDE DEF before
      <4>1. Cardinality(before(j)) \in Nat /\ Cardinality(before(i)) \in Nat
        BY <1>1, <1>2
      <4>. QED
        BY <3>2, <3>3, <4>1
    <3>. QED
      BY <3>4
  <2>. QED
    BY <1>1, <2>1, <2>2
<1>4. ASSUME rest # {}
      PROVE  page # {}
  <2>. DEFINE v == [i \in rest |-> Len(c) - i]
  <2>1. \A i \in rest : v[i] \in Nat
    BY <1>1, SortedIs
  <2>2. PICK m \in rest : \A i \in rest : v[i] <= v[m]
    <3>. HIDE DEF v, rest
    <3>. QED
      BY <1>1, <1>4, <2>1, Greatest, Zenon
  <2>3. \A i \in rest : m <= i
    <3>1. Len(c) \in Nat /\ \A i \in rest : i \in Nat /\ Len(c) - i <= Len(c) - m
      BY <1>1, <2>2, SortedIs
    <3>. QED
      BY <3>1
  <2>4. before(m) = {}
    BY <1>1, <2>3
  <2>5. Cardinality(before(m)) < PageLen
    BY <2>4, FS_EmptySet, MappingAssumption
  <2>. QED
    BY <2>5
<1>5. IsFiniteSet(page)
  BY <1>1, FS_Subset
<1>. HIDE DEF page
<1>. QED
  BY <1>1, <1>3, <1>4, <1>5

LEMMA BestIs ==
  ASSUME NEW c, Sorted(c), NEW page \in SUBSET DOMAIN c
  PROVE  LET best == BestScores(c, page)
         IN  /\ DOMAIN best = {c[i].feature : i \in page} /\ IsFiniteSet(DOMAIN best)
             /\ \A f \in DOMAIN best :
                   /\ best[f] \in Nat
                   /\ \E i \in page : c[i].feature = f /\ c[i].score = best[f]
                   /\ \A i \in page : c[i].feature = f => c[i].score <= best[f]
<1>. DEFINE fs == {c[i].feature : i \in page}
            own(f) == {i \in page : c[i].feature = f}
            scores(f) == {c[i].score : i \in own(f)}
            best == BestScores(c, page)
<1>1. best = [f \in fs |-> Max(scores(f))]
  BY DEF BestScores
<1>2. IsFiniteSet(page)
  BY SortedIs, FS_Subset
<1>3. IsFiniteSet(fs)
  <2>. DEFINE v == [i \in page |-> c[i].feature]
  <2>1. fs = {v[i] : i \in page} /\ v = [i \in page |-> v[i]]
    OBVIOUS
  <2>. HIDE DEF v, fs
  <2>. QED
    BY <1>2, <2>1, ValuesAreFinite
<1>4. ASSUME NEW f \in fs
      PROVE  Max(scores(f)) \in scores(f) /\ \A s \in scores(f) : s <= Max(scores(f))
  <2>1. scores(f) \subseteq Nat /\ scores(f) # {}
    BY SortedIs
  <2>2. IsFiniteSet(own(f))
    BY <1>2, FS_Subset
  <2>3. IsFiniteSet(scores(f))
    <3>. DEFINE v == [i \in own(f) |-> c[i].score]
    <3>1. scores(f) = {v[i] : i \in own(f)} /\ v = [i \in own(f) |-> v[i]]
      OBVIOUS
    <3>. HIDE DEF own, v, scores
    <3>. QED
      BY <2>2, <3>1, ValuesAreFinite
  <2>. HIDE DEF scores
  <2>. QED
    BY <2>1, <2>3, GreatestOf
<1>5. ASSUME NEW f \in fs
      PROVE  /\ best[f] \in Nat
             /\ \E i \in page : c[i].feature = f /\ c[i].score = best[f]
             /\ \A i \in page : c[i].feature = f => c[i].score <= best[f]
  <2>1. best[f] = Max(scores(f))
    BY <1>1
  <2>2. PICK i \in page : c[i].feature = f /\ c[i].score = best[f]
    BY <1>4, <2>1
  <2>3. \A j \in page : c[j].feature = f => c[j].score \in scores(f)
    OBVIOUS
  <2>4. best[f] \in Nat
    BY <2>2, SortedIs
  <2>. QED
    BY <1>4, <2>1, <2>2, <2>3, <2>4
<1>. QED
  BY <1>1, <1>3, <1>5

(* One search: what it found of a feature is the best there is, and what   *)
(* it did not find is no better than anything found.                       *)
LEMMA VectorIs ==
  ASSUME NEW c, Sorted(c), NEW exclude
  PROVE  LET more == VectorFeatureScores(c, exclude)
         IN  /\ more = [f \in DOMAIN more |-> more[f]] /\ IsFiniteSet(DOMAIN more)
             /\ \A f \in DOMAIN more :
                   /\ f \notin exclude /\ more[f] \in Nat
                   /\ \E i \in DOMAIN c : c[i].feature = f /\ c[i].score = more[f]
                   /\ \A i \in DOMAIN c :
                         c[i].feature \notin exclude /\ (c[i].feature = f \/ c[i].feature \notin DOMAIN more)
                         => c[i].score <= more[f]
             /\ DOMAIN more = {} => \A i \in DOMAIN c : c[i].feature \in exclude
<1>. DEFINE page == Nearest(c, exclude)
            more == VectorFeatureScores(c, exclude)
<1>1. /\ page \subseteq DOMAIN c
      /\ \A i \in page : c[i].feature \notin exclude
      /\ \A j \in DOMAIN c \ page : c[j].feature \notin exclude =>
            page # {} /\ \A i \in page : c[j].score <= c[i].score
  BY NearestIs
<1>2. more = BestScores(c, page) /\ more = [f \in DOMAIN more |-> more[f]]
  BY DEF VectorFeatureScores, BestScores
<1>. HIDE DEF page, more
<1>3. /\ DOMAIN more = {c[i].feature : i \in page} /\ IsFiniteSet(DOMAIN more)
      /\ \A f \in DOMAIN more :
            /\ more[f] \in Nat
            /\ \E i \in page : c[i].feature = f /\ c[i].score = more[f]
            /\ \A i \in page : c[i].feature = f => c[i].score <= more[f]
  <2>. DEFINE best == BestScores(c, page)
  <2>1. /\ DOMAIN best = {c[i].feature : i \in page} /\ IsFiniteSet(DOMAIN best)
        /\ \A f \in DOMAIN best :
              /\ best[f] \in Nat
              /\ \E i \in page : c[i].feature = f /\ c[i].score = best[f]
              /\ \A i \in page : c[i].feature = f => c[i].score <= best[f]
    <3>1. page \in SUBSET DOMAIN c
      BY <1>1
    <3>. QED
      BY <3>1, BestIs
  <2>2. more = best
    BY <1>2
  <2>. HIDE DEF best
  <2>. QED
    BY <2>1, <2>2
<1>4. ASSUME NEW f \in DOMAIN more, NEW i \in DOMAIN c,
             c[i].feature \notin exclude, c[i].feature = f \/ c[i].feature \notin DOMAIN more
      PROVE  c[i].score <= more[f]
  <2>1. CASE i \in page
    BY <1>3, <1>4, <2>1
  <2>2. CASE i \notin page
    BY <1>1, <1>3, <1>4, <2>2
  <2>. QED
    BY <2>1, <2>2
<1>5. DOMAIN more = {} => \A i \in DOMAIN c : c[i].feature \in exclude
  BY <1>1, <1>3
<1>6. \A f \in DOMAIN more : f \notin exclude
  BY <1>1, <1>3
<1>7. \A f \in DOMAIN more : \E i \in DOMAIN c : c[i].feature = f /\ c[i].score = more[f]
  BY <1>1, <1>3
<1>. QED
  BY <1>2, <1>3, <1>4, <1>5, <1>6, <1>7 DEF more

(* One row per group, with its best score.                                 *)
LEMMA RowsAre ==
  ASSUME NEW s, IsFiniteSet(DOMAIN s), \A f \in DOMAIN s : s[f] \in Nat
  PROVE  LET rows == LatestVersionRows(Features, s)
             live == DOMAIN s \intersect DOMAIN Features
         IN  /\ IsFiniteSet(rows)
             /\ \A r \in rows :
                   /\ r.feature \in DOMAIN Features /\ r.score \in Nat
                   /\ \E f \in live : Features[f].group = Features[r.feature].group /\ s[f] = r.score
                   /\ \A f \in live : Features[f].group = Features[r.feature].group => s[f] <= r.score
                   /\ \A q \in rows : Features[q.feature].group = Features[r.feature].group => q = r
             /\ \A f \in live : \E r \in rows : Features[r.feature].group = Features[f].group
<1>. DEFINE rows == LatestVersionRows(Features, s)
            live == DOMAIN s \intersect DOMAIN Features
            group(f) == Features[f].group
            kin(g) == {f \in DOMAIN Features : Features[f].group = g}
            own(g) == {f \in live : Features[f].group = g}
            scores(g) == {s[f] : f \in own(g)}
            row(g) == [feature |-> Latest(Features, kin(g)), score |-> Max(scores(g))]
<1>1. rows = {row(group(f)) : f \in live}
  BY DEF LatestVersionRows
<1>2. IsFiniteSet(live)
  BY FS_Subset
<1>3. IsFiniteSet(rows)
  <2>. DEFINE v == [f \in live |-> row(group(f))]
  <2>1. rows = {v[f] : f \in live} /\ v = [f \in live |-> v[f]]
    <3>. HIDE DEF row, live, group
    <3>. QED
      BY <1>1
  <2>. HIDE DEF v, live, rows
  <2>. QED
    BY <1>2, <2>1, ValuesAreFinite
<1>4. ASSUME NEW f \in live
      PROVE  /\ row(group(f)).feature \in DOMAIN Features
             /\ group(row(group(f)).feature) = group(f)
             /\ row(group(f)).score \in scores(group(f))
             /\ \A x \in scores(group(f)) : x <= row(group(f)).score
  <2>. DEFINE g == group(f)
  <2>1. Latest(Features, kin(g)) \in kin(g)
    <3>1. kin(g) \subseteq DOMAIN Features /\ f \in kin(g)
      OBVIOUS
    <3>. HIDE DEF kin
    <3>. QED
      BY <3>1, LatestIs
  <2>2. Max(scores(g)) \in scores(g) /\ \A x \in scores(g) : x <= Max(scores(g))
    <3>1. scores(g) \subseteq Nat /\ scores(g) # {}
      OBVIOUS
    <3>2. IsFiniteSet(own(g))
      BY <1>2, FS_Subset
    <3>3. IsFiniteSet(scores(g))
      <4>. DEFINE v == [h \in own(g) |-> s[h]]
      <4>1. scores(g) = {v[h] : h \in own(g)} /\ v = [h \in own(g) |-> v[h]]
        OBVIOUS
      <4>. HIDE DEF own, v, scores
      <4>. QED
        BY <3>2, <4>1, ValuesAreFinite
    <3>. HIDE DEF scores
    <3>. QED
      BY <3>1, <3>3, GreatestOf
  <2>3. row(g).feature = Latest(Features, kin(g)) /\ row(g).score = Max(scores(g))
    OBVIOUS
  <2>. HIDE DEF row, scores
  <2>. QED
    BY <2>1, <2>2, <2>3
<1>5. ASSUME NEW r \in rows
      PROVE  /\ r.feature \in DOMAIN Features /\ r.score \in Nat
             /\ \E f \in live : group(f) = group(r.feature) /\ s[f] = r.score
             /\ \A f \in live : group(f) = group(r.feature) => s[f] <= r.score
             /\ \A q \in rows : group(q.feature) = group(r.feature) => q = r
  <2>1. PICK f \in live : r = row(group(f))
    BY <1>1
  <2>2. /\ r.feature \in DOMAIN Features /\ group(r.feature) = group(f)
        /\ r.score \in scores(group(f))
        /\ \A x \in scores(group(f)) : x <= r.score
    <3>. HIDE DEF row, group, scores
    <3>. QED
      BY <1>4, <2>1
  <2>3. PICK h \in own(group(f)) : r.score = s[h]
    BY <2>2
  <2>4. \A k \in live : group(k) = group(r.feature) => s[k] \in scores(group(f))
    BY <2>2
  <2>5. ASSUME NEW q \in rows, group(q.feature) = group(r.feature)
        PROVE  q = r
    <3>1. PICK k \in live : q = row(group(k))
      BY <1>1
    <3>2. group(q.feature) = group(k)
      <4>. HIDE DEF row, group
      <4>. QED
        BY <1>4, <3>1
    <3>. HIDE DEF row, group
    <3>. QED
      BY <2>1, <2>2, <2>5, <3>1, <3>2
  <2>. QED
    BY <2>2, <2>3, <2>4, <2>5
<1>6. \A f \in live : \E r \in rows : group(r.feature) = group(f)
  <2>. HIDE DEF row, group
  <2>. QED
    BY <1>1, <1>4
<1>. HIDE DEF rows
<1>. QED
  BY <1>3, <1>5, <1>6 DEF rows

(* The rows of some scores, and the features a further search passes over. *)
Ranked(s) == LatestVersionRows(Features, s)
Passed(s) == DOMAIN s \union GroupFeatureIds(Features, Ranked(s))

(* What is known from scores found so far: each is that of a chunk; the    *)
(* row of a group has the best score of all the group's chunks; and a      *)
(* chunk that is not passed over is no better than anything found.         *)
Scored(c, s) ==
    /\ IsFiniteSet(DOMAIN s)
    /\ \A f \in DOMAIN s : s[f] \in Nat /\ \E i \in DOMAIN c : c[i].feature = f /\ c[i].score = s[f]
BestOfGroups(c, s) ==
    \A r \in Ranked(s) : \A i \in DOMAIN c :
        c[i].feature \in DOMAIN Features /\ Features[c[i].feature].group = Features[r.feature].group
        => c[i].score <= r.score
RestBelow(c, s) ==
    \A i \in DOMAIN c : c[i].feature \notin Passed(s) => \A f \in DOMAIN s : c[i].score <= s[f]
Found(c, s) == Scored(c, s) /\ BestOfGroups(c, s) /\ RestBelow(c, s)

LEMMA RankedIs ==
  ASSUME NEW c, Sorted(c), NEW s, Scored(c, s)
  PROVE  LET live == DOMAIN s \intersect DOMAIN Features
         IN  /\ IsFiniteSet(Ranked(s))
             /\ \A r \in Ranked(s) :
                   /\ r.feature \in DOMAIN Features /\ r.score \in Nat
                   /\ \E f \in live : Features[f].group = Features[r.feature].group /\ s[f] = r.score
                   /\ \A f \in live : Features[f].group = Features[r.feature].group => s[f] <= r.score
                   /\ \A q \in Ranked(s) : Features[q.feature].group = Features[r.feature].group => q = r
             /\ \A f \in live : \E r \in Ranked(s) : Features[r.feature].group = Features[f].group
BY RowsAre DEF Ranked, Scored

(* A feature of the project is passed over just if its group has a row.    *)
LEMMA PassedIs ==
  ASSUME NEW c, Sorted(c), NEW s, Scored(c, s), NEW f \in DOMAIN Features
  PROVE  f \in Passed(s) <=> \E r \in Ranked(s) : Features[r.feature].group = Features[f].group
<1>1. f \in DOMAIN s => \E r \in Ranked(s) : Features[r.feature].group = Features[f].group
  BY RankedIs
<1>. QED
  BY <1>1 DEF Passed, GroupFeatureIds

(* Nothing is found before the first search.                               *)
LEMMA NothingFound ==
  ASSUME NEW c, Sorted(c)
  PROVE  LET none == [f \in {} |-> 0] IN Found(c, none) /\ Ranked(none) = {} /\ Passed(none) = {}
<1>. DEFINE none == [f \in {} |-> 0]
<1>1. DOMAIN none = {}
  OBVIOUS
<1>. HIDE DEF none
<1>2. Scored(c, none)
  BY <1>1, FS_EmptySet DEF Scored
<1>3. Ranked(none) = {}
  BY <1>1, <1>2, RankedIs
<1>4. Passed(none) = {}
  BY <1>1, <1>3 DEF Passed, GroupFeatureIds
<1>5. Found(c, none)
  BY <1>1, <1>2, <1>3 DEF Found, BestOfGroups, RestBelow
<1>. QED
  BY <1>3, <1>4, <1>5 DEF none

(* A search past what was found adds to it.                                *)
LEMMA SearchAdds ==
  ASSUME NEW c, Sorted(c), NEW s, Found(c, s)
  PROVE  Found(c, Both(s, VectorFeatureScores(c, Passed(s))))
<1>. DEFINE more == VectorFeatureScores(c, Passed(s))
            all == Both(s, more)
            group(f) == Features[f].group
<1>1. /\ IsFiniteSet(DOMAIN more)
      /\ \A f \in DOMAIN more :
            /\ f \notin Passed(s) /\ more[f] \in Nat
            /\ \E i \in DOMAIN c : c[i].feature = f /\ c[i].score = more[f]
            /\ \A i \in DOMAIN c :
                  c[i].feature \notin Passed(s) /\ (c[i].feature = f \/ c[i].feature \notin DOMAIN more)
                  => c[i].score <= more[f]
  BY VectorIs
<1>. HIDE DEF more
<1>2. Scored(c, s)
  BY DEF Found
<1>3. /\ DOMAIN all = DOMAIN s \union DOMAIN more
      /\ \A f \in DOMAIN more : all[f] = more[f]
      /\ \A f \in DOMAIN s : all[f] = s[f] /\ f \notin DOMAIN more
  BY <1>1 DEF Both, Passed
<1>. HIDE DEF all
<1>4. Scored(c, all)
  <2>1. IsFiniteSet(DOMAIN s \union DOMAIN more)
    BY <1>1, <1>2, FS_Union DEF Scored
  <2>2. \A f \in DOMAIN all : all[f] \in Nat /\ \E i \in DOMAIN c : c[i].feature = f /\ c[i].score = all[f]
    BY <1>1, <1>2, <1>3 DEF Scored
  <2>. QED
    BY <1>3, <2>1, <2>2 DEF Scored
<1>5. \A r \in Ranked(s) : \E q \in Ranked(all) : group(q.feature) = group(r.feature)
  <2>1. \A r \in Ranked(s) : \E f \in DOMAIN all \intersect DOMAIN Features : group(f) = group(r.feature)
    BY <1>2, <1>3, RankedIs
  <2>. QED
    BY <1>4, <2>1, RankedIs
<1>6. Passed(s) \union DOMAIN more \subseteq Passed(all)
  <2>1. GroupFeatureIds(Features, Ranked(s)) \subseteq GroupFeatureIds(Features, Ranked(all))
    BY <1>5 DEF GroupFeatureIds
  <2>. QED
    BY <1>3, <2>1 DEF Passed
<1>7. BestOfGroups(c, all)
  <2>. SUFFICES ASSUME NEW r \in Ranked(all), NEW i \in DOMAIN c, c[i].feature \in DOMAIN Features,
                       group(c[i].feature) = group(r.feature)
                PROVE  c[i].score <= r.score
    BY DEF BestOfGroups
  <2>1. /\ r.score \in Nat
        /\ \E f \in DOMAIN all \intersect DOMAIN Features : group(f) = group(r.feature) /\ all[f] = r.score
        /\ \A f \in DOMAIN all \intersect DOMAIN Features : group(f) = group(r.feature) => all[f] <= r.score
    BY <1>4, RankedIs
  <2>2. c[i].score \in Nat
    BY SortedIs
  <2>3. CASE \E q \in Ranked(s) : group(q.feature) = group(r.feature)
    <3>1. PICK q \in Ranked(s) : group(q.feature) = group(r.feature)
      BY <2>3
    <3>2. /\ q.score \in Nat
          /\ \E f \in DOMAIN s \intersect DOMAIN Features : group(f) = group(q.feature) /\ s[f] = q.score
      BY <1>2, RankedIs
    <3>3. q.score <= r.score
      BY <1>3, <2>1, <3>1, <3>2
    <3>4. c[i].score <= q.score
      BY <3>1 DEF Found, BestOfGroups
    <3>. QED
      BY <2>1, <2>2, <3>2, <3>3, <3>4
  <2>4. CASE ~\E q \in Ranked(s) : group(q.feature) = group(r.feature)
    <3>1. \A f \in DOMAIN Features : group(f) = group(r.feature) => f \notin Passed(s)
      BY <1>2, <2>4, PassedIs
    <3>2. PICK f \in DOMAIN all \intersect DOMAIN Features : group(f) = group(r.feature) /\ all[f] = r.score
      BY <2>1
    <3>3. f \in DOMAIN more /\ more[f] = r.score
      BY <1>3, <3>1, <3>2 DEF Passed
    <3>4. c[i].feature \notin Passed(s)
      BY <3>1
    <3>5. CASE c[i].feature \in DOMAIN more
      BY <1>1, <1>3, <2>1, <2>2, <3>4, <3>5
    <3>6. CASE c[i].feature \notin DOMAIN more
      BY <1>1, <3>3, <3>4, <3>6
    <3>. QED
      BY <3>5, <3>6
  <2>. QED
    BY <2>3, <2>4
<1>8. RestBelow(c, all)
  <2>. SUFFICES ASSUME NEW i \in DOMAIN c, c[i].feature \notin Passed(all), NEW f \in DOMAIN all
                PROVE  c[i].score <= all[f]
    BY DEF RestBelow
  <2>1. c[i].feature \notin Passed(s) /\ c[i].feature \notin DOMAIN more
    BY <1>6
  <2>2. CASE f \in DOMAIN more
    BY <1>1, <1>3, <2>1, <2>2
  <2>3. CASE f \in DOMAIN s
    BY <1>3, <2>1, <2>3 DEF Found, RestBelow
  <2>. QED
    BY <1>3, <2>2, <2>3
<1>. QED
  BY <1>4, <1>7, <1>8 DEF Found, all, more

(* What the searches have come to.  They are done when there is a          *)
(* runner-up, or nothing left to look at.                                  *)
Searched(c, st) ==
    /\ DOMAIN st = {"scores", "rows", "seen", "done"}
    /\ st.rows = Ranked(st.scores) /\ st.seen = DOMAIN st.scores
    /\ Found(c, st.scores)
    /\ st.done \in BOOLEAN
    /\ st.done /\ DOMAIN st.scores # {} =>
          \/ Cardinality(Ranked(st.scores)) >= 2
          \/ \A i \in DOMAIN c : c[i].feature \in Passed(st.scores)

LEMMA WidenSearches ==
  ASSUME NEW c, Sorted(c), NEW st, Searched(c, st)
  PROVE  Searched(c, Widen(Features, c, st))
<1>. DEFINE s == st.scores
            more == VectorFeatureScores(c, st.seen \union GroupFeatureIds(Features, st.rows))
            ends == st.done \/ DOMAIN st.scores = {} \/ Cardinality(st.rows) >= 2 \/ DOMAIN more = {}
            all == Both(s, more)
<1>1. Widen(Features, c, st) =
        IF ends THEN [st EXCEPT !.done = TRUE]
        ELSE [scores |-> all, rows |-> Ranked(all), seen |-> st.seen \union DOMAIN more, done |-> FALSE]
  BY DEF Widen, Ranked
<1>2. st.rows = Ranked(s) /\ st.seen = DOMAIN s
  BY DEF Searched
<1>3. more = VectorFeatureScores(c, Passed(s))
  BY <1>2 DEF Passed
<1>4. Found(c, s)
  BY DEF Searched
<1>5. DOMAIN more = {} => \A i \in DOMAIN c : c[i].feature \in Passed(s)
  BY <1>3, VectorIs
<1>6. Found(c, all)
  BY <1>3, <1>4, SearchAdds
<1>7. DOMAIN all = st.seen \union DOMAIN more
  BY <1>2 DEF Both
<1>8. CASE ends
  <2>. DEFINE ended == [st EXCEPT !.done = TRUE]
  <2>1. /\ DOMAIN ended = {"scores", "rows", "seen", "done"}
        /\ ended.scores = s /\ ended.rows = Ranked(s) /\ ended.seen = DOMAIN s /\ ended.done = TRUE
    BY DEF Searched
  <2>2. DOMAIN s # {} => \/ Cardinality(Ranked(s)) >= 2
                         \/ \A i \in DOMAIN c : c[i].feature \in Passed(s)
    BY <1>2, <1>5, <1>8 DEF Searched
  <2>3. Widen(Features, c, st) = ended
    BY <1>1, <1>8
  <2>. HIDE DEF ends, s, more, ended
  <2>. QED
    BY <1>4, <2>1, <2>2, <2>3 DEF Searched
<1>9. CASE ~ends
  <2>. HIDE DEF ends, s, more, all
  <2>1. Widen(Features, c, st) = [scores |-> all, rows |-> Ranked(all), seen |-> DOMAIN all, done |-> FALSE]
    BY <1>1, <1>7, <1>9
  <2>. QED
    BY <1>6, <2>1 DEF Searched
<1>. QED
  BY <1>8, <1>9

(* The exact scan finds everything.                                        *)
LEMMA ScanFinds ==
  ASSUME NEW c, Sorted(c)
  PROVE  LET s == BestScores(c, DOMAIN c) IN Found(c, s) /\ \A i \in DOMAIN c : c[i].feature \in Passed(s)
<1>. DEFINE s == BestScores(c, DOMAIN c)
<1>1. /\ DOMAIN s = {c[i].feature : i \in DOMAIN c} /\ IsFiniteSet(DOMAIN s)
      /\ \A f \in DOMAIN s :
            /\ s[f] \in Nat
            /\ \E i \in DOMAIN c : c[i].feature = f /\ c[i].score = s[f]
            /\ \A i \in DOMAIN c : c[i].feature = f => c[i].score <= s[f]
  BY BestIs
<1>. HIDE DEF s
<1>2. Scored(c, s)
  BY <1>1 DEF Scored
<1>3. \A i \in DOMAIN c : c[i].feature \in DOMAIN s
  BY <1>1
<1>4. BestOfGroups(c, s)
  <2>. SUFFICES ASSUME NEW r \in Ranked(s), NEW i \in DOMAIN c, c[i].feature \in DOMAIN Features,
                       Features[c[i].feature].group = Features[r.feature].group
                PROVE  c[i].score <= r.score
    BY DEF BestOfGroups
  <2>1. s[c[i].feature] <= r.score /\ r.score \in Nat
    BY <1>2, <1>3, RankedIs
  <2>2. c[i].score <= s[c[i].feature] /\ s[c[i].feature] \in Nat /\ c[i].score \in Nat
    BY <1>1, <1>3, SortedIs
  <2>. QED
    BY <2>1, <2>2
<1>5. \A i \in DOMAIN c : c[i].feature \in Passed(s)
  BY <1>3 DEF Passed
<1>6. RestBelow(c, s)
  BY <1>5 DEF RestBelow
<1>. QED
  BY <1>2, <1>4, <1>5, <1>6 DEF Found, s

(* What the semantic ranking shows: rows with the best of their groups,    *)
(* and either a runner-up that nothing unseen beats, or every group that   *)
(* has chunks.                                                             *)
LEMMA RankingIs ==
  ASSUME NEW c, Sorted(c), NEW searchOk \in BOOLEAN
  PROVE  \E s : /\ Found(c, s) /\ SemanticFeatureScores(Features, c, searchOk) = Ranked(s)
                /\ \/ Ranked(s) = {} \/ Cardinality(Ranked(s)) >= 2
                   \/ \A i \in DOMAIN c : c[i].feature \in Passed(s)
<1>. DEFINE first == VectorFeatureScores(c, {})
            page == [scores |-> first, rows |-> LatestVersionRows(Features, first),
                     seen |-> DOMAIN first, done |-> FALSE]
            final == Widen(Features, c, Widen(Features, c, Widen(Features, c, page)))
            exact == ~searchOk \/ DOMAIN final.scores = {} \/ (~final.done /\ Cardinality(final.rows) < 2)
            none == [f \in {} |-> 0]
<1>1. SemanticFeatureScores(Features, c, searchOk) =
        IF exact THEN LatestVersionRows(Features, MemoryFeatureScores(c)) ELSE final.rows
  BY DEF SemanticFeatureScores
<1>2. Found(c, none) /\ Ranked(none) = {} /\ Passed(none) = {}
  BY NothingFound
<1>3. Found(c, first)
  <2>1. Both(none, first) = first
    <3>1. first = [f \in DOMAIN first |-> first[f]]
      BY VectorIs
    <3>2. Both(none, first) = [f \in DOMAIN first |-> first[f]]
      <4>. HIDE DEF first
      <4>. QED
        BY DEF Both
    <3>. HIDE DEF first
    <3>. QED
      BY <3>1, <3>2
  <2>2. first = VectorFeatureScores(c, Passed(none))
    BY <1>2
  <2>. HIDE DEF none, first
  <2>. QED
    BY <1>2, <2>1, <2>2, SearchAdds
<1>4. Searched(c, page)
  <2>. HIDE DEF first
  <2>. QED
    BY <1>3 DEF Searched, Ranked
<1>5. Searched(c, final)
  <2>. HIDE DEF page
  <2>1. Searched(c, Widen(Features, c, page))
    BY <1>4, WidenSearches
  <2>2. Searched(c, Widen(Features, c, Widen(Features, c, page)))
    BY <2>1, WidenSearches
  <2>. QED
    BY <2>2, WidenSearches
<1>. HIDE DEF final, none
<1>6. CASE ~exact
  <2>1. final.rows = Ranked(final.scores) /\ Found(c, final.scores)
    BY <1>5 DEF Searched
  <2>2. \/ Cardinality(Ranked(final.scores)) >= 2
        \/ \A i \in DOMAIN c : c[i].feature \in Passed(final.scores)
    <3>1. CASE final.done
      BY <1>5, <1>6, <3>1 DEF Searched
    <3>2. CASE ~final.done
      <4>1. ~(Cardinality(final.rows) < 2)
        BY <1>6, <3>2
      <4>2. Cardinality(final.rows) \in Nat
        BY <2>1, RankedIs, FS_CardinalityType DEF Found
      <4>. QED
        BY <2>1, <4>1, <4>2
    <3>. QED
      BY <3>1, <3>2
  <2>. QED
    BY <1>1, <1>6, <2>1, <2>2
<1>7. CASE exact /\ Len(c) > MaxScan
  <2>1. MemoryFeatureScores(c) = none
    BY <1>7 DEF MemoryFeatureScores, none
  <2>2. SemanticFeatureScores(Features, c, searchOk) = Ranked(none)
    BY <1>1, <1>7, <2>1 DEF Ranked
  <2>. QED
    BY <1>2, <2>2
<1>8. CASE exact /\ ~(Len(c) > MaxScan)
  <2>. DEFINE s == BestScores(c, DOMAIN c)
  <2>1. MemoryFeatureScores(c) = s
    BY <1>8 DEF MemoryFeatureScores
  <2>2. SemanticFeatureScores(Features, c, searchOk) = Ranked(s)
    BY <1>1, <1>8, <2>1 DEF Ranked
  <2>3. Found(c, s) /\ \A i \in DOMAIN c : c[i].feature \in Passed(s)
    BY ScanFinds
  <2>. HIDE DEF s
  <2>. QED
    BY <2>2, <2>3
<1>. QED
  BY <1>6, <1>7, <1>8

LEMMA LeadIsClear ==
  ASSUME NEW c, Sorted(c), NEW searchOk \in BOOLEAN
  PROVE  LeadsClearly(Features, c, searchOk)
<1>. DEFINE ranked == SemanticFeatureScores(Features, c, searchOk)
            best == CHOOSE r \in ranked : \A other \in ranked : other.score <= r.score
            f == SemanticPrMatch(Features, c, searchOk)
            group(x) == Features[x].group
            scores(g) == GroupScores(Features, c, g)
<1>. SUFFICES ASSUME f # None
              PROVE  /\ Max(scores(group(f))) >= Floor
                     /\ \A g \in {group(h) : h \in DOMAIN Features} \ {group(f)} :
                           \A x \in scores(g) : Max(scores(group(f))) - x >= Margin
  BY DEF LeadsClearly
<1>1. /\ ranked # {} /\ f = best.feature /\ ~(best.score < Floor)
      /\ ~\E other \in ranked \ {best} : best.score - other.score < Margin
  BY DEF SemanticPrMatch
<1>. HIDE DEF f
<1>2. PICK s : /\ Found(c, s) /\ ranked = Ranked(s)
               /\ \/ Ranked(s) = {} \/ Cardinality(Ranked(s)) >= 2
                  \/ \A i \in DOMAIN c : c[i].feature \in Passed(s)
  BY RankingIs
<1>. HIDE DEF ranked
<1>3. Scored(c, s)
  BY <1>2 DEF Found
<1>4. best \in ranked /\ \A other \in ranked : other.score <= best.score
  <2>. DEFINE v == [r \in ranked |-> r.score]
  <2>1. IsFiniteSet(ranked) /\ \A r \in ranked : v[r] \in Nat
    BY <1>2, <1>3, RankedIs
  <2>2. PICK r \in ranked : \A other \in ranked : v[other] <= v[r]
    <3>. HIDE DEF v
    <3>. QED
      BY <1>1, <2>1, Greatest, Zenon
  <2>3. \A other \in ranked : other.score <= r.score
    BY <2>2
  <2>. QED
    BY <2>3
<1>. HIDE DEF best
<1>5. best.score \in Nat /\ Floor \in Nat /\ Margin \in Nat
  BY <1>2, <1>3, <1>4, RankedIs, MappingAssumption
<1>6. \A g : scores(g) = {c[i].score : i \in {j \in DOMAIN c :
               c[j].feature \in DOMAIN Features /\ group(c[j].feature) = g}}
  BY DEF GroupScores
<1>. HIDE DEF scores
<1>7. Max(scores(group(f))) = best.score
  <2>1. scores(group(f)) \subseteq Nat
    BY <1>6, SortedIs
  <2>2. \A x \in scores(group(f)) : x <= best.score
    BY <1>1, <1>2, <1>4, <1>6 DEF Found, BestOfGroups
  <2>3. best.score \in scores(group(f))
    <3>1. PICK h \in DOMAIN s \intersect DOMAIN Features :
             Features[h].group = Features[best.feature].group /\ s[h] = best.score
      BY <1>2, <1>3, <1>4, RankedIs
    <3>2. PICK i \in DOMAIN c : c[i].feature = h /\ c[i].score = s[h]
      BY <1>3 DEF Scored
    <3>. QED
      BY <1>1, <1>6, <3>1, <3>2
  <2>. QED
    BY <2>1, <2>2, <2>3, GreatestIs
<1>8. ASSUME NEW q \in ranked, q # best
      PROVE  q.score \in Nat /\ best.score - q.score >= Margin
  <2>1. q.score \in Nat
    BY <1>2, <1>3, RankedIs
  <2>. QED
    BY <1>1, <1>5, <1>8, <2>1
<1>9. ASSUME NEW g \in {group(h) : h \in DOMAIN Features} \ {group(f)}, NEW x \in scores(g)
      PROVE  best.score - x >= Margin
  <2>1. PICK i \in DOMAIN c : /\ c[i].feature \in DOMAIN Features /\ group(c[i].feature) = g
                              /\ x = c[i].score
    BY <1>6
  <2>2. x \in Nat
    BY <2>1, SortedIs
  <2>3. CASE \E q \in ranked : group(q.feature) = g
    <3>1. PICK q \in ranked : group(q.feature) = g
      BY <2>3
    <3>2. q # best
      BY <1>1, <3>1
    <3>3. x <= q.score
      BY <1>2, <2>1, <3>1 DEF Found, BestOfGroups
    <3>4. q.score \in Nat /\ best.score - q.score >= Margin
      BY <1>8, <3>2
    <3>. QED
      BY <1>5, <2>2, <3>3, <3>4
  <2>4. CASE ~\E q \in ranked : group(q.feature) = g
    <3>1. c[i].feature \notin Passed(s)
      BY <1>2, <1>3, <2>1, <2>4, PassedIs
    <3>2. PICK q \in ranked : q # best
      <4>1. Cardinality(ranked) >= 2
        BY <1>1, <1>2, <3>1
      <4>2. ranked # {best}
        <5>1. Cardinality({best}) = 1
          BY FS_Singleton
        <5>2. ASSUME ranked = {best}
              PROVE  FALSE
          <6>1. Cardinality(ranked) = 1
            BY <5>1, <5>2
          <6>. QED
            BY <4>1, <6>1
        <5>. QED
          BY <5>2
      <4>. QED
        BY <1>4, <4>2
    <3>3. PICK h \in DOMAIN s : s[h] = q.score
      BY <1>2, <1>3, RankedIs
    <3>4. x <= q.score
      BY <1>2, <2>1, <3>1, <3>3 DEF Found, RestBelow
    <3>5. q.score \in Nat /\ best.score - q.score >= Margin
      BY <1>8, <3>2
    <3>. QED
      BY <1>5, <2>2, <3>4, <3>5
  <2>. QED
    BY <2>3, <2>4
<1>. QED
  BY <1>1, <1>5, <1>7, <1>9

LEMMA ChunksSorted == ChunksSpec => []Sorted(chunks)
<1>1. chunks = <<>> => Sorted(chunks)
  BY DEF Sorted
<1>2. Sorted(chunks) /\ [GrowChunks]_chunks => Sorted(chunks)'
  <2>. SUFFICES ASSUME Sorted(chunks), GrowChunks
                PROVE  Sorted(chunks')
    BY DEF Sorted
  <2>. DEFINE Chunk == [feature : DOMAIN Features \union Deleted, score : Nat]
  <2>1. PICK f \in DOMAIN Features \union Deleted, x \in Scores :
           /\ \A i \in DOMAIN chunks : x <= chunks[i].score
           /\ chunks' = Append(chunks, [feature |-> f, score |-> x])
    BY DEF GrowChunks
  <2>2. [feature |-> f, score |-> x] \in Chunk
    BY ChunkAssumption
  <2>3. chunks \in Seq(Chunk) /\ \A i, j \in DOMAIN chunks : i <= j => chunks[j].score <= chunks[i].score
    BY DEF Sorted
  <2>. DEFINE new == [feature |-> f, score |-> x]
  <2>4. new.score = x /\ x \in Nat
    BY ChunkAssumption
  <2>. HIDE DEF Chunk, new
  <2>5. chunks' = Append(chunks, new) /\ new \in Chunk
    BY <2>1, <2>2 DEF new
  <2>6. chunks' \in Seq(Chunk) /\ DOMAIN chunks' = 1 .. (Len(chunks) + 1)
        /\ chunks'[Len(chunks) + 1] = new
        /\ \A i \in 1 .. Len(chunks) : chunks'[i] = chunks[i]
        /\ Len(chunks) \in Nat /\ DOMAIN chunks = 1 .. Len(chunks)
    BY <2>3, <2>5
  <2>7. ASSUME NEW i \in DOMAIN chunks', NEW j \in DOMAIN chunks', i <= j
        PROVE  chunks'[j].score <= chunks'[i].score
    <3>1. CASE j \in 1 .. Len(chunks)
      BY <2>3, <2>6, <2>7, <3>1
    <3>2. CASE j = Len(chunks) + 1 /\ i = j
      BY <2>4, <2>6, <3>2
    <3>3. CASE j = Len(chunks) + 1 /\ i # j
      <4>1. i \in 1 .. Len(chunks)
        BY <2>6, <2>7, <3>3
      <4>2. chunks'[j] = new /\ chunks'[i] = chunks[i]
        BY <2>6, <3>3, <4>1
      <4>. QED
        BY <2>1, <2>4, <2>6, <4>1, <4>2
    <3>. QED
      BY <2>6, <3>1, <3>2, <3>3
  <2>. QED
    BY <2>6, <2>7 DEF Sorted, Chunk
<1>. QED
  BY <1>1, <1>2, PTL DEF ChunksSpec

(* A feature is suggested only if its group reaches the floor and leads    *)
(* every other group by the margin, whatever the pages of the search       *)
(* showed.                                                                 *)
THEOREM SuggestionsClear == ChunksSpec => []SuggestionClear
<1>1. Sorted(chunks) => SuggestionClear
  BY LeadIsClear DEF SuggestionClear
<1>. QED
  BY <1>1, ChunksSorted, PTL

=============================================================================
