--------------------------- MODULE Features_proofs ---------------------------
(***************************************************************************)
(* Epics, tags and the index of documents, for any requests, epic keys,    *)
(* tags and documents and any number of features and crashes.              *)
(***************************************************************************)
EXTENDS Features, TLAPS

-----------------------------------------------------------------------------
(* What each point of a request knows of its kind and its parameters *)

Looping == {"create", "external", "version", "replace"}
Ops == {"none", "rename", "delete"} \union Looping
Points == {"idle", "upload", "checked", "group", "doc", "index", "rename", "chunks", "row"}
Row == [group : Nat \union {None}, version : Nat, key : Keys \union {None}, tag : Tags \union {None}, text : Texts]
Task == [op : Ops, at : Points, fid : Nat, row : Row \union Keys \union {None}, stale : BOOLEAN, tagged : BOOLEAN]
Ingest == [fid : Nat, text : Texts, at : {"fetched", "index"}]

\* A group is the id of a feature.
Given(group, n) == group \in (1 .. n) \union {None}

Fits(t, n) ==
    /\ t.op = "none" <=> t.at = "idle"
    /\ t.op \in {"create", "external"} => t.at \in {"checked", "group", "index"}
    /\ t.op = "version" => t.at \in {"upload", "checked", "group", "index"}
    /\ t.op = "replace" => t.at \in {"upload", "doc", "index"} /\ t.fid \in 1 .. n
    /\ t.op = "rename" => t.at = "rename" /\ t.row \in Keys
    /\ t.op = "delete" => t.at \in {"chunks", "row"}
    /\ t.op \in Looping => t.row \in Row /\ Given(t.row.group, n)
    /\ t.op \in {"create", "external"} /\ t.at = "checked" => t.row.group = None
    /\ t.at \in {"group", "doc", "index"} => t.fid \in 1 .. n

Serving == task \in [Requests -> Task] /\ \A q \in Requests : Fits(task[q], made)
Rows == /\ rows \in [Live -> Row] /\ Live \subseteq 1 .. made
        /\ \A f \in Live : Given(rows[f].group, made)
Written == /\ \A c \in chunks : c[1] \in 1 .. made
           /\ \A i \in ingests : i \in Ingest /\ i.fid \in 1 .. made
Typed == made \in Nat /\ raced \in BOOLEAN /\ Rows /\ Serving /\ Written

LEMMA Ids == None \notin Nat /\ None \notin Keys /\ \A n \in Nat : \A f \in 1 .. n : f # None /\ f \in Nat
BY FeaturesAssumption

LEMMA IdleFits == Idle \in Task /\ Idle.at = "idle" /\ Idle.op = "none" /\ \A n : Fits(Idle, n)
BY DEF Idle, Task, Ops, Points, Fits, Looping

LEMMA FitsOn == ASSUME NEW t, NEW n \in Nat, Fits(t, n) PROVE Fits(t, n + 1)
BY DEF Fits, Given

\* One request goes on.
LEMMA Becomes ==
  ASSUME Serving, UNCHANGED made, NEW q \in Requests, NEW t \in Task, Fits(t, made), task' = [task EXCEPT ![q] = t]
  PROVE  Serving' /\ task'[q] = t /\ \A p \in Requests \ {q} : task'[p] = task[p]
BY DEF Serving

LEMMA Ends ==
  ASSUME Serving, UNCHANGED made, NEW q \in Requests, End(q)
  PROVE  Serving' /\ task'[q] = Idle /\ \A p \in Requests \ {q} : task'[p] = task[p]
BY IdleFits, Becomes DEF End

LEMMA Going ==
  ASSUME Serving, UNCHANGED made, NEW q \in Requests, NEW at, Goes(q, at),
         \/ task[q].op = "version" /\ task[q].at = "upload" /\ at = "checked"
         \/ task[q].at = "group" /\ at = "index"
         \/ task[q].op = "replace" /\ task[q].at = "upload" /\ at = "doc"
         \/ task[q].at = "doc" /\ at = "index"
         \/ task[q].op = "delete" /\ at = "row"
  PROVE  /\ Serving'
         /\ \A p \in Requests \ {q} : task'[p] = task[p]
         /\ task'[q] = [task[q] EXCEPT !.at = at] /\ task'[q].at = at /\ task'[q].op = task[q].op
         /\ task'[q].fid = task[q].fid /\ task'[q].row = task[q].row
         /\ task'[q].stale = task[q].stale /\ task'[q].tagged = task[q].tagged
<1> DEFINE t == [task[q] EXCEPT !.at = at]
<1>1. task[q] \in Task /\ Fits(task[q], made)
  BY DEF Serving
<1>2. at \in Points
  BY DEF Points
<1>3. /\ t \in Task /\ t.at = at /\ t.op = task[q].op /\ t.fid = task[q].fid /\ t.row = task[q].row
      /\ t.stale = task[q].stale /\ t.tagged = task[q].tagged
  BY <1>1, <1>2 DEF Task
<1>4. Fits(t, made)
  BY <1>1, <1>3 DEF Fits, Looping
<1>5. task' = [task EXCEPT ![q] = t]
  BY DEF Goes
<1> HIDE DEF t
<1>6. Serving' /\ task'[q] = t /\ \A p \in Requests \ {q} : task'[p] = task[p]
  BY <1>3, <1>4, <1>5, Becomes
<1>. QED
  BY <1>3, <1>6 DEF t

\* What a request begins as.
LEMMA Beginning ==
  ASSUME Typed, UNCHANGED made, NEW q \in Requests, NEW t \in Task, Fits(t, made), Begin(q, t)
  PROVE  Serving' /\ task'[q] = t /\ task[q].op = "none" /\ task[q].at = "idle" /\ \A p \in Requests \ {q} : task'[p] = task[p]
BY Becomes DEF Typed, Begin, Serving, Fits

LEMMA NewRow ==
  ASSUME NEW group \in Nat \union {None}, NEW version \in Nat, NEW key \in Keys \union {None},
         NEW tag \in Tags \union {None}, NEW text \in Texts
  PROVE  [group |-> group, version |-> version, key |-> key, tag |-> tag, text |-> text] \in Row
BY DEF Row

-----------------------------------------------------------------------------
(* What each action does *)

Others(q) == \A p \in Requests \ {q} : task'[p] = task[p]
Calm == UNCHANGED <<rows, made, ingests, torn, raced>>

LEMMA CreateCheckIs ==
  ASSUME Typed, NEW q \in Requests, NEW key \in Keys \union {None}, NEW tag \in Tags \union {None}, NEW text \in Texts,
         NEW op \in {"create", "external"}, CreateCheck(q, key, tag, text, op)
  PROVE  /\ Serving' /\ Others(q) /\ Calm /\ UNCHANGED <<chunks, broken, mixed>>
         /\ LoopFree /\ ~Bound(key, None) /\ task[q].op = "none" /\ task[q].at = "idle"
         /\ task'[q].op = op /\ task'[q].at = "checked" /\ task'[q].row.key = key /\ task'[q].row.group = None
         /\ task'[q].fid = 0 /\ ~task'[q].tagged
<1> DEFINE row == [group |-> None, version |-> 1, key |-> key, tag |-> tag, text |-> text]
           t == [Idle EXCEPT !.op = op, !.at = "checked", !.row = row]
<1>1. row \in Row /\ row.key = key /\ row.group = None
  BY NewRow
<1> HIDE DEF row
<1>2. /\ t \in Task /\ t.op = op /\ t.at = "checked" /\ t.row = row /\ t.fid = 0 /\ t.tagged = FALSE
  BY <1>1, IdleFits DEF Idle, Task, Ops, Points, Looping
<1>3. Fits(t, made)
  BY <1>1, <1>2 DEF Fits, Looping, Given
<1>4. Begin(q, t) /\ Calm /\ UNCHANGED <<chunks, broken, mixed>> /\ LoopFree /\ ~Bound(key, None)
  BY DEF CreateCheck, Other, Calm, row
<1> HIDE DEF t
<1>. QED
  BY <1>1, <1>2, <1>3, <1>4, Beginning DEF Calm, Others

LEMMA VersionBeginIs ==
  ASSUME Typed, NEW q \in Requests, NEW f \in Live, NEW key \in Keys \union {None}, NEW text \in Texts,
         NEW op \in {"version", "replace"}, VersionBegin(q, f, op, key, text)
  PROVE  /\ Serving' /\ Others(q) /\ Calm /\ UNCHANGED <<chunks, broken, mixed>>
         /\ task[q].op = "none" /\ task[q].at = "idle"
         /\ task'[q].op = op /\ task'[q].at = "upload" /\ task'[q].fid = f
         /\ task'[q].row.group = rows[f].group /\ task'[q].row.tag = rows[f].tag
<1> DEFINE row == [rows[f] EXCEPT !.version = @ + 1, !.text = text, !.key = IF key = None THEN @ ELSE key]
           t == [Idle EXCEPT !.op = op, !.at = "upload", !.fid = f, !.row = row]
<1>1. rows[f] \in Row /\ Given(rows[f].group, made) /\ f \in Nat /\ f \in 1 .. made
  BY DEF Typed, Rows
<1>2. row \in Row /\ row.group = rows[f].group /\ row.tag = rows[f].tag
  <2> DEFINE v == rows[f].version + 1
             k == IF key = None THEN rows[f].key ELSE key
  <2>1. v \in Nat
    BY <1>1 DEF Row
  <2>2. k \in Keys \union {None}
    BY <1>1 DEF Row
  <2>3. row = [rows[f] EXCEPT !.version = v, !.text = text, !.key = k]
    BY <1>1 DEF Row
  <2> HIDE DEF v, k, row
  <2>. QED
    BY <1>1, <2>1, <2>2, <2>3 DEF Row
<1> HIDE DEF row
<1>3. t \in Task /\ t.op = op /\ t.at = "upload" /\ t.row = row /\ t.fid = f
  BY <1>1, <1>2, IdleFits DEF Idle, Task, Ops, Points, Looping
<1>4. Fits(t, made)
  BY <1>1, <1>2, <1>3 DEF Fits, Looping, Given
<1>5. Begin(q, t) /\ Calm /\ UNCHANGED <<chunks, broken, mixed>>
  BY DEF VersionBegin, Other, Calm, row
<1> HIDE DEF t
<1>. QED
  BY <1>2, <1>3, <1>4, <1>5, Beginning DEF Calm, Others

LEMMA RenameCheckIs ==
  ASSUME Typed, NEW q \in Requests, NEW f \in Live, NEW key \in Keys, RenameCheck(q, f, key)
  PROVE  /\ Serving' /\ Others(q) /\ Calm /\ UNCHANGED <<chunks, broken, mixed>>
         /\ ~Bound(Strip[key], rows[f].group) /\ task[q].op = "none" /\ task[q].at = "idle"
         /\ task'[q].op = "rename" /\ task'[q].at = "rename" /\ task'[q].fid = f /\ task'[q].row = key
<1> DEFINE t == [Idle EXCEPT !.op = "rename", !.at = "rename", !.fid = f, !.row = key]
<1>1. f \in Nat
  BY DEF Typed, Rows
<1>2. t \in Task /\ t.op = "rename" /\ t.at = "rename" /\ t.row = key /\ t.fid = f
  BY <1>1, IdleFits DEF Idle, Task, Ops, Points, Looping
<1>3. Fits(t, made)
  BY <1>2 DEF Fits, Looping
<1>4. Begin(q, t) /\ Calm /\ UNCHANGED <<chunks, broken, mixed>> /\ ~Bound(Strip[key], rows[f].group)
  BY DEF RenameCheck, Other, Calm
<1> HIDE DEF t
<1>. QED
  BY <1>2, <1>3, <1>4, Beginning DEF Calm, Others

LEMMA DeleteBeginIs ==
  ASSUME Typed, NEW q \in Requests, NEW f \in Live, DeleteBegin(q, f)
  PROVE  /\ Serving' /\ Others(q) /\ Calm /\ UNCHANGED <<chunks, broken, mixed>>
         /\ task[q].op = "none" /\ task[q].at = "idle"
         /\ task'[q].op = "delete" /\ task'[q].at = "chunks" /\ task'[q].fid = f
<1> DEFINE t == [Idle EXCEPT !.op = "delete", !.at = "chunks", !.fid = f]
<1>1. f \in Nat
  BY DEF Typed, Rows
<1>2. t \in Task /\ t.op = "delete" /\ t.at = "chunks" /\ t.fid = f
  BY <1>1, IdleFits DEF Idle, Task, Ops, Points, Looping
<1>3. Fits(t, made)
  BY <1>2 DEF Fits, Looping
<1>4. Begin(q, t) /\ Calm /\ UNCHANGED <<chunks, broken, mixed>>
  BY DEF DeleteBegin, Other, Calm
<1> HIDE DEF t
<1>. QED
  BY <1>2, <1>3, <1>4, Beginning DEF Calm, Others

\* A request that goes on to a point, all else but the rows as it was.
Advances(q, at) ==
  /\ Serving' /\ Others(q)
  /\ task'[q].at = at /\ task'[q].op = task[q].op /\ task'[q].fid = task[q].fid /\ task'[q].row = task[q].row
  /\ task'[q].stale = task[q].stale /\ task'[q].tagged = task[q].tagged
Stops(q) == Serving' /\ Others(q) /\ task'[q] = Idle

LEMMA VersionCheckIs ==
  ASSUME Typed, NEW q \in Requests, VersionCheck(q)
  PROVE  /\ Calm /\ UNCHANGED <<chunks, broken, mixed>> /\ task[q].op = "version" /\ task[q].at = "upload" /\ LoopFree
         /\ \/ Stops(q)
            \/ Advances(q, "checked") /\ ~Bound(task[q].row.key, task[q].row.group)
<1>1. Serving /\ Calm /\ UNCHANGED <<chunks, broken, mixed>> /\ task[q].op = "version" /\ task[q].at = "upload" /\ LoopFree
  BY DEF VersionCheck, Calm, Other, Typed
<1>2. CASE Bound(task[q].row.key, task[q].row.group)
  BY <1>1, <1>2, Ends DEF VersionCheck, Stops, Others, Calm
<1>3. CASE ~Bound(task[q].row.key, task[q].row.group)
  <2>1. Goes(q, "checked")
    BY <1>3 DEF VersionCheck
  <2>. QED
    BY <1>1, <1>3, <2>1, Going DEF Advances, Others, Calm
<1>. QED
  BY <1>1, <1>2, <1>3

LEMMA SetGroupIs ==
  ASSUME Typed, NEW q \in Requests, SetGroup(q)
  PROVE  /\ Advances(q, "index") /\ task[q].at = "group" /\ UNCHANGED <<made, chunks, ingests, broken, mixed, torn, raced>>
         /\ rows' = IF task[q].fid \in Live THEN [rows EXCEPT ![task[q].fid].group = task[q].fid] ELSE rows
BY Going DEF SetGroup, Other, Typed, Advances, Others

LEMMA ResetIs ==
  ASSUME Typed, NEW q \in Requests, Reset(q)
  PROVE  /\ Advances(q, "doc") /\ task[q].op = "replace" /\ task[q].at = "upload" /\ LoopFree
         /\ UNCHANGED <<rows, made, ingests, broken, torn, raced>>
         /\ chunks' = {c \in chunks : c[1] # task[q].fid}
         /\ mixed \subseteq mixed' /\ (task[q].fid \in mixed' \/ \A i \in ingests : i.fid # task[q].fid)
BY Going DEF Reset, Typed, Advances, Others, reset_feature_content

LEMMA UpdateDocIs ==
  ASSUME Typed, NEW q \in Requests, UpdateDoc(q)
  PROVE  /\ Advances(q, "index") /\ task[q].at = "doc" /\ UNCHANGED <<made, chunks, ingests, broken, mixed, torn, raced>>
         /\ rows' = IF task[q].fid \in Live THEN [rows EXCEPT ![task[q].fid].text = task[q].row.text] ELSE rows
BY Going DEF UpdateDoc, update_feature_doc, Other, Typed, Advances, Others

LEMMA IndexIs ==
  ASSUME Typed, NEW q \in Requests, Index(q)
  PROVE  /\ Stops(q) /\ Calm /\ UNCHANGED <<broken, mixed>>
         /\ task[q].op \in {"create", "version", "replace"} /\ task[q].at = "index"
         /\ chunks' = chunks \union {<<task[q].fid, task[q].row.text>>}
BY Ends DEF Index, add_feature_chunks, Other, Typed, Stops, Others, Calm

LEMMA LaunchIs ==
  ASSUME Typed, NEW q \in Requests, Launch(q)
  PROVE  /\ Stops(q) /\ UNCHANGED <<rows, made, chunks, broken, mixed, torn, raced>>
         /\ task[q].op = "external" /\ task[q].at = "index"
         /\ \E text \in Texts : ingests' = ingests \union {[fid |-> task[q].fid, text |-> text, at |-> "fetched"]}
BY Ends DEF Launch, Typed, Stops, Others

LEMMA FailsIs ==
  ASSUME Typed, NEW q \in Requests, Fails(q)
  PROVE  /\ Stops(q) /\ Calm /\ UNCHANGED <<chunks, mixed>> /\ task[q].op \in Looping
         /\ task[q].at \in {"checked", "doc", "index"} /\ broken \subseteq broken'
         /\ task[q].at # "checked" => task[q].fid \in broken'
BY Ends DEF Fails, Other, Typed, Stops, Others, Calm, Looping

LEMMA DeleteChunksIs ==
  ASSUME Typed, NEW q \in Requests, DeleteChunks(q)
  PROVE  /\ Advances(q, "row") /\ Calm /\ UNCHANGED <<broken, mixed>> /\ task[q].op = "delete"
         /\ chunks' = {c \in chunks : c[1] # task[q].fid}
BY Going DEF DeleteChunks, Other, Typed, Advances, Others, Calm

LEMMA DeleteRowIs ==
  ASSUME Typed, NEW q \in Requests, DeleteRow(q)
  PROVE  /\ Stops(q) /\ task[q].at = "row" /\ UNCHANGED <<made, chunks, ingests, mixed, torn, raced>>
         /\ rows' = [f \in Live \ {task[q].fid} |-> rows[f]] /\ broken \subseteq broken'
BY Ends DEF DeleteRow, Other, Typed, Stops, Others

\* Those a request overlaps are noted, and nothing else of them changes.
OnlyStale(p) ==
  /\ task'[p].op = task[p].op /\ task'[p].at = task[p].at /\ task'[p].fid = task[p].fid /\ task'[p].row = task[p].row
  /\ task'[p].tagged = task[p].tagged /\ (task[p].stale => task'[p].stale)

LEMMA OverlapIs ==
  ASSUME Serving, NEW q \in Requests, NEW p \in Requests
  PROVE  /\ Overlap(q)[p] \in Task /\ Fits(Overlap(q)[p], made)
         /\ Overlap(q)[p].op = task[p].op /\ Overlap(q)[p].at = task[p].at /\ Overlap(q)[p].fid = task[p].fid
         /\ Overlap(q)[p].row = task[p].row /\ Overlap(q)[p].tagged = task[p].tagged
         /\ task[p].stale => Overlap(q)[p].stale
         /\ p \in Checked /\ p # q /\ (task[p].op = "rename" \/ task[q].op = "rename") => Overlap(q)[p].stale
<1>1. task[p] \in Task /\ Fits(task[p], made)
  BY DEF Serving
<1> DEFINE t == [task[p] EXCEPT !.stale = TRUE]
<1>2. /\ t \in Task /\ t.op = task[p].op /\ t.at = task[p].at /\ t.fid = task[p].fid /\ t.row = task[p].row
      /\ t.tagged = task[p].tagged /\ t.stale
  BY <1>1 DEF Task
<1>3. Fits(t, made)
  BY <1>1, <1>2 DEF Fits
<1>4. Overlap(q)[p] = IF p \in Checked \ {q} /\ (task[p].op = "rename" \/ task[q].op = "rename") THEN t ELSE task[p]
  BY DEF Overlap
<1> HIDE DEF t
<1>5. CASE p \in Checked \ {q} /\ (task[p].op = "rename" \/ task[q].op = "rename")
  BY <1>2, <1>3, <1>4, <1>5
<1>6. CASE ~(p \in Checked \ {q} /\ (task[p].op = "rename" \/ task[q].op = "rename"))
  BY <1>1, <1>4, <1>6
<1>. QED
  BY <1>5, <1>6

LEMMA InsertIs ==
  ASSUME Typed, NEW q \in Requests, Insert(q)
  PROVE  /\ Serving' /\ UNCHANGED <<chunks, ingests, broken, mixed>>
         /\ task[q].op \in {"create", "external", "version"} /\ task[q].at = "checked" /\ made' = made + 1
         /\ rows' = [g \in Live \union {made + 1} |-> IF g = made + 1 THEN task[q].row ELSE rows[g]]
         /\ raced' = (raced \/ (task[q].stale /\ task[q].row.key # None))
         /\ task'[q].at = IF task[q].row.group = None THEN "group" ELSE "index"
         /\ task'[q].fid = made + 1 /\ task'[q].op = task[q].op /\ task'[q].row = task[q].row
         /\ torn' = IF task[q].tagged THEN torn \union {task[q].row.group} ELSE torn
         /\ \A p \in Requests \ {q} : OnlyStale(p) /\ (p \in Checked /\ task[p].op = "rename" => task'[p].stale)
<1>1. /\ UNCHANGED <<chunks, ingests, broken, mixed>>
      /\ task[q].op \in {"create", "external", "version"} /\ task[q].at = "checked" /\ made' = made + 1
      /\ rows' = [g \in Live \union {made + 1} |-> IF g = made + 1 THEN task[q].row ELSE rows[g]]
      /\ raced' = (raced \/ (task[q].stale /\ task[q].row.key # None))
      /\ torn' = IF task[q].tagged THEN torn \union {task[q].row.group} ELSE torn
  BY DEF Insert, Writes
<1> DEFINE at == IF task[q].row.group = None THEN "group" ELSE "index"
           t == [Overlap(q)[q] EXCEPT !.at = at, !.fid = made + 1]
<1>2. Serving /\ made \in Nat /\ made + 1 \in Nat /\ made + 1 \in 1 .. made + 1 /\ at \in {"group", "index"}
  BY DEF Typed
<1>3. Overlap(q)[q] \in Task /\ Fits(Overlap(q)[q], made) /\ Overlap(q)[q].op = task[q].op /\ Overlap(q)[q].row = task[q].row
  BY <1>2, OverlapIs
<1>4. /\ task' = [Overlap(q) EXCEPT ![q] = t] /\ DOMAIN Overlap(q) = Requests
  BY <1>1 DEF Insert, Overlap
<1> HIDE DEF at
<1>5. /\ t \in Task /\ t.at = at /\ t.fid = made + 1 /\ t.op = task[q].op /\ t.row = task[q].row
  BY <1>2, <1>3 DEF Task, Points
<1>6. task[q].op \in Looping /\ task[q].row \in Row /\ Given(task[q].row.group, made)
  BY <1>1, <1>2 DEF Serving, Fits, Looping
<1>7. Fits(t, made + 1)
  BY <1>1, <1>2, <1>5, <1>6 DEF Fits, Given, Looping
<1> HIDE DEF t
<1>8. task'[q] = t /\ \A p \in Requests \ {q} : task'[p] = Overlap(q)[p]
  BY <1>4
<1>9. \A p \in Requests \ {q} : /\ task'[p] \in Task /\ Fits(task'[p], made + 1)
                                /\ OnlyStale(p) /\ (p \in Checked /\ task[p].op = "rename" => task'[p].stale)
  BY <1>2, <1>8, OverlapIs, FitsOn DEF OnlyStale
<1>10. task' \in [Requests -> Task]
  <2>1. task' = [p \in Requests |-> task'[p]]
    BY <1>4
  <2>. QED
    BY <1>5, <1>8, <1>9, <2>1
<1>11. Serving'
  BY <1>1, <1>7, <1>8, <1>9, <1>10 DEF Serving
<1>. QED
  BY <1>1, <1>5, <1>8, <1>9, <1>11 DEF at

LEMMA RenameIs ==
  ASSUME Typed, NEW q \in Requests, rename_feature(q)
  PROVE  /\ Serving' /\ UNCHANGED <<made, chunks, ingests, broken, mixed, torn>> /\ task[q].op = "rename"
         /\ task'[q] = Idle
         /\ \A p \in Requests \ {q} : OnlyStale(p) /\ (p \in Checked => task'[p].stale)
         /\ task[q].fid \in Live =>
              /\ rows' = [rows EXCEPT ![task[q].fid].key = task[q].row]
              /\ raced' = (raced \/ (task[q].stale /\ task[q].row # None))
         /\ task[q].fid \notin Live => UNCHANGED <<rows, raced>>
<1>1. /\ UNCHANGED <<made, chunks, ingests, broken, mixed, torn>> /\ task[q].op = "rename"
      /\ task' = [Overlap(q) EXCEPT ![q] = Idle] /\ DOMAIN Overlap(q) = Requests
      /\ task[q].fid \notin Live => UNCHANGED <<rows, raced>>
  BY DEF rename_feature, Other, Overlap
<1>2. Serving
  BY DEF Typed
<1>3. task'[q] = Idle /\ \A p \in Requests \ {q} : task'[p] = Overlap(q)[p]
  BY <1>1
<1>4. \A p \in Requests \ {q} : /\ task'[p] \in Task /\ Fits(task'[p], made)
                                /\ OnlyStale(p) /\ (p \in Checked => task'[p].stale)
  BY <1>1, <1>2, <1>3, OverlapIs DEF OnlyStale
<1>5. task' \in [Requests -> Task]
  <2>1. task' = [p \in Requests |-> task'[p]]
    BY <1>1
  <2>. QED
    BY <1>3, <1>4, <2>1, IdleFits
<1>6. Serving'
  BY <1>1, <1>3, <1>4, <1>5, IdleFits DEF Serving
<1>7. ASSUME task[q].fid \in Live
      PROVE  /\ rows' = [rows EXCEPT ![task[q].fid].key = task[q].row]
             /\ raced' = (raced \/ (task[q].stale /\ task[q].row # None))
  <2> DEFINE f == task[q].fid
             row == [rows[f] EXCEPT !.key = task[q].row]
  <2>1. Writes(q, f, row)
    BY <1>7 DEF rename_feature
  <2>2. row.key = task[q].row
    BY <1>7 DEF Typed, Rows, Row
  <2>3. Live \union {f} = Live
    BY <1>7
  <2>4. rows' = [g \in Live |-> IF g = f THEN row ELSE rows[g]]
    BY <2>1, <2>3 DEF Writes
  <2> HIDE DEF row
  <2>5. rows' = [rows EXCEPT ![f] = row]
    BY <1>7, <2>4 DEF Live, Typed, Rows
  <2>. QED
    BY <2>1, <2>2, <2>5 DEF Writes, row
<1>. QED
  BY <1>1, <1>3, <1>4, <1>6, <1>7

LEMMA TagIs ==
  ASSUME Typed, NEW f \in Live, NEW tag, set_feature_match_key(f, tag)
  PROVE  /\ Serving' /\ UNCHANGED <<made, chunks, ingests, broken, mixed, raced>>
         /\ rows' = [g \in Live |-> IF rows[g].group = rows[f].group THEN [rows[g] EXCEPT !.tag = tag] ELSE rows[g]]
         /\ torn' = torn \ {rows[f].group}
         /\ \A p \in Requests :
              /\ task'[p].op = task[p].op /\ task'[p].at = task[p].at /\ task'[p].fid = task[p].fid
              /\ task'[p].row = task[p].row /\ task'[p].stale = task[p].stale
              /\ task'[p].tagged = (task[p].tagged \/ (task[p].op = "version" /\ task[p].at \in {"upload", "checked"}
                                                       /\ task[p].row.group = rows[f].group))
<1>1. /\ UNCHANGED <<made, chunks, ingests, broken, mixed, raced>> /\ torn' = torn \ {rows[f].group}
      /\ rows' = [g \in Live |-> IF rows[g].group = rows[f].group THEN [rows[g] EXCEPT !.tag = tag] ELSE rows[g]]
  BY DEF set_feature_match_key, Tagged
<1> DEFINE new(p) == task[p].tagged \/ (task[p].op = "version" /\ task[p].at \in {"upload", "checked"}
                                        /\ task[p].row.group = rows[f].group)
<1>2. task' = [p \in Requests |-> [task[p] EXCEPT !.tagged = new(p)]]
  BY DEF set_feature_match_key
<1>3. \A p \in Requests : task[p] \in Task /\ Fits(task[p], made) /\ new(p) \in BOOLEAN
  BY DEF Typed, Serving, Task
<1> HIDE DEF new
<1>4. ASSUME NEW p \in Requests
      PROVE  /\ task'[p] \in Task /\ task'[p].op = task[p].op /\ task'[p].at = task[p].at /\ task'[p].fid = task[p].fid
             /\ task'[p].row = task[p].row /\ task'[p].stale = task[p].stale /\ task'[p].tagged = new(p)
  BY <1>2, <1>3 DEF Task
<1>5. \A p \in Requests : Fits(task'[p], made)
  BY <1>3, <1>4 DEF Fits
<1>6. task' \in [Requests -> Task]
  BY <1>2, <1>4
<1>7. Serving'
  BY <1>1, <1>5, <1>6 DEF Serving
<1>. QED
  BY <1>1, <1>4, <1>7 DEF new

LEMMA CrashIs ==
  ASSUME Typed, Crash
  PROVE  /\ Serving' /\ (\A p \in Requests : task'[p] = Idle) /\ ingests' = {} /\ UNCHANGED <<made, chunks, mixed, torn, raced>>
         /\ rows' = [f \in Live |-> [rows[f] EXCEPT !.group = GroupOf(f)]]
         /\ broken \subseteq broken'
         /\ \A q \in Requests : task[q].op \in Looping \union {"delete"} /\ task[q].at # "upload" => task[q].fid \in broken'
         /\ \A i \in ingests : i.fid \in broken'
<1>1. Serving'
  BY IdleFits DEF Crash, Serving, Typed
<1>2. \A q \in Requests : task[q].op \in Looping \union {"delete"} => q \in Using /\ task[q].op # "rename"
  BY DEF Typed, Serving, Fits, Using, Looping
<1>. QED
  BY <1>1, <1>2 DEF Crash

LEMMA ClearKeyIs ==
  ASSUME Typed, NEW f \in Live, ClearKey(f)
  PROVE  Serving' /\ UNCHANGED <<made, chunks, task, ingests, broken, mixed, torn, raced>> /\ rows' = [rows EXCEPT ![f].key = None]
BY DEF ClearKey, Typed, Serving, history

LEMMA IngestUpdateIs ==
  ASSUME Typed, NEW i \in ingests, IngestUpdate(i)
  PROVE  /\ Serving' /\ UNCHANGED <<made, chunks, task, broken, mixed, torn, raced>> /\ i.at = "fetched"
         /\ \E j \in Ingest : /\ ingests' = (ingests \ {i}) \union {j}
                             /\ j.fid = i.fid /\ j.text = i.text /\ j.at = "index"
         /\ rows' = IF i.fid \in Live THEN [rows EXCEPT ![i.fid].text = i.text] ELSE rows
<1>1. i \in Ingest
  BY DEF Typed, Written
<1> DEFINE j == [i EXCEPT !.at = "index"]
<1>2. j \in Ingest /\ j.fid = i.fid /\ j.text = i.text /\ j.at = "index"
  BY <1>1 DEF Ingest
<1>3. Serving' /\ UNCHANGED <<made, chunks, task, broken, mixed, torn, raced>> /\ i.at = "fetched"
      /\ ingests' = (ingests \ {i}) \union {j}
      /\ rows' = IF i.fid \in Live THEN [rows EXCEPT ![i.fid].text = i.text] ELSE rows
  BY DEF IngestUpdate, update_feature_doc, Typed, Serving, history
<1> HIDE DEF j
<1>. QED
  BY <1>2, <1>3

LEMMA IngestIndexIs ==
  ASSUME Typed, NEW i \in ingests, IngestIndex(i)
  PROVE  /\ Serving' /\ UNCHANGED <<rows, made, task, broken, mixed, torn, raced>> /\ i.at = "index"
         /\ chunks' = chunks \union {<<i.fid, i.text>>} /\ ingests' = ingests \ {i}
BY DEF IngestIndex, add_feature_chunks, Typed, Serving, history

LEMMA IngestFailsIs ==
  ASSUME Typed, NEW i \in ingests, IngestFails(i)
  PROVE  /\ Serving' /\ UNCHANGED <<rows, made, chunks, task, mixed, torn, raced>>
         /\ ingests' = ingests \ {i} /\ broken' = broken \union {i.fid}
BY DEF IngestFails, Typed, Serving

-----------------------------------------------------------------------------
(* The rows, field by field *)

KeyKept(g) == rows'[g].key = rows[g].key
GroupKept(g) == rows'[g].group = rows[g].group
TagKeptOf(g) == rows'[g].tag = rows[g].tag
TextKept(g) == rows'[g].text = rows[g].text

LEMMA RowSet ==
  ASSUME Rows, UNCHANGED made, NEW r \in [Live -> Row], rows' = r, \A g \in Live : Given(r[g].group, made)
  PROVE  Rows' /\ Live' = Live
BY DEF Rows, Live

LEMMA Regroups ==
  ASSUME Rows, made \in Nat, UNCHANGED made, NEW f \in 1 .. made,
         rows' = IF f \in Live THEN [rows EXCEPT ![f].group = f] ELSE rows
  PROVE  /\ Rows' /\ Live' = Live
         /\ \A g \in Live : KeyKept(g) /\ TagKeptOf(g) /\ TextKept(g) /\ rows'[g].group = IF g = f THEN f ELSE rows[g].group
<1>1. CASE f \in Live
  <2> DEFINE row == [rows[f] EXCEPT !.group = f]
             r == [rows EXCEPT ![f] = row]
  <2>1. row \in Row /\ row.group = f /\ row.key = rows[f].key /\ row.tag = rows[f].tag /\ row.text = rows[f].text
    BY <1>1 DEF Rows, Row
  <2>2. rows' = r
    BY <1>1
  <2> HIDE DEF row
  <2>3. r \in [Live -> Row] /\ r[f] = row /\ \A g \in Live \ {f} : r[g] = rows[g]
    BY <1>1, <2>1 DEF Rows
  <2>4. \A g \in Live : Given(r[g].group, made)
    BY <2>1, <2>3 DEF Rows, Given
  <2> HIDE DEF r
  <2>. QED
    BY <2>1, <2>2, <2>3, <2>4, RowSet DEF KeyKept, TagKeptOf, TextKept
<1>2. CASE f \notin Live
  BY <1>2 DEF Rows, Live, KeyKept, TagKeptOf, TextKept
<1>. QED
  BY <1>1, <1>2

LEMMA Rewrites ==
  ASSUME Rows, made \in Nat, UNCHANGED made, NEW f, NEW text \in Texts,
         rows' = IF f \in Live THEN [rows EXCEPT ![f].text = text] ELSE rows
  PROVE  /\ Rows' /\ Live' = Live
         /\ \A g \in Live : KeyKept(g) /\ TagKeptOf(g) /\ GroupKept(g) /\ rows'[g].text = IF g = f THEN text ELSE rows[g].text
<1>1. CASE f \in Live
  <2> DEFINE row == [rows[f] EXCEPT !.text = text]
             r == [rows EXCEPT ![f] = row]
  <2>1. row \in Row /\ row.group = rows[f].group /\ row.key = rows[f].key /\ row.tag = rows[f].tag /\ row.text = text
    BY <1>1 DEF Rows, Row
  <2>2. rows' = r
    BY <1>1
  <2> HIDE DEF row
  <2>3. r \in [Live -> Row] /\ r[f] = row /\ \A g \in Live \ {f} : r[g] = rows[g]
    BY <1>1, <2>1 DEF Rows
  <2>4. \A g \in Live : Given(r[g].group, made)
    BY <1>1, <2>1, <2>3 DEF Rows
  <2> HIDE DEF r
  <2>. QED
    BY <2>1, <2>2, <2>3, <2>4, RowSet DEF KeyKept, TagKeptOf, GroupKept
<1>2. CASE f \notin Live
  BY <1>2 DEF Rows, Live, KeyKept, TagKeptOf, GroupKept
<1>. QED
  BY <1>1, <1>2

LEMMA Rekeys ==
  ASSUME Rows, made \in Nat, UNCHANGED made, NEW f \in Live, NEW key \in Keys \union {None},
         rows' = [rows EXCEPT ![f].key = key]
  PROVE  /\ Rows' /\ Live' = Live
         /\ \A g \in Live : TextKept(g) /\ TagKeptOf(g) /\ GroupKept(g) /\ rows'[g].key = IF g = f THEN key ELSE rows[g].key
<1> DEFINE row == [rows[f] EXCEPT !.key = key]
           r == [rows EXCEPT ![f] = row]
<1>1. row \in Row /\ row.group = rows[f].group /\ row.text = rows[f].text /\ row.tag = rows[f].tag /\ row.key = key
  BY DEF Rows, Row
<1>2. rows' = r
  OBVIOUS
<1> HIDE DEF row
<1>3. r \in [Live -> Row] /\ r[f] = row /\ \A g \in Live \ {f} : r[g] = rows[g]
  BY <1>1 DEF Rows
<1>4. \A g \in Live : Given(r[g].group, made)
  BY <1>1, <1>3 DEF Rows
<1> HIDE DEF r
<1>. QED
  BY <1>1, <1>2, <1>3, <1>4, RowSet DEF TextKept, TagKeptOf, GroupKept

LEMMA Retags ==
  ASSUME Rows, made \in Nat, UNCHANGED made, NEW f \in Live, NEW tag \in Tags,
         rows' = [g \in Live |-> IF rows[g].group = rows[f].group THEN [rows[g] EXCEPT !.tag = tag] ELSE rows[g]]
  PROVE  /\ Rows' /\ Live' = Live
         /\ \A g \in Live : /\ TextKept(g) /\ KeyKept(g) /\ GroupKept(g)
                           /\ rows'[g].tag = IF rows[g].group = rows[f].group THEN tag ELSE rows[g].tag
<1> DEFINE row(g) == IF rows[g].group = rows[f].group THEN [rows[g] EXCEPT !.tag = tag] ELSE rows[g]
           r == [g \in Live |-> row(g)]
<1>1. \A g \in Live : /\ row(g) \in Row /\ row(g).group = rows[g].group /\ row(g).text = rows[g].text
                      /\ row(g).key = rows[g].key
                      /\ row(g).tag = IF rows[g].group = rows[f].group THEN tag ELSE rows[g].tag
  BY DEF Rows, Row
<1>2. rows' = r
  OBVIOUS
<1> HIDE DEF row
<1>3. r \in [Live -> Row] /\ \A g \in Live : r[g] = row(g)
  BY <1>1
<1>4. \A g \in Live : Given(r[g].group, made)
  BY <1>1, <1>3 DEF Rows
<1> HIDE DEF r
<1>. QED
  BY <1>1, <1>2, <1>3, <1>4, RowSet DEF TextKept, KeyKept, GroupKept

LEMMA Recovers ==
  ASSUME Rows, made \in Nat, UNCHANGED made, rows' = [f \in Live |-> [rows[f] EXCEPT !.group = GroupOf(f)]]
  PROVE  /\ Rows' /\ Live' = Live
         /\ \A g \in Live : TextKept(g) /\ KeyKept(g) /\ TagKeptOf(g) /\ rows'[g].group = GroupOf(g) /\ GroupOf(g) # None
<1> DEFINE row(g) == [rows[g] EXCEPT !.group = GroupOf(g)]
           r == [g \in Live |-> row(g)]
<1>1. \A g \in Live : GroupOf(g) \in 1 .. made /\ GroupOf(g) # None /\ GroupOf(g) \in Nat
  BY Ids DEF Rows, Given, GroupOf
<1>2. \A g \in Live : /\ row(g) \in Row /\ row(g).group = GroupOf(g) /\ row(g).text = rows[g].text
                      /\ row(g).key = rows[g].key /\ row(g).tag = rows[g].tag
  BY <1>1 DEF Rows, Row
<1>3. rows' = r
  OBVIOUS
<1> HIDE DEF row
<1>4. r \in [Live -> Row] /\ \A g \in Live : r[g] = row(g)
  BY <1>2
<1>5. \A g \in Live : Given(r[g].group, made)
  BY <1>1, <1>2, <1>4 DEF Given
<1> HIDE DEF r
<1>. QED
  BY <1>1, <1>2, <1>3, <1>4, <1>5, RowSet DEF TextKept, KeyKept, TagKeptOf

LEMMA Removes ==
  ASSUME Rows, UNCHANGED made, NEW f, rows' = [g \in Live \ {f} |-> rows[g]]
  PROVE  Rows' /\ Live' = Live \ {f} /\ \A g \in Live' : rows'[g] = rows[g]
BY DEF Rows, Live

LEMMA Adds ==
  ASSUME Rows, made \in Nat, made' = made + 1, NEW row \in Row, Given(row.group, made),
         rows' = [g \in Live \union {made + 1} |-> IF g = made + 1 THEN row ELSE rows[g]]
  PROVE  /\ Rows' /\ Live' = Live \union {made + 1} /\ made + 1 \notin Live
         /\ rows'[made + 1] = row /\ \A g \in Live : rows'[g] = rows[g]
<1>1. made + 1 \notin Live /\ Live' = Live \union {made + 1}
  BY DEF Rows, Live
<1>2. rows'[made + 1] = row /\ \A g \in Live : rows'[g] = rows[g]
  BY <1>1
<1>3. rows' \in [Live' -> Row]
  BY <1>1, <1>2 DEF Rows
<1>4. Live' \subseteq 1 .. made'
  BY <1>1 DEF Rows
<1>5. \A g \in Live' : Given(rows'[g].group, made')
  BY <1>1, <1>2 DEF Rows, Given
<1>. QED
  BY <1>1, <1>2, <1>3, <1>4, <1>5 DEF Rows

\* What a request at a point has to write.
LEMMA Carried ==
  ASSUME Typed, NEW q \in Requests
  PROVE  /\ task[q] \in Task /\ Fits(task[q], made)
         /\ task[q].at = "group" => task[q].op \in {"create", "external", "version"}
         /\ task[q].at = "doc" => task[q].op = "replace"
         /\ task[q].at = "index" => task[q].op \in Looping
         /\ task[q].op \in Looping => task[q].row \in Row /\ task[q].row.text \in Texts /\ Given(task[q].row.group, made)
         /\ task[q].at \in {"group", "doc", "index"} => task[q].fid \in 1 .. made
<1>1. task[q] \in Task /\ Fits(task[q], made)
  BY DEF Typed, Serving
<1>2. task[q].op \in Ops
  BY <1>1 DEF Task
<1>3. task[q].op \in Looping => task[q].row \in Row /\ Given(task[q].row.group, made)
  BY <1>1 DEF Fits
<1>4. task[q].op \in Looping => task[q].row.text \in Texts
  BY <1>3 DEF Row
<1>. QED
  BY <1>1, <1>2, <1>3, <1>4 DEF Fits, Ops, Looping

LEMMA Quietly == ASSUME Typed, Serving', UNCHANGED <<made, raced>>, Rows', Written' PROVE Typed'
BY DEF Typed

LEMMA RowsStay == ASSUME Rows, UNCHANGED <<rows, made>> PROVE Rows' /\ Live' = Live
BY DEF Rows, Live

LEMMA NextTyped == ASSUME Typed, [Next]_vars PROVE Typed'
<1> USE DEF Written
<1>0. made \in Nat /\ Rows /\ Serving /\ Written
  BY DEF Typed
<1>1. ASSUME NEW q \in Requests, NEW key \in Keys \union {None}, NEW tag \in Tags \union {None}, NEW text \in Texts,
             NEW op \in {"create", "external"}, CreateCheck(q, key, tag, text, op)
      PROVE  Typed'
  <2>1. Serving' /\ Calm /\ UNCHANGED chunks
    BY <1>1, CreateCheckIs
  <2>. QED
    BY <1>0, <2>1, RowsStay, Quietly DEF Calm
<1>2. ASSUME NEW q \in Requests, NEW f \in Live, NEW key \in Keys \union {None}, NEW text \in Texts,
             NEW op \in {"version", "replace"}, VersionBegin(q, f, op, key, text)
      PROVE  Typed'
  <2>1. Serving' /\ Calm /\ UNCHANGED chunks
    BY <1>2, VersionBeginIs
  <2>. QED
    BY <1>0, <2>1, RowsStay, Quietly DEF Calm
<1>3. ASSUME NEW q \in Requests, VersionCheck(q) PROVE Typed'
  <2>1. Serving' /\ Calm /\ UNCHANGED chunks
    BY <1>3, VersionCheckIs DEF Stops, Advances
  <2>. QED
    BY <1>0, <2>1, RowsStay, Quietly DEF Calm
<1>4. ASSUME NEW q \in Requests, Insert(q) PROVE Typed'
  <2>1. /\ Serving' /\ UNCHANGED <<chunks, ingests>> /\ made' = made + 1 /\ raced' \in BOOLEAN
        /\ task[q].op \in Looping
        /\ rows' = [g \in Live \union {made + 1} |-> IF g = made + 1 THEN task[q].row ELSE rows[g]]
    BY <1>4, InsertIs DEF Looping
  <2>2. Rows'
    BY <1>0, <2>1, Carried, Adds
  <2>3. Written'
    BY <1>0, <2>1
  <2>. QED
    BY <1>0, <2>1, <2>2, <2>3 DEF Typed
<1>5. ASSUME NEW q \in Requests, SetGroup(q) PROVE Typed'
  BY <1>0, <1>5, SetGroupIs, Carried, Regroups, Quietly DEF Advances
<1>6. ASSUME NEW q \in Requests, Reset(q) PROVE Typed'
  <2>1. Serving' /\ UNCHANGED <<rows, made, ingests, raced>> /\ chunks' \subseteq chunks
    BY <1>6, ResetIs DEF Advances
  <2>. QED
    BY <1>0, <2>1, RowsStay, Quietly
<1>7. ASSUME NEW q \in Requests, UpdateDoc(q) PROVE Typed'
  <2>1. task[q].at = "doc" /\ task[q].row.text \in Texts
    BY <1>7, UpdateDocIs, Carried DEF Looping
  <2>. QED
    BY <1>0, <1>7, <2>1, UpdateDocIs, Rewrites, Quietly DEF Advances
<1>8. ASSUME NEW q \in Requests, Index(q) PROVE Typed'
  <2>1. Serving' /\ Calm /\ chunks' = chunks \union {<<task[q].fid, task[q].row.text>>} /\ task[q].at = "index"
    BY <1>8, IndexIs DEF Stops
  <2>2. \A c \in chunks' : c[1] \in 1 .. made
    BY <1>0, <2>1, Carried
  <2>. QED
    BY <1>0, <2>1, <2>2, RowsStay, Quietly DEF Calm
<1>9. ASSUME NEW q \in Requests, Launch(q) PROVE Typed'
  <2>1. Serving' /\ UNCHANGED <<rows, made, chunks, raced>> /\ task[q].at = "index"
    BY <1>9, LaunchIs DEF Stops
  <2>2. PICK text \in Texts : ingests' = ingests \union {[fid |-> task[q].fid, text |-> text, at |-> "fetched"]}
    BY <1>9, LaunchIs
  <2> DEFINE i == [fid |-> task[q].fid, text |-> text, at |-> "fetched"]
  <2>3. i \in Ingest /\ i.fid \in 1 .. made
    BY <1>0, <2>1, Carried DEF Ingest
  <2> HIDE DEF i
  <2>4. \A j \in ingests' : j \in Ingest /\ j.fid \in 1 .. made
    BY <1>0, <2>2, <2>3 DEF i
  <2>. QED
    BY <1>0, <2>1, <2>4, RowsStay, Quietly
<1>10. ASSUME NEW q \in Requests, Fails(q) PROVE Typed'
  <2>1. Serving' /\ Calm /\ UNCHANGED chunks
    BY <1>10, FailsIs DEF Stops
  <2>. QED
    BY <1>0, <2>1, RowsStay, Quietly DEF Calm
<1>11. ASSUME NEW q \in Requests, NEW f \in Live, DeleteBegin(q, f) PROVE Typed'
  <2>1. Serving' /\ Calm /\ UNCHANGED chunks
    BY <1>11, DeleteBeginIs
  <2>. QED
    BY <1>0, <2>1, RowsStay, Quietly DEF Calm
<1>12. ASSUME NEW q \in Requests, NEW f \in Live, NEW key \in Keys, RenameCheck(q, f, key) PROVE Typed'
  <2>1. Serving' /\ Calm /\ UNCHANGED chunks
    BY <1>12, RenameCheckIs
  <2>. QED
    BY <1>0, <2>1, RowsStay, Quietly DEF Calm
<1>13. ASSUME NEW q \in Requests, rename_feature(q) PROVE Typed'
  <2>1. /\ Serving' /\ UNCHANGED <<made, chunks, ingests>> /\ raced' \in BOOLEAN
    BY <1>13, RenameIs, <1>0 DEF Typed
  <2>2. Rows'
    <3>1. task[q].row \in Keys
      BY <1>13, RenameIs, Carried DEF Fits
    <3>2. CASE task[q].fid \in Live
      BY <1>0, <1>13, <2>1, <3>1, <3>2, RenameIs, Rekeys
    <3>3. CASE task[q].fid \notin Live
      BY <1>0, <1>13, <2>1, <3>3, RenameIs, RowsStay
    <3>. QED
      BY <3>2, <3>3
  <2>. QED
    BY <1>0, <2>1, <2>2 DEF Typed
<1>14. ASSUME NEW q \in Requests, DeleteChunks(q) PROVE Typed'
  <2>1. Serving' /\ Calm /\ chunks' \subseteq chunks
    BY <1>14, DeleteChunksIs DEF Advances
  <2>. QED
    BY <1>0, <2>1, RowsStay, Quietly DEF Calm
<1>15. ASSUME NEW q \in Requests, DeleteRow(q) PROVE Typed'
  BY <1>0, <1>15, DeleteRowIs, Removes, Quietly DEF Stops
<1>16. ASSUME NEW i \in ingests, IngestUpdate(i) PROVE Typed'
  <2>1. PICK j \in Ingest : ingests' = (ingests \ {i}) \union {j} /\ j.fid = i.fid
    BY <1>16, IngestUpdateIs
  <2>2. i.text \in Texts /\ i.fid \in 1 .. made
    BY <1>0, <1>16 DEF Ingest
  <2>3. Serving' /\ UNCHANGED <<made, chunks, raced>>
        /\ rows' = IF i.fid \in Live THEN [rows EXCEPT ![i.fid].text = i.text] ELSE rows
    BY <1>16, IngestUpdateIs
  <2>4. Rows'
    BY <1>0, <2>2, <2>3, Rewrites
  <2>5. Written'
    BY <1>0, <2>1, <2>2, <2>3
  <2>. QED
    BY <2>3, <2>4, <2>5, Quietly
<1>17. ASSUME NEW i \in ingests, IngestIndex(i) PROVE Typed'
  <2>1. /\ Serving' /\ UNCHANGED <<rows, made, raced>>
        /\ chunks' = chunks \union {<<i.fid, i.text>>} /\ ingests' = ingests \ {i}
    BY <1>17, IngestIndexIs
  <2>. QED
    BY <1>0, <1>17, <2>1, RowsStay, Quietly
<1>18. ASSUME NEW i \in ingests, IngestFails(i) PROVE Typed'
  <2>1. Serving' /\ UNCHANGED <<rows, made, chunks, raced>> /\ ingests' = ingests \ {i}
    BY <1>18, IngestFailsIs
  <2>. QED
    BY <1>0, <2>1, RowsStay, Quietly
<1>19. ASSUME NEW f \in Live, ClearKey(f) PROVE Typed'
  BY <1>0, <1>19, ClearKeyIs, Rekeys, Quietly
<1>20. ASSUME NEW f \in Live, NEW tag \in Tags, set_feature_match_key(f, tag) PROVE Typed'
  BY <1>0, <1>20, TagIs, Retags, Quietly
<1>21. CASE Crash
  BY <1>0, <1>21, CrashIs, Recovers, Quietly
<1>22. CASE UNCHANGED vars
  <2>1. UNCHANGED <<rows, made, chunks, task, ingests, raced>>
    BY <1>22 DEF vars, history
  <2>2. Serving'
    BY <1>0, <2>1 DEF Serving
  <2>. QED
    BY <1>0, <2>1, <2>2, RowsStay, Quietly
<1>23. \A k \in Keys : Strip[k] \in Keys
  BY FeaturesAssumption
<1>. QED
  BY <1>1, <1>2, <1>3, <1>4, <1>5, <1>6, <1>7, <1>8, <1>9, <1>10, <1>11, <1>12, <1>13, <1>14, <1>15, <1>16, <1>17, <1>18,
     <1>19, <1>20, <1>21, <1>22, <1>23 DEF Next

LEMMA InitTyped == Init => Typed
<1> SUFFICES ASSUME Init PROVE Typed
  OBVIOUS
<1>1. Live = {} /\ rows \in [Live -> Row]
  BY DEF Init, Live
<1>2. Serving
  BY IdleFits DEF Init, Serving
<1>3. made \in Nat /\ raced \in BOOLEAN /\ Written
  BY DEF Init, Written
<1>. QED
  BY <1>1, <1>2, <1>3 DEF Typed, Rows

\* For any requests, keys and documents the state is of its type: what a
\* request knows fits the point it has reached.
THEOREM TypeCorrect == Spec => []Typed
BY InitTyped, NextTyped, PTL DEF Spec

-----------------------------------------------------------------------------
(* What holds between the requests, the rows and the index *)

\* One request holds the event loop.
Holds(q) == task[q].op \in Looping /\ task[q].at # "upload"
OneHolds ==
  \A p, q \in Requests : Holds(p) /\ Holds(q) => p = q

\* A feature whose group is not yet written is alone in it.
Alone(f) ==
  /\ \A g \in Live : rows[g].group # f
  /\ \A q \in Requests : task[q].op \in Looping => task[q].row.group # f
Groups ==
  /\ \A f \in Live : rows[f].group = None => Alone(f)
  /\ \A q \in Requests : task[q].at = "group" /\ task[q].fid \in Live => rows[task[q].fid].group = None

\* What a request found of an epic stays true until it writes, or it is noted.
OnlyGroup(key, group) == \A f \in Live : rows[f].key = key => GroupOf(f) = group
Looked(q) ==
  ~task[q].stale =>
    /\ task[q].at = "checked" /\ task[q].row.key \in Range(Strip) => OnlyGroup(task[q].row.key, task[q].row.group)
    /\ task[q].at = "rename" /\ task[q].row \in Range(Strip) /\ task[q].fid \in Live =>
         OnlyGroup(task[q].row, GroupOf(task[q].fid))
EpicsLooked == \A q \in Requests : Looked(q)

\* The tag a version carries is that of its group, or it is noted.
Carries(q) ==
  /\ task[q].op = "version" /\ task[q].at \in {"upload", "checked"} /\ ~task[q].tagged
  /\ task[q].row.group \notin torn \union {None}
TagsCarried ==
  /\ \A q \in Requests : Carries(q) =>
       \A f \in Live : rows[f].group = task[q].row.group => rows[f].tag = task[q].row.tag
  /\ \A p, q \in Requests : Carries(p) /\ Carries(q) /\ task[p].row.group = task[q].row.group =>
       task[p].row.tag = task[q].row.tag

\* A request or a job that will still write the document of f or its index.
Writing(q, f) == task[q].fid = f /\ task[q].at \in {"group", "doc", "index"}
Fetching(f) == \E i \in ingests : i.fid = f
Pending(f) == (\E q \in Requests : Writing(q, f)) \/ Fetching(f)

\* The document is in the index, or one that will put it there is at work.
Promised(f) ==
  \/ <<f, rows[f].text>> \in chunks
  \/ \E q \in Requests : Writing(q, f) /\ (task[q].at = "doc" \/ task[q].op = "external" \/ task[q].row.text = rows[f].text)
  \/ \E q \in Requests : task[q].op = "delete" /\ task[q].at = "row" /\ task[q].fid = f
  \/ \E i \in ingests : i.fid = f /\ (i.at = "fetched" \/ i.text = rows[f].text)
Indexed == \A f \in Live \ broken : Promised(f)
Clean == \A f \in Live \ (broken \union mixed) : \A c \in chunks : c[1] = f => c[2] = rows[f].text /\ ~Pending(f)
\* What writes a document and what fetches for it do not meet, or it is noted.
Apart == \A q \in Requests : task[q].at \in {"group", "doc", "index"} /\ (task[q].fid \notin mixed \/ task[q].op # "replace")
                            => \A i \in ingests : i.fid # task[q].fid
Wrote == \A q \in Requests : task[q].at \in {"group", "index"} /\ task[q].op # "external" /\ task[q].fid \in Live \ mixed
                            => rows[task[q].fid].text = task[q].row.text
OneFetch == \A i, j \in ingests : i.fid = j.fid => i = j
Fetched == \A i \in ingests : i.at = "index" /\ i.fid \in Live \ mixed => rows[i.fid].text = i.text
Documents == Indexed /\ Clean /\ Apart /\ Wrote /\ OneFetch /\ Fetched

-----------------------------------------------------------------------------
(* The event loop is held by one *)

LEMMA Free == ASSUME Typed, LoopFree, NEW q \in Requests PROVE ~Holds(q)
BY DEF LoopFree, Using, Holds, Looping, Typed, Serving, Fits

LEMMA HoldsStay ==
  ASSUME OneHolds, \A p \in Requests : Holds(p)' => Holds(p) PROVE OneHolds'
BY DEF OneHolds

LEMMA Takes ==
  ASSUME Typed, LoopFree, NEW q \in Requests, \A p \in Requests \ {q} : task'[p] = task[p] PROVE OneHolds'
<1>1. \A p \in Requests \ {q} : ~Holds(p)'
  BY Free DEF Holds
<1>. QED
  BY <1>1 DEF OneHolds

LEMMA NextOneHolds == ASSUME Typed, OneHolds, [Next]_vars PROVE OneHolds'
<1> USE DEF Holds
<1>1. ASSUME NEW q \in Requests, NEW key \in Keys \union {None}, NEW tag \in Tags \union {None}, NEW text \in Texts,
             NEW op \in {"create", "external"}, CreateCheck(q, key, tag, text, op)
      PROVE  OneHolds'
  <2>1. LoopFree /\ Others(q)
    BY <1>1, CreateCheckIs
  <2>. QED
    BY <2>1, Takes DEF Others
<1>2. ASSUME NEW q \in Requests, NEW f \in Live, NEW key \in Keys \union {None}, NEW text \in Texts,
             NEW op \in {"version", "replace"}, VersionBegin(q, f, op, key, text)
      PROVE  OneHolds'
  BY <1>2, VersionBeginIs, HoldsStay DEF Others
<1>3. ASSUME NEW q \in Requests, VersionCheck(q) PROVE OneHolds'
  BY <1>3, VersionCheckIs, Takes DEF Others, Stops, Advances
<1>4. ASSUME NEW q \in Requests, Insert(q) PROVE OneHolds'
  BY <1>4, InsertIs, HoldsStay DEF OnlyStale
<1>5. ASSUME NEW q \in Requests, SetGroup(q) PROVE OneHolds'
  BY <1>5, SetGroupIs, HoldsStay DEF Others, Advances
<1>6. ASSUME NEW q \in Requests, Reset(q) PROVE OneHolds'
  BY <1>6, ResetIs, Takes DEF Others, Advances
<1>7. ASSUME NEW q \in Requests, UpdateDoc(q) PROVE OneHolds'
  BY <1>7, UpdateDocIs, HoldsStay DEF Others, Advances
<1>8. ASSUME NEW q \in Requests, Index(q) \/ Launch(q) \/ Fails(q) \/ DeleteRow(q) PROVE OneHolds'
  <2>1. Stops(q)
    BY <1>8, IndexIs, LaunchIs, FailsIs, DeleteRowIs
  <2>. QED
    BY <2>1, IdleFits, HoldsStay DEF Stops, Others, Looping
<1>9. ASSUME NEW q \in Requests, NEW f \in Live, DeleteBegin(q, f) PROVE OneHolds'
  BY <1>9, DeleteBeginIs, HoldsStay DEF Others, Looping
<1>10. ASSUME NEW q \in Requests, NEW f \in Live, NEW key \in Keys, RenameCheck(q, f, key) PROVE OneHolds'
  BY <1>10, RenameCheckIs, HoldsStay DEF Others, Looping
<1>11. ASSUME NEW q \in Requests, rename_feature(q) PROVE OneHolds'
  BY <1>11, RenameIs, IdleFits, HoldsStay DEF OnlyStale, Looping
<1>12. ASSUME NEW q \in Requests, DeleteChunks(q) PROVE OneHolds'
  BY <1>12, DeleteChunksIs, HoldsStay DEF Others, Advances, Looping
<1>13. ASSUME NEW i \in ingests, IngestUpdate(i) \/ IngestIndex(i) \/ IngestFails(i) PROVE OneHolds'
  BY <1>13, IngestUpdateIs, IngestIndexIs, IngestFailsIs, HoldsStay
<1>14. ASSUME NEW f \in Live, ClearKey(f) PROVE OneHolds'
  BY <1>14, ClearKeyIs, HoldsStay
<1>15. ASSUME NEW f \in Live, NEW tag \in Tags, set_feature_match_key(f, tag) PROVE OneHolds'
  BY <1>15, TagIs, HoldsStay
<1>16. CASE Crash
  BY <1>16, CrashIs, IdleFits, HoldsStay DEF Looping
<1>17. CASE UNCHANGED vars
  BY <1>17, HoldsStay DEF vars
<1>18. \A k \in Keys : Strip[k] \in Keys
  BY FeaturesAssumption
<1>. QED
  BY <1>1, <1>2, <1>3, <1>4, <1>5, <1>6, <1>7, <1>8, <1>9, <1>10, <1>11, <1>12, <1>13, <1>14, <1>15, <1>16, <1>17, <1>18 DEF Next

-----------------------------------------------------------------------------
(* A feature whose group is not written is alone in it *)

GoesOn(p) ==
  \/ /\ task'[p].op = task[p].op /\ task'[p].row = task[p].row
     /\ task'[p].at = "group" => task[p].at = "group" /\ task'[p].fid = task[p].fid
  \/ task'[p].op \notin Looping /\ task'[p].at # "group"
  \/ /\ task'[p].at # "group"
     /\ task'[p].row.group = None \/ \E g \in Live : task'[p].row.group = rows[g].group

LEMMA GroupsStay ==
  ASSUME Typed, Groups, Live' \subseteq Live, \A g \in Live' : GroupKept(g), \A p \in Requests : GoesOn(p)
  PROVE  Groups'
<1>1. ASSUME NEW f \in Live', rows'[f].group = None PROVE Alone(f)'
  <2>1. f \in Live /\ Alone(f) /\ f # None
    BY <1>1, Ids DEF Groups, GroupKept, Typed, Rows
  <2>2. \A g \in Live' : rows'[g].group # f
    BY <2>1 DEF Alone, GroupKept
  <2>3. ASSUME NEW p \in Requests, task'[p].op \in Looping PROVE task'[p].row.group # f
    BY <2>1, <2>3 DEF GoesOn, Alone
  <2>. QED
    BY <2>2, <2>3 DEF Alone
<1>2. ASSUME NEW p \in Requests, task'[p].at = "group", task'[p].fid \in Live' PROVE rows'[task'[p].fid].group = None
  <2>1. task[p].at = "group" /\ task'[p].fid = task[p].fid
    BY <1>2 DEF GoesOn
  <2>2. task[p].fid \in Live' /\ task[p].fid \in Live /\ GroupKept(task[p].fid)
    BY <1>2, <2>1
  <2>3. rows[task[p].fid].group = None
    BY <2>1, <2>2 DEF Groups
  <2>. QED
    BY <2>1, <2>2, <2>3 DEF GroupKept
<1>. QED
  BY <1>1, <1>2 DEF Groups

LEMMA NextGroups == ASSUME Typed, OneHolds, Groups, [Next]_vars PROVE Groups'
<1>0. made \in Nat /\ Rows /\ Looping = {"create", "external", "version", "replace"}
  BY DEF Typed, Looping
<1>1. ASSUME NEW q \in Requests, NEW key \in Keys \union {None}, NEW tag \in Tags \union {None}, NEW text \in Texts,
             NEW op \in {"create", "external"}, CreateCheck(q, key, tag, text, op)
      PROVE  Groups'
  BY <1>0, <1>1, CreateCheckIs, RowsStay, GroupsStay DEF Others, Calm, GoesOn, GroupKept
<1>2. ASSUME NEW q \in Requests, NEW f \in Live, NEW key \in Keys \union {None}, NEW text \in Texts,
             NEW op \in {"version", "replace"}, VersionBegin(q, f, op, key, text)
      PROVE  Groups'
  <2>1. \A p \in Requests : GoesOn(p)
    BY <1>2, VersionBeginIs DEF Others, GoesOn
  <2>. QED
    BY <1>0, <1>2, <2>1, VersionBeginIs, RowsStay, GroupsStay DEF Calm, GroupKept
<1>3. ASSUME NEW q \in Requests, VersionCheck(q) PROVE Groups'
  <2>1. \A p \in Requests : GoesOn(p)
    BY <1>0, <1>3, VersionCheckIs, IdleFits DEF Others, Stops, Advances, GoesOn
  <2>. QED
    BY <1>0, <1>3, <2>1, VersionCheckIs, RowsStay, GroupsStay DEF Calm, GroupKept
<1>4. ASSUME NEW q \in Requests, Insert(q) PROVE Groups'
  <2>1. /\ task[q].op \in Looping /\ task[q].at = "checked" /\ made' = made + 1
        /\ task'[q].at = (IF task[q].row.group = None THEN "group" ELSE "index")
        /\ task'[q].fid = made + 1 /\ task'[q].op = task[q].op /\ task'[q].row = task[q].row
        /\ \A p \in Requests \ {q} : OnlyStale(p)
        /\ rows' = [g \in Live \union {made + 1} |-> IF g = made + 1 THEN task[q].row ELSE rows[g]]
    BY <1>0, <1>4, InsertIs
  <2>2. task[q].row \in Row /\ Given(task[q].row.group, made)
    BY <2>1, Carried
  <2>3. /\ Live' = Live \union {made + 1} /\ made + 1 \notin Live
        /\ rows'[made + 1] = task[q].row /\ \A g \in Live : rows'[g] = rows[g]
    BY <1>0, <2>1, <2>2, Adds
  <2>4. \A p \in Requests : task'[p].op \in Looping => /\ task[p].op \in Looping /\ task'[p].row = task[p].row
                                                       /\ Given(task[p].row.group, made)
    BY <2>1, Carried DEF OnlyStale
  <2>5. ASSUME NEW f \in Live', rows'[f].group = None PROVE Alone(f)'
    <3>1. CASE f \in Live
      <4>1. Alone(f) /\ f # None
        BY <1>0, <2>3, <1>4, <3>1, <2>5, Ids DEF Groups, Rows
      <4>. QED
        BY <2>1, <2>3, <2>4, <4>1 DEF Alone
    <3>2. CASE f = made + 1
      <4>1. \A group : Given(group, made) => group # f
        BY <1>0, <3>2, Ids DEF Given
      <4>. QED
        BY <1>0, <2>2, <2>3, <2>4, <4>1 DEF Alone, Rows
    <3>. QED
      BY <2>3, <3>1, <3>2
  <2>6. ASSUME NEW p \in Requests, task'[p].at = "group", task'[p].fid \in Live' PROVE rows'[task'[p].fid].group = None
    <3>1. CASE p = q
      BY <2>1, <2>3, <2>6, <3>1
    <3>2. CASE p # q
      <4>1. task[p].at = "group" /\ task[p].op \in Looping
        BY <1>0, <2>1, <2>6, <3>2, Carried DEF OnlyStale
      <4>. QED
        BY <2>1, <3>2, <4>1 DEF OneHolds, Holds
    <3>. QED
      BY <3>1, <3>2
  <2>. QED
    BY <2>5, <2>6 DEF Groups
<1>5. ASSUME NEW q \in Requests, SetGroup(q) PROVE Groups'
  <2> DEFINE f == task[q].fid
  <2>1. /\ Advances(q, "index") /\ task[q].at = "group" /\ UNCHANGED made
        /\ rows' = IF f \in Live THEN [rows EXCEPT ![f].group = f] ELSE rows
    BY <1>5, SetGroupIs
  <2>2. task[q].op \in Looping /\ f \in 1 .. made /\ f # None
    BY <1>0, <2>1, Carried, Ids
  <2> HIDE DEF f
  <2>3. Live' = Live /\ \A g \in Live : rows'[g].group = IF g = f THEN f ELSE rows[g].group
    BY <1>0, <2>1, <2>2, Regroups
  <2>4. ASSUME NEW g \in Live', rows'[g].group = None PROVE Alone(g)'
    <3>1. g # f /\ Alone(g) /\ g \in Live
      BY <2>2, <2>3, <2>4 DEF Groups
    <3>. QED
      BY <2>1, <2>3, <3>1 DEF Alone, Advances, Others
  <2>5. \A p \in Requests : task'[p].at # "group"
    BY <1>0, <2>1, <2>2, Carried DEF Advances, Others, OneHolds, Holds
  <2>. QED
    BY <2>4, <2>5 DEF Groups
<1>6. ASSUME NEW q \in Requests, Reset(q) PROVE Groups'
  BY <1>0, <1>6, ResetIs, RowsStay, GroupsStay DEF Others, Advances, GoesOn, GroupKept
<1>7. ASSUME NEW q \in Requests, UpdateDoc(q) PROVE Groups'
  <2>1. task[q].row.text \in Texts
    BY <1>0, <1>7, UpdateDocIs, Carried
  <2>2. \A p \in Requests : GoesOn(p)
    BY <1>7, UpdateDocIs DEF Others, Advances, GoesOn
  <2>. QED
    BY <1>0, <1>7, <2>1, <2>2, UpdateDocIs, Rewrites, GroupsStay
<1>8. ASSUME NEW q \in Requests, Index(q) \/ Launch(q) \/ Fails(q) PROVE Groups'
  <2>1. Stops(q) /\ UNCHANGED <<rows, made>>
    BY <1>8, IndexIs, LaunchIs, FailsIs DEF Calm
  <2>. QED
    BY <1>0, <2>1, IdleFits, RowsStay, GroupsStay DEF Stops, Others, GoesOn, GroupKept
<1>9. ASSUME NEW q \in Requests, DeleteRow(q) PROVE Groups'
  BY <1>0, <1>9, DeleteRowIs, IdleFits, Removes, GroupsStay DEF Stops, Others, GoesOn, GroupKept
<1>10. ASSUME NEW q \in Requests, NEW f \in Live, DeleteBegin(q, f) PROVE Groups'
  BY <1>0, <1>10, DeleteBeginIs, RowsStay, GroupsStay DEF Others, Calm, GoesOn, GroupKept
<1>11. ASSUME NEW q \in Requests, NEW f \in Live, NEW key \in Keys, RenameCheck(q, f, key) PROVE Groups'
  BY <1>0, <1>11, RenameCheckIs, RowsStay, GroupsStay DEF Others, Calm, GoesOn, GroupKept
<1>12. ASSUME NEW q \in Requests, rename_feature(q) PROVE Groups'
  <2>1. \A p \in Requests : GoesOn(p)
    BY <1>0, <1>12, RenameIs, IdleFits DEF OnlyStale, GoesOn
  <2>2. Live' = Live /\ \A g \in Live : GroupKept(g)
    <3>1. CASE task[q].fid \in Live
      <4>1. task[q].row \in Keys
        BY <1>12, RenameIs, Carried DEF Fits
      <4>. QED
        BY <1>0, <1>12, <3>1, <4>1, RenameIs, Rekeys
    <3>2. CASE task[q].fid \notin Live
      BY <1>0, <1>12, <3>2, RenameIs, RowsStay DEF GroupKept
    <3>. QED
      BY <3>1, <3>2
  <2>. QED
    BY <2>1, <2>2, GroupsStay
<1>13. ASSUME NEW q \in Requests, DeleteChunks(q) PROVE Groups'
  BY <1>0, <1>13, DeleteChunksIs, RowsStay, GroupsStay DEF Others, Advances, Calm, GoesOn, GroupKept
<1>14. ASSUME NEW i \in ingests, IngestUpdate(i) PROVE Groups'
  <2>1. i.text \in Texts
    BY <1>14 DEF Typed, Written, Ingest
  <2>2. UNCHANGED <<made, task>> /\ rows' = IF i.fid \in Live THEN [rows EXCEPT ![i.fid].text = i.text] ELSE rows
    BY <1>14, IngestUpdateIs
  <2>. QED
    BY <1>0, <2>1, <2>2, Rewrites, GroupsStay DEF GoesOn
<1>15. ASSUME NEW i \in ingests, IngestIndex(i) \/ IngestFails(i) PROVE Groups'
  <2>1. UNCHANGED <<rows, made, task>>
    BY <1>15, IngestIndexIs, IngestFailsIs
  <2>. QED
    BY <1>0, <2>1, RowsStay, GroupsStay DEF GoesOn, GroupKept
<1>16. ASSUME NEW f \in Live, ClearKey(f) PROVE Groups'
  BY <1>0, <1>16, ClearKeyIs, Rekeys, GroupsStay DEF GoesOn
<1>17. ASSUME NEW f \in Live, NEW tag \in Tags, set_feature_match_key(f, tag) PROVE Groups'
  <2>1. \A p \in Requests : GoesOn(p)
    BY <1>17, TagIs DEF GoesOn
  <2>. QED
    BY <1>0, <1>17, <2>1, TagIs, Retags, GroupsStay
<1>18. CASE Crash
  <2>1. \A p \in Requests : task'[p].at # "group"
    BY <1>18, CrashIs, IdleFits
  <2>2. \A g \in Live' : rows'[g].group # None
    BY <1>0, <1>18, CrashIs, Recovers
  <2>. QED
    BY <2>1, <2>2 DEF Groups
<1>19. CASE UNCHANGED vars
  BY <1>0, <1>19, RowsStay, GroupsStay DEF vars, GoesOn, GroupKept
<1>20. \A k \in Keys : Strip[k] \in Keys
  BY FeaturesAssumption
<1>. QED
  BY <1>1, <1>2, <1>3, <1>4, <1>5, <1>6, <1>7, <1>8, <1>9, <1>10, <1>11, <1>12, <1>13, <1>14, <1>15, <1>16, <1>17, <1>18,
     <1>19, <1>20 DEF Next

-----------------------------------------------------------------------------
(* An epic is the epic of one group *)

LEMMA Stripped == None \notin Range(Strip)
BY FeaturesAssumption DEF Range

LEMMA Looking ==
  ASSUME Typed, NEW q \in Requests
  PROVE  /\ task[q].at = "checked" => task[q].op \in {"create", "external", "version"} /\ Holds(q)
         /\ task[q].at = "rename" => task[q].op = "rename" /\ task[q].row \in Keys
         /\ task[q].at \in {"checked", "rename"} => q \in Checked
<1>1. task[q].op \in Ops /\ Fits(task[q], made)
  BY Carried DEF Task
<1>. QED
  BY <1>1 DEF Ops, Looping, Fits, Holds, Checked, Using

LEMMA Grouped == ASSUME Typed, NEW f \in Live PROVE GroupOf(f) # None
BY Ids DEF Typed, Rows, Given, GroupOf

\* Features go, keep their groups and get no epic they had not.
Narrows ==
  /\ Live' \subseteq Live
  /\ \A g \in Live' : GroupOf(g)' = GroupOf(g) /\ (KeyKept(g) \/ rows'[g].key \notin Range(Strip))
Watches(p) ==
  \/ task'[p].at \notin {"checked", "rename"}
  \/ /\ task'[p].at = task[p].at /\ task'[p].row = task[p].row /\ task'[p].fid = task[p].fid
     /\ task[p].stale => task'[p].stale
  \/ Looked(p)'

LEMMA Same == ASSUME Rows, UNCHANGED <<rows, made>> PROVE Narrows
BY DEF Narrows, KeyKept, GroupOf, Live

LEMMA SameGroups ==
  ASSUME Live' \subseteq Live, \A g \in Live' : GroupKept(g) /\ (KeyKept(g) \/ rows'[g].key \notin Range(Strip)) PROVE Narrows
BY DEF Narrows, GroupKept, GroupOf

LEMMA LookedStays ==
  ASSUME Narrows, NEW p \in Requests, Looked(p), Watches(p) PROVE Looked(p)'
<1>1. CASE task'[p].at \notin {"checked", "rename"}
  BY <1>1 DEF Looked
<1>2. CASE /\ task'[p].at = task[p].at /\ task'[p].row = task[p].row /\ task'[p].fid = task[p].fid
           /\ task[p].stale => task'[p].stale
  <2>1. ASSUME ~task'[p].stale, task'[p].at = "checked", task'[p].row.key \in Range(Strip)
        PROVE  OnlyGroup(task[p].row.key, task[p].row.group)'
    <3>1. OnlyGroup(task[p].row.key, task[p].row.group)
      BY <1>2, <2>1 DEF Looked
    <3>2. task'[p].row = task[p].row
      BY <1>2
    <3>3. ASSUME NEW g \in Live', rows'[g].key = task'[p].row.key PROVE GroupOf(g)' = task'[p].row.group
      BY <2>1, <3>1, <3>2, <3>3 DEF OnlyGroup, Narrows, KeyKept
    <3>. QED
      BY <3>3 DEF OnlyGroup
  <2>2. ASSUME ~task'[p].stale, task'[p].at = "rename", task'[p].row \in Range(Strip), task'[p].fid \in Live'
        PROVE  OnlyGroup(task[p].row, GroupOf(task[p].fid))'
    <3>1. OnlyGroup(task[p].row, GroupOf(task[p].fid))
      BY <1>2, <2>2 DEF Looked, Narrows
    <3>2. PICK f \in Live' : f = task[p].fid /\ f = task'[p].fid
      BY <1>2, <2>2
    <3>3. task'[p].row = task[p].row /\ GroupOf(f)' = GroupOf(f)
      BY <1>2 DEF Narrows
    <3>4. ASSUME NEW g \in Live', rows'[g].key = task'[p].row PROVE GroupOf(g)' = GroupOf(f)'
      BY <2>2, <3>1, <3>2, <3>3, <3>4 DEF OnlyGroup, Narrows, KeyKept
    <3>5. OnlyGroup(task[p].row, GroupOf(f))'
      BY <3>4 DEF OnlyGroup
    <3>. QED
      BY <3>2, <3>5 DEF OnlyGroup, GroupOf
  <2>. QED
    BY <2>1, <2>2 DEF Looked
<1>. QED
  BY <1>1, <1>2 DEF Watches

Epics == EpicsLooked /\ EpicOneGroup

LEMMA EpicsStay ==
  ASSUME Epics, Narrows, UNCHANGED raced, \A p \in Requests : Watches(p) PROVE Epics'
<1>1. EpicsLooked'
  BY LookedStays DEF Epics, EpicsLooked
<1>2. EpicOneGroup'
  BY DEF Epics, EpicOneGroup, Narrows, KeyKept
<1>. QED
  BY <1>1, <1>2 DEF Epics

LEMMA NextEpics == ASSUME Typed, OneHolds, Groups, Epics, [Next]_vars PROVE Epics'
<1>0. made \in Nat /\ Rows
  BY DEF Typed
<1>1. ASSUME NEW q \in Requests, NEW key \in Keys \union {None}, NEW tag \in Tags \union {None}, NEW text \in Texts,
             NEW op \in {"create", "external"}, CreateCheck(q, key, tag, text, op)
      PROVE  Epics'
  <2>1. /\ Others(q) /\ Calm /\ ~Bound(key, None)
        /\ task'[q].at = "checked" /\ task'[q].row.key = key /\ task'[q].row.group = None
    BY <1>1, CreateCheckIs
  <2>2. ASSUME key \in Range(Strip), NEW f \in Live PROVE rows[f].key # key
    <3>1. epic_bound_group(key, None) = {}
      BY <2>1, <2>2, Stripped DEF Bound
    <3>. QED
      BY <3>1, Grouped DEF epic_bound_group
  <2>3. Live' = Live /\ UNCHANGED rows
    BY <1>0, <2>1, RowsStay DEF Calm
  <2>4. task'[q].row.key \in Range(Strip) => OnlyGroup(task'[q].row.key, task'[q].row.group)
    BY <2>1, <2>2 DEF OnlyGroup
  <2>5. Looked(q)'
    BY <2>1, <2>3, <2>4 DEF Looked, OnlyGroup, GroupOf
  <2>. QED
    BY <1>0, <2>1, <2>5, Same, EpicsStay DEF Watches, Others, Calm
<1>2. ASSUME NEW q \in Requests, NEW f \in Live, NEW key \in Keys \union {None}, NEW text \in Texts,
             NEW op \in {"version", "replace"}, VersionBegin(q, f, op, key, text)
      PROVE  Epics'
  <2>1. Others(q) /\ Calm /\ task'[q].at = "upload"
    BY <1>2, VersionBeginIs
  <2>. QED
    BY <1>0, <2>1, Same, EpicsStay DEF Watches, Others, Calm
<1>3. ASSUME NEW q \in Requests, VersionCheck(q) PROVE Epics'
  <2>1. Calm /\ task[q].op = "version"
    BY <1>3, VersionCheckIs
  <2>2. CASE Stops(q)
    BY <1>0, <2>1, <2>2, IdleFits, Same, EpicsStay DEF Stops, Watches, Others, Calm
  <2>3. CASE Advances(q, "checked") /\ ~Bound(task[q].row.key, task[q].row.group)
    <3> DEFINE key == task[q].row.key
               group == task[q].row.group
    <3>1. ASSUME key \in Range(Strip), NEW f \in Live, rows[f].key = key PROVE GroupOf(f) = group
      <4>1. epic_bound_group(key, group) = {}
        BY <2>3, <3>1, Stripped DEF Bound
      <4>. QED
        BY <3>1, <4>1 DEF epic_bound_group
    <3>2. key \in Range(Strip) => OnlyGroup(key, group)
      BY <3>1 DEF OnlyGroup
    <3>3. task'[q].row = task[q].row /\ task'[q].at = "checked"
      BY <2>3 DEF Advances
    <3>4. UNCHANGED rows
      BY <2>1 DEF Calm
    <3>5. Looked(q)'
      BY <3>2, <3>3, <3>4 DEF Looked, OnlyGroup, GroupOf, Live
    <3>. QED
      BY <1>0, <2>1, <2>3, <3>5, Same, EpicsStay DEF Watches, Advances, Others, Calm
  <2>. QED
    BY <1>3, <2>2, <2>3, VersionCheckIs
<1>4. ASSUME NEW q \in Requests, Insert(q) PROVE Epics'
  <2> DEFINE row == task[q].row
  <2>0. PICK n \in Nat : n = made + 1
    BY <1>0
  <2>1. /\ task[q].at = "checked" /\ task[q].op \in Looping
        /\ made' = n /\ raced' = (raced \/ (task[q].stale /\ row.key # None))
        /\ rows' = [g \in Live \union {n} |-> IF g = n THEN row ELSE rows[g]]
        /\ task'[q].at \in {"group", "index"}
        /\ \A p \in Requests \ {q} : OnlyStale(p) /\ (p \in Checked /\ task[p].op = "rename" => task'[p].stale)
    BY <1>4, <2>0, InsertIs, ZenonT(30) DEF Looping
  <2>2. row \in Row /\ Given(row.group, made)
    BY <2>1, Carried
  <2>3. Live' = Live \union {n} /\ n \notin Live /\ rows'[n] = row /\ \A g \in Live : rows'[g] = rows[g]
    BY <1>0, <2>0, <2>1, <2>2, Adds
  <2>4. ASSUME NEW p \in Requests PROVE Looked(p)'
    <3>1. CASE p = q
      BY <2>1, <3>1 DEF Looked
    <3>2. CASE p # q /\ task'[p].at = "checked"
      BY <2>1, <3>2, Looking DEF OneHolds, OnlyStale
    <3>3. CASE p # q /\ task'[p].at = "rename"
      BY <2>1, <3>3, Looking DEF OnlyStale, Looked
    <3>4. CASE task'[p].at \notin {"checked", "rename"}
      BY <3>4 DEF Looked
    <3>. QED
      BY <3>1, <3>2, <3>3, <3>4
  <2>5. ASSUME ~raced', NEW g \in Live, rows[g].key = row.key, row.key \in Range(Strip)
        PROVE  GroupOf(g) = row.group /\ row.group # None
    <3>1. OnlyGroup(row.key, row.group)
      BY <2>1, <2>5, Stripped DEF Epics, EpicsLooked, Looked
    <3>2. GroupOf(g) = row.group
      BY <2>5, <3>1 DEF OnlyGroup
    <3>. QED
      BY <3>2, Grouped
  <2>6. \A g \in Live : GroupOf(g)' = GroupOf(g)
    BY <2>3 DEF GroupOf
  <2>7. row.group # None => GroupOf(n)' = row.group
    BY <2>3 DEF GroupOf
  <2>8. ASSUME ~raced', NEW f \in Live', NEW g \in Live', rows'[f].key \in Range(Strip), rows'[f].key = rows'[g].key
        PROVE  GroupOf(f)' = GroupOf(g)'
    <3>1. CASE f \in Live /\ g \in Live
      BY <2>1, <2>3, <2>6, <2>8, <3>1, ZenonT(30) DEF Epics, EpicOneGroup
    <3>2. CASE f = n /\ g \in Live
      BY <2>3, <2>5, <2>6, <2>7, <2>8, <3>2
    <3>3. CASE g = n /\ f \in Live
      BY <2>3, <2>5, <2>6, <2>7, <2>8, <3>3
    <3>4. CASE f = n /\ g = n
      BY <3>4
    <3>. QED
      BY <2>3, <3>1, <3>2, <3>3, <3>4
  <2>. QED
    BY <2>4, <2>8 DEF Epics, EpicsLooked, EpicOneGroup
<1>5. ASSUME NEW q \in Requests, SetGroup(q) PROVE Epics'
  <2> DEFINE f == task[q].fid
  <2>1. /\ Advances(q, "index") /\ task[q].at = "group" /\ UNCHANGED <<made, raced>>
        /\ rows' = IF f \in Live THEN [rows EXCEPT ![f].group = f] ELSE rows
    BY <1>5, SetGroupIs
  <2>2. f \in 1 .. made /\ f # None /\ (f \in Live => rows[f].group = None)
    BY <1>0, <2>1, Carried, Ids DEF Groups
  <2> HIDE DEF f
  <2>3. Live' = Live /\ \A g \in Live : KeyKept(g) /\ rows'[g].group = IF g = f THEN f ELSE rows[g].group
    BY <1>0, <2>1, <2>2, Regroups
  <2>4. Narrows
    BY <2>2, <2>3 DEF Narrows, GroupOf
  <2>. QED
    BY <2>1, <2>4, EpicsStay DEF Watches, Advances, Others
<1>6. ASSUME NEW q \in Requests, Reset(q) PROVE Epics'
  BY <1>0, <1>6, ResetIs, Same, EpicsStay DEF Watches, Others, Advances
<1>7. ASSUME NEW q \in Requests, UpdateDoc(q) PROVE Epics'
  <2>1. task[q].row.text \in Texts
    BY <1>7, UpdateDocIs, Carried DEF Looping
  <2>2. \A p \in Requests : Watches(p)
    BY <1>7, UpdateDocIs DEF Others, Advances, Watches
  <2>. QED
    BY <1>0, <1>7, <2>1, <2>2, UpdateDocIs, Rewrites, SameGroups, EpicsStay
<1>8. ASSUME NEW q \in Requests, Index(q) \/ Launch(q) \/ Fails(q) PROVE Epics'
  <2>1. Stops(q) /\ UNCHANGED <<rows, made, raced>>
    BY <1>8, IndexIs, LaunchIs, FailsIs DEF Calm
  <2>. QED
    BY <1>0, <2>1, IdleFits, Same, EpicsStay DEF Stops, Others, Watches
<1>9. ASSUME NEW q \in Requests, DeleteRow(q) PROVE Epics'
  <2>1. Stops(q) /\ UNCHANGED <<made, raced>> /\ rows' = [g \in Live \ {task[q].fid} |-> rows[g]]
    BY <1>9, DeleteRowIs
  <2>2. Live' \subseteq Live /\ \A g \in Live' : KeyKept(g) /\ GroupKept(g)
    BY <1>0, <2>1, Removes DEF KeyKept, GroupKept
  <2>. QED
    BY <2>1, <2>2, IdleFits, SameGroups, EpicsStay DEF Stops, Others, Watches
<1>10. ASSUME NEW q \in Requests, NEW f \in Live, DeleteBegin(q, f) PROVE Epics'
  BY <1>0, <1>10, DeleteBeginIs, Same, EpicsStay DEF Others, Calm, Watches
<1>11. ASSUME NEW q \in Requests, NEW f \in Live, NEW key \in Keys, RenameCheck(q, f, key) PROVE Epics'
  <2>1. /\ Others(q) /\ Calm /\ ~Bound(Strip[key], rows[f].group)
        /\ task'[q].at = "rename" /\ task'[q].fid = f /\ task'[q].row = key
    BY <1>11, RenameCheckIs
  <2>2. UNCHANGED rows
    BY <2>1 DEF Calm
  <2>3. ASSUME key \in Range(Strip), NEW g \in Live, rows[g].key = key PROVE GroupOf(g) = GroupOf(f)
    <3>1. Strip[key] = key /\ key # None
      BY <2>3, FeaturesAssumption DEF Range
    <3>2. epic_bound_group(key, rows[f].group) = {}
      BY <2>1, <3>1 DEF Bound
    <3>3. GroupOf(g) = rows[f].group
      BY <2>3, <3>2 DEF epic_bound_group
    <3>. QED
      BY <3>3, Grouped DEF GroupOf
  <2>4. key \in Range(Strip) => OnlyGroup(key, GroupOf(f))
    BY <2>3 DEF OnlyGroup
  <2>5. Looked(q)'
    BY <2>1, <2>2, <2>4 DEF Looked, OnlyGroup, GroupOf, Live
  <2>. QED
    BY <1>0, <2>1, <2>5, Same, EpicsStay DEF Watches, Others, Calm
<1>12. ASSUME NEW q \in Requests, rename_feature(q) PROVE Epics'
  <2> DEFINE f == task[q].fid
             key == task[q].row
  <2>1. /\ UNCHANGED made /\ task[q].op = "rename" /\ task'[q] = Idle
        /\ \A p \in Requests \ {q} : OnlyStale(p) /\ (p \in Checked => task'[p].stale)
    BY <1>12, RenameIs
  <2>2. \A p \in Requests : Looked(p)'
    <3>1. ASSUME NEW p \in Requests PROVE Looked(p)'
      <4>1. CASE p = q
        BY <2>1, <4>1, IdleFits DEF Looked
      <4>2. CASE p # q /\ task'[p].at \in {"checked", "rename"}
        BY <2>1, <4>2, Looking DEF OnlyStale, Looked
      <4>3. CASE task'[p].at \notin {"checked", "rename"}
        BY <4>3 DEF Looked
      <4>. QED
        BY <4>1, <4>2, <4>3
    <3>. QED
      BY <3>1
  <2>3. CASE f \notin Live
    BY <1>0, <1>12, <2>2, <2>3, RenameIs, Same, EpicsStay, <2>1 DEF Watches
  <2>4. CASE f \in Live
    <3>1. key \in Keys /\ key # None /\ task[q].at = "rename"
      BY <2>1, Carried, Ids DEF Fits
    <3>2. /\ raced' = (raced \/ task[q].stale)
          /\ rows' = [rows EXCEPT ![f].key = key]
      BY <1>12, <2>4, <3>1, RenameIs
    <3>3. /\ Live' = Live
          /\ \A g \in Live : GroupKept(g) /\ rows'[g].key = IF g = f THEN key ELSE rows[g].key
      <4> HIDE DEF f, key
      <4>. QED
        BY <1>0, <2>1, <2>4, <3>1, <3>2, Rekeys, ZenonT(30)
    <3>4. \A g \in Live : GroupOf(g)' = GroupOf(g)
      BY <3>3 DEF GroupKept, GroupOf
    <3>5. ASSUME ~raced', NEW g \in Live, rows[g].key = key, key \in Range(Strip) PROVE GroupOf(g) = GroupOf(f)
      <4>1. OnlyGroup(key, GroupOf(f))
        BY <2>4, <3>1, <3>2, <3>5 DEF Epics, EpicsLooked, Looked
      <4>. QED
        BY <3>5, <4>1 DEF OnlyGroup
    <3>6. ASSUME ~raced', NEW g \in Live', NEW h \in Live', rows'[g].key \in Range(Strip), rows'[g].key = rows'[h].key
          PROVE  GroupOf(g)' = GroupOf(h)'
      <4> HIDE DEF f, key
      <4>1. CASE g # f /\ h # f
        <5>1. ~raced /\ rows[g].key \in Range(Strip) /\ rows[g].key = rows[h].key /\ g \in Live /\ h \in Live
          BY <3>2, <3>3, <3>6, <4>1
        <5>2. GroupOf(g) = GroupOf(h)
          BY <5>1 DEF Epics, EpicOneGroup
        <5>. QED
          BY <3>4, <5>1, <5>2
      <4>2. CASE g = f /\ h # f
        BY <3>3, <3>4, <3>5, <3>6, <4>2
      <4>3. CASE g # f /\ h = f
        BY <3>3, <3>4, <3>5, <3>6, <4>3
      <4>4. CASE g = f /\ h = f
        BY <4>4
      <4>. QED
        BY <4>1, <4>2, <4>3, <4>4
    <3>. QED
      BY <2>2, <3>6 DEF Epics, EpicsLooked, EpicOneGroup
  <2>. QED
    BY <2>3, <2>4
<1>13. ASSUME NEW q \in Requests, DeleteChunks(q) PROVE Epics'
  BY <1>0, <1>13, DeleteChunksIs, Same, EpicsStay DEF Others, Advances, Calm, Watches
<1>14. ASSUME NEW i \in ingests, IngestUpdate(i) PROVE Epics'
  <2>1. i.text \in Texts
    BY <1>14 DEF Typed, Written, Ingest
  <2>2. UNCHANGED <<made, task, raced>> /\ rows' = IF i.fid \in Live THEN [rows EXCEPT ![i.fid].text = i.text] ELSE rows
    BY <1>14, IngestUpdateIs
  <2>. QED
    BY <1>0, <2>1, <2>2, Rewrites, SameGroups, EpicsStay DEF Watches
<1>15. ASSUME NEW i \in ingests, IngestIndex(i) \/ IngestFails(i) PROVE Epics'
  <2>1. UNCHANGED <<rows, made, task, raced>>
    BY <1>15, IngestIndexIs, IngestFailsIs
  <2>. QED
    BY <1>0, <2>1, Same, EpicsStay DEF Watches
<1>16. ASSUME NEW f \in Live, ClearKey(f) PROVE Epics'
  <2>1. UNCHANGED <<made, task, raced>> /\ rows' = [rows EXCEPT ![f].key = None]
    BY <1>16, ClearKeyIs
  <2>2. Live' = Live /\ \A g \in Live : GroupKept(g) /\ rows'[g].key = IF g = f THEN None ELSE rows[g].key
    <3>1. None \in Keys \union {None}
      OBVIOUS
    <3> DEFINE key == None
    <3> HIDE DEF key
    <3>2. rows' = [rows EXCEPT ![f].key = key] /\ key \in Keys \union {None}
      BY <2>1, <3>1 DEF key
    <3>3. Live' = Live /\ \A g \in Live : GroupKept(g) /\ rows'[g].key = IF g = f THEN key ELSE rows[g].key
      BY <1>0, <2>1, <3>2, Rekeys
    <3>. QED
      BY <3>3 DEF key
  <2>3. Narrows
    BY <2>2, Stripped, SameGroups DEF KeyKept
  <2>. QED
    BY <2>1, <2>3, EpicsStay DEF Watches
<1>17. ASSUME NEW f \in Live, NEW tag \in Tags, set_feature_match_key(f, tag) PROVE Epics'
  <2>1. \A p \in Requests : Watches(p)
    BY <1>17, TagIs DEF Watches
  <2>. QED
    BY <1>0, <1>17, <2>1, TagIs, Retags, SameGroups, EpicsStay
<1>18. CASE Crash
  <2>1. \A p \in Requests : Watches(p)
    BY <1>18, CrashIs, IdleFits DEF Watches
  <2>2. Live' = Live /\ \A g \in Live : KeyKept(g) /\ rows'[g].group = GroupOf(g) /\ GroupOf(g) # None
    BY <1>0, <1>18, CrashIs, Recovers
  <2>3. Narrows
    BY <2>2 DEF Narrows, GroupOf
  <2>. QED
    BY <1>18, <2>1, <2>3, CrashIs, EpicsStay
<1>19. CASE UNCHANGED vars
  BY <1>0, <1>19, Same, EpicsStay DEF vars, history, Watches
<1>20. \A k \in Keys : Strip[k] \in Keys
  BY FeaturesAssumption
<1>. QED
  BY <1>1, <1>2, <1>3, <1>4, <1>5, <1>6, <1>7, <1>8, <1>9, <1>10, <1>11, <1>12, <1>13, <1>14, <1>15, <1>16, <1>17, <1>18,
     <1>19, <1>20 DEF Next

-----------------------------------------------------------------------------
(* The tag is that of every version *)

TagsShared == TagsCarried /\ TagShared
StillCarries(p) == Carries(p)' => Carries(p) /\ task'[p].row = task[p].row

LEMMA TagsStay ==
  ASSUME TagsShared, Live' \subseteq Live, \A g \in Live' : GroupKept(g) /\ TagKeptOf(g), UNCHANGED torn,
         \A p \in Requests : StillCarries(p)
  PROVE  TagsShared'
<1>1. ASSUME NEW p \in Requests, Carries(p)', NEW f \in Live', rows'[f].group = task'[p].row.group
      PROVE  rows'[f].tag = task'[p].row.tag
  BY <1>1 DEF TagsShared, TagsCarried, GroupKept, TagKeptOf, StillCarries
<1>2. ASSUME NEW p \in Requests, NEW q \in Requests, Carries(p)', Carries(q)', task'[p].row.group = task'[q].row.group
      PROVE  task'[p].row.tag = task'[q].row.tag
  BY <1>2 DEF TagsShared, TagsCarried, StillCarries
<1>3. TagShared'
  BY DEF TagsShared, TagShared, GroupKept, TagKeptOf
<1>. QED
  BY <1>1, <1>2, <1>3 DEF TagsShared, TagsCarried

LEMMA CarriesOn ==
  ASSUME NEW p \in Requests, UNCHANGED torn,
         \/ task'[p].op # "version"
         \/ task'[p].at \notin {"upload", "checked"}
         \/ /\ task'[p].op = task[p].op /\ task[p].at \in {"upload", "checked"} /\ task'[p].row = task[p].row
            /\ task'[p].tagged = task[p].tagged
  PROVE  StillCarries(p)
BY DEF StillCarries, Carries

LEMMA NextTags == ASSUME Typed, OneHolds, Groups, TagsShared, [Next]_vars PROVE TagsShared'
<1>0. made \in Nat /\ Rows /\ Looping = {"create", "external", "version", "replace"}
  BY DEF Typed, Looping
<1>a. \A p \in Requests : task'[p] = task[p] /\ UNCHANGED torn => StillCarries(p)
  BY DEF StillCarries, Carries
<1>b. ASSUME UNCHANGED <<rows, made>> PROVE Live' = Live /\ \A g \in Live : GroupKept(g) /\ TagKeptOf(g)
  BY <1>0, <1>b, RowsStay DEF GroupKept, TagKeptOf
<1>1. ASSUME NEW q \in Requests, NEW key \in Keys \union {None}, NEW tag \in Tags \union {None}, NEW text \in Texts,
             NEW op \in {"create", "external"}, CreateCheck(q, key, tag, text, op)
      PROVE  TagsShared'
  <2>1. Others(q) /\ Calm /\ task'[q].op # "version"
    BY <1>1, CreateCheckIs
  <2>. QED
    BY <1>a, <1>b, <2>1, CarriesOn, TagsStay DEF Others, Calm
<1>2. ASSUME NEW q \in Requests, NEW f \in Live, NEW key \in Keys \union {None}, NEW text \in Texts,
             NEW op \in {"version", "replace"}, VersionBegin(q, f, op, key, text)
      PROVE  TagsShared'
  <2>1. Others(q) /\ Calm /\ task'[q].row.group = rows[f].group /\ task'[q].row.tag = rows[f].tag
    BY <1>2, VersionBeginIs
  <2>2. UNCHANGED <<rows, torn>> /\ Live' = Live
    BY <1>0, <2>1, RowsStay DEF Calm
  <2>3. \A p \in Requests \ {q} : Carries(p)' => Carries(p) /\ task'[p].row = task[p].row
    BY <1>a, <2>1, <2>2 DEF Others, StillCarries
  <2>4. ASSUME Carries(q)' PROVE rows[f].group \notin torn \union {None}
    BY <2>1, <2>2, <2>4 DEF Carries
  <2>5. ASSUME NEW p \in Requests, Carries(p)', NEW g \in Live, rows[g].group = task'[p].row.group
        PROVE  rows[g].tag = task'[p].row.tag
    <3>1. CASE p = q
      BY <2>1, <2>4, <2>5, <3>1 DEF TagsShared, TagShared
    <3>2. CASE p # q
      BY <2>3, <2>5, <3>2 DEF TagsShared, TagsCarried
    <3>. QED
      BY <3>1, <3>2
  <2>6. ASSUME NEW p \in Requests, NEW r \in Requests, Carries(p)', Carries(r)', task'[p].row.group = task'[r].row.group
        PROVE  task'[p].row.tag = task'[r].row.tag
    <3>1. CASE p = q \/ r = q
      BY <2>1, <2>5, <2>6, <3>1
    <3>2. CASE p # q /\ r # q
      BY <2>3, <2>6, <3>2 DEF TagsShared, TagsCarried
    <3>. QED
      BY <3>1, <3>2
  <2>7. TagsCarried'
    BY <2>2, <2>5, <2>6 DEF TagsCarried
  <2>8. TagShared'
    BY <2>2 DEF TagsShared, TagShared
  <2>. QED
    BY <2>7, <2>8 DEF TagsShared
<1>3. ASSUME NEW q \in Requests, VersionCheck(q) PROVE TagsShared'
  <2>1. Calm /\ task[q].at = "upload" /\ Others(q) /\ (task'[q] = Idle \/ Advances(q, "checked"))
    BY <1>3, VersionCheckIs DEF Stops, Advances
  <2>2. StillCarries(q)
    BY <2>1, IdleFits, CarriesOn DEF Advances, Calm
  <2>. QED
    BY <1>a, <1>b, <2>1, <2>2, TagsStay DEF Others, Calm
<1>4. ASSUME NEW q \in Requests, Insert(q) PROVE TagsShared'
  <2> DEFINE row == task[q].row
  <2>0. PICK n \in Nat : n = made + 1
    BY <1>0
  <2>1. /\ task[q].at = "checked" /\ task[q].op \in {"create", "external", "version"} /\ made' = n
        /\ rows' = [g \in Live \union {n} |-> IF g = n THEN row ELSE rows[g]]
        /\ task'[q].at \in {"group", "index"}
        /\ torn' = IF task[q].tagged THEN torn \union {row.group} ELSE torn
        /\ \A p \in Requests \ {q} : OnlyStale(p)
    BY <1>4, <2>0, InsertIs, ZenonT(30)
  <2>2. row \in Row /\ Given(row.group, made) /\ Fits(task[q], made)
    BY <1>0, <2>1, Carried
  <2>3. Live' = Live \union {n} /\ n \notin Live /\ rows'[n] = row /\ \A g \in Live : rows'[g] = rows[g]
    BY <1>0, <2>0, <2>1, <2>2, Adds
  <2>4. ASSUME row.group \notin torn' \union {None} PROVE Carries(q)
    BY <2>1, <2>2, <2>4 DEF Carries, Fits
  <2>5. \A p \in Requests : Carries(p)' => p # q /\ Carries(p) /\ task'[p].row = task[p].row
    BY <2>1 DEF Carries, OnlyStale
  <2>6. ASSUME NEW p \in Requests, Carries(p)', NEW f \in Live', rows'[f].group = task'[p].row.group
        PROVE  rows'[f].tag = task'[p].row.tag
    <3>1. CASE f = n
      <4>1. row.group \notin torn' \union {None}
        BY <2>3, <2>6, <3>1 DEF Carries
      <4>. QED
        BY <2>3, <2>4, <2>5, <2>6, <3>1, <4>1 DEF TagsShared, TagsCarried
    <3>2. CASE f \in Live
      BY <2>3, <2>5, <2>6, <3>2 DEF TagsShared, TagsCarried
    <3>. QED
      BY <2>3, <3>1, <3>2
  <2>7. ASSUME NEW p \in Requests, NEW r \in Requests, Carries(p)', Carries(r)', task'[p].row.group = task'[r].row.group
        PROVE  task'[p].row.tag = task'[r].row.tag
    BY <2>5, <2>7 DEF TagsShared, TagsCarried
  <2>8. ASSUME NEW f \in Live', NEW g \in Live', rows'[f].group = rows'[g].group, rows'[f].group \notin torn' \union {None}
        PROVE  rows'[f].tag = rows'[g].tag
    <3>1. \A h \in Live : rows[h].group = row.group /\ row.group \notin torn' \union {None} => rows[h].tag = row.tag
      BY <2>4 DEF TagsShared, TagsCarried
    <3>2. torn \subseteq torn'
      BY <2>1
    <3>3. CASE f \in Live /\ g \in Live
      BY <2>3, <2>8, <3>2, <3>3 DEF TagsShared, TagShared
    <3>4. CASE f = n \/ g = n
      BY <2>3, <2>8, <3>1, <3>4
    <3>. QED
      BY <2>3, <3>3, <3>4
  <2>9. TagsCarried'
    BY <2>6, <2>7 DEF TagsCarried
  <2>. QED
    BY <2>8, <2>9 DEF TagsShared, TagShared
<1>5. ASSUME NEW q \in Requests, SetGroup(q) PROVE TagsShared'
  <2>1. PICK f \in 1 .. made : f = task[q].fid /\ f # None
    BY <1>0, <1>5, SetGroupIs, Carried, Ids
  <2>2. /\ Advances(q, "index") /\ task[q].at = "group" /\ UNCHANGED <<made, torn>>
        /\ rows' = IF f \in Live THEN [rows EXCEPT ![f].group = f] ELSE rows
    BY <1>5, <2>1, SetGroupIs
  <2>3. /\ Live' = Live
        /\ \A g \in Live : TagKeptOf(g) /\ rows'[g].group = IF g = f THEN f ELSE rows[g].group
    BY <1>0, <2>2, Regroups
  <2>4. \A p \in Requests : StillCarries(p)
    BY <1>a, <2>2, CarriesOn DEF Advances, Others
  <2>5. CASE f \notin Live
    BY <2>2, <2>3, <2>4, <2>5, TagsStay DEF GroupKept
  <2>6. CASE f \in Live
    <3>1. Alone(f)
      BY <2>1, <2>2, <2>6 DEF Groups
    <3>2. \A p \in Requests : Carries(p) => task[p].row.group # f
      BY <1>0, <3>1 DEF Alone, Carries
    <3>3. ASSUME NEW p \in Requests, Carries(p)', NEW g \in Live', rows'[g].group = task'[p].row.group
          PROVE  rows'[g].tag = task'[p].row.tag
      BY <2>3, <2>4, <3>2, <3>3 DEF StillCarries, TagsShared, TagsCarried, TagKeptOf
    <3>4. ASSUME NEW p \in Requests, NEW r \in Requests, Carries(p)', Carries(r)', task'[p].row.group = task'[r].row.group
          PROVE  task'[p].row.tag = task'[r].row.tag
      BY <2>4, <3>4 DEF StillCarries, TagsShared, TagsCarried
    <3>5. ASSUME NEW g \in Live', NEW h \in Live', rows'[g].group = rows'[h].group, rows'[g].group \notin torn' \union {None}
          PROVE  rows'[g].tag = rows'[h].tag
      <4>1. CASE g = f \/ h = f
        BY <2>3, <3>1, <3>5, <4>1 DEF Alone
      <4>2. CASE g # f /\ h # f
        BY <2>2, <2>3, <3>5, <4>2 DEF TagsShared, TagShared, TagKeptOf
      <4>. QED
        BY <4>1, <4>2
    <3>. QED
      BY <3>3, <3>4, <3>5 DEF TagsShared, TagsCarried, TagShared
  <2>. QED
    BY <2>5, <2>6
<1>6. ASSUME NEW q \in Requests, Reset(q) PROVE TagsShared'
  <2>1. Advances(q, "doc") /\ UNCHANGED <<rows, made, torn>>
    BY <1>6, ResetIs
  <2>. QED
    BY <1>a, <1>b, <2>1, CarriesOn, TagsStay DEF Others, Advances
<1>7. ASSUME NEW q \in Requests, UpdateDoc(q) PROVE TagsShared'
  <2>1. task[q].row.text \in Texts
    BY <1>0, <1>7, UpdateDocIs, Carried
  <2>2. Advances(q, "index") /\ UNCHANGED torn
    BY <1>7, UpdateDocIs
  <2>3. \A p \in Requests : StillCarries(p)
    BY <1>a, <2>2, CarriesOn DEF Others, Advances
  <2>. QED
    BY <1>0, <1>7, <2>1, <2>2, <2>3, UpdateDocIs, Rewrites, TagsStay
<1>8. ASSUME NEW q \in Requests, Index(q) \/ Launch(q) \/ Fails(q) PROVE TagsShared'
  <2>1. Stops(q) /\ UNCHANGED <<rows, made, torn>>
    BY <1>8, IndexIs, LaunchIs, FailsIs DEF Calm
  <2>. QED
    BY <1>a, <1>b, <2>1, IdleFits, CarriesOn, TagsStay DEF Stops, Others
<1>9. ASSUME NEW q \in Requests, DeleteRow(q) PROVE TagsShared'
  <2>1. Stops(q) /\ UNCHANGED <<made, torn>> /\ rows' = [g \in Live \ {task[q].fid} |-> rows[g]]
    BY <1>9, DeleteRowIs
  <2>2. Live' \subseteq Live /\ \A g \in Live' : TagKeptOf(g) /\ GroupKept(g)
    BY <1>0, <2>1, Removes DEF TagKeptOf, GroupKept
  <2>. QED
    BY <1>a, <2>1, <2>2, IdleFits, CarriesOn, TagsStay DEF Stops, Others
<1>10. ASSUME NEW q \in Requests, NEW f \in Live, DeleteBegin(q, f) PROVE TagsShared'
  BY <1>a, <1>b, <1>10, DeleteBeginIs, CarriesOn, TagsStay DEF Others, Calm
<1>11. ASSUME NEW q \in Requests, NEW f \in Live, NEW key \in Keys, RenameCheck(q, f, key) PROVE TagsShared'
  BY <1>a, <1>b, <1>11, RenameCheckIs, CarriesOn, TagsStay DEF Others, Calm
<1>12. ASSUME NEW q \in Requests, rename_feature(q) PROVE TagsShared'
  <2>1. \A p \in Requests : StillCarries(p)
    <3>1. /\ UNCHANGED torn /\ task'[q].op # "version"
          /\ \A p \in Requests \ {q} : OnlyStale(p)
      BY <1>12, RenameIs, IdleFits
    <3>. QED
      BY <3>1, CarriesOn DEF OnlyStale
  <2>2. Live' = Live /\ \A g \in Live : GroupKept(g) /\ TagKeptOf(g)
    <3>1. CASE task[q].fid \in Live
      <4>1. task[q].row \in Keys
        BY <1>12, RenameIs, Carried DEF Fits
      <4>. QED
        BY <1>0, <1>12, <3>1, <4>1, RenameIs, Rekeys
    <3>2. CASE task[q].fid \notin Live
      BY <1>b, <1>12, <3>2, RenameIs
    <3>. QED
      BY <3>1, <3>2
  <2>. QED
    BY <1>12, <2>1, <2>2, RenameIs, TagsStay
<1>13. ASSUME NEW q \in Requests, DeleteChunks(q) PROVE TagsShared'
  <2>1. Advances(q, "row") /\ Calm
    BY <1>13, DeleteChunksIs
  <2>. QED
    BY <1>a, <1>b, <2>1, CarriesOn, TagsStay DEF Others, Advances, Calm
<1>14. ASSUME NEW i \in ingests, IngestUpdate(i) PROVE TagsShared'
  <2>1. i.text \in Texts
    BY <1>14 DEF Typed, Written, Ingest
  <2>2. UNCHANGED <<made, task, torn>> /\ rows' = IF i.fid \in Live THEN [rows EXCEPT ![i.fid].text = i.text] ELSE rows
    BY <1>14, IngestUpdateIs
  <2>. QED
    BY <1>0, <1>a, <2>1, <2>2, Rewrites, TagsStay
<1>15. ASSUME NEW i \in ingests, IngestIndex(i) \/ IngestFails(i) PROVE TagsShared'
  <2>1. UNCHANGED <<rows, made, task, torn>>
    BY <1>15, IngestIndexIs, IngestFailsIs
  <2>. QED
    BY <1>a, <1>b, <2>1, TagsStay
<1>16. ASSUME NEW f \in Live, ClearKey(f) PROVE TagsShared'
  BY <1>0, <1>a, <1>16, ClearKeyIs, Rekeys, TagsStay
<1>17. ASSUME NEW f \in Live, NEW tag \in Tags, set_feature_match_key(f, tag) PROVE TagsShared'
  <2>1. /\ torn' = torn \ {rows[f].group}
        /\ \A p \in Requests :
             /\ task'[p].op = task[p].op /\ task'[p].at = task[p].at /\ task'[p].row = task[p].row
             /\ task'[p].tagged = (task[p].tagged \/ (task[p].op = "version" /\ task[p].at \in {"upload", "checked"}
                                                      /\ task[p].row.group = rows[f].group))
    BY <1>17, TagIs
  <2>2. /\ Live' = Live
        /\ \A g \in Live : /\ GroupKept(g)
                          /\ rows'[g].tag = IF rows[g].group = rows[f].group THEN tag ELSE rows[g].tag
    BY <1>0, <1>17, TagIs, Retags
  <2>3. \A p \in Requests : Carries(p)' => Carries(p) /\ task'[p].row = task[p].row /\ task[p].row.group # rows[f].group
    BY <2>1 DEF Carries
  <2>4. ASSUME NEW p \in Requests, Carries(p)', NEW g \in Live', rows'[g].group = task'[p].row.group
        PROVE  rows'[g].tag = task'[p].row.tag
    BY <2>2, <2>3, <2>4 DEF TagsShared, TagsCarried, GroupKept
  <2>5. ASSUME NEW p \in Requests, NEW r \in Requests, Carries(p)', Carries(r)', task'[p].row.group = task'[r].row.group
        PROVE  task'[p].row.tag = task'[r].row.tag
    BY <2>3, <2>5 DEF TagsShared, TagsCarried
  <2>6. ASSUME NEW g \in Live', NEW h \in Live', rows'[g].group = rows'[h].group, rows'[g].group \notin torn' \union {None}
        PROVE  rows'[g].tag = rows'[h].tag
    BY <2>1, <2>2, <2>6 DEF TagsShared, TagShared, GroupKept
  <2>. QED
    BY <2>4, <2>5, <2>6 DEF TagsShared, TagsCarried, TagShared
<1>18. CASE Crash
  <2>1. \A p \in Requests : ~Carries(p)'
    BY <1>18, CrashIs, IdleFits DEF Carries
  <2>2. UNCHANGED torn /\ Live' = Live /\ \A g \in Live : TagKeptOf(g) /\ rows'[g].group = GroupOf(g)
    BY <1>0, <1>18, CrashIs, Recovers
  <2>3. ASSUME NEW g \in Live, NEW h \in Live, g # h, GroupOf(g) = GroupOf(h) PROVE rows[g].group = GroupOf(g) /\ rows[h].group = GroupOf(h)
    <3>1. rows[g].group # None /\ rows[h].group # None
      BY <2>3 DEF Groups, Alone, GroupOf
    <3>. QED
      BY <3>1 DEF GroupOf
  <2>4. ASSUME NEW g \in Live', NEW h \in Live', rows'[g].group = rows'[h].group, rows'[g].group \notin torn' \union {None}
        PROVE  rows'[g].tag = rows'[h].tag
    <3>1. CASE g # h
      <4>1. rows[g].group = rows[h].group /\ rows[g].group \notin torn \union {None} /\ g \in Live /\ h \in Live
        BY <2>2, <2>3, <2>4, <3>1
      <4>2. rows[g].tag = rows[h].tag
        BY <4>1 DEF TagsShared, TagShared
      <4>. QED
        BY <2>2, <4>1, <4>2 DEF TagKeptOf
    <3>. QED
      BY <3>1
  <2>. QED
    BY <2>1, <2>4 DEF TagsShared, TagsCarried, TagShared
<1>19. CASE UNCHANGED vars
  BY <1>a, <1>b, <1>19, TagsStay DEF vars, history
<1>20. \A k \in Keys : Strip[k] \in Keys
  BY FeaturesAssumption
<1>. QED
  BY <1>1, <1>2, <1>3, <1>4, <1>5, <1>6, <1>7, <1>8, <1>9, <1>10, <1>11, <1>12, <1>13, <1>14, <1>15, <1>16, <1>17, <1>18,
     <1>19, <1>20 DEF Next

-----------------------------------------------------------------------------
(* The index is the document's *)

LEMMA OneWrites ==
  ASSUME Typed, OneHolds, NEW p \in Requests, NEW q \in Requests,
         task[p].at \in {"group", "doc", "index"}, task[q].at \in {"group", "doc", "index"}
  PROVE  p = q
BY Carried DEF OneHolds, Holds, Looping

\* A request that keeps what it owes the index, or owes it no more.
Owes(p) ==
  \/ /\ task'[p].op = task[p].op /\ task'[p].fid = task[p].fid /\ task'[p].row = task[p].row
     /\ task'[p].at = task[p].at \/ (task[p].at = "group" /\ task'[p].at = "index")
  \/ /\ task'[p].at \notin {"group", "doc", "index"}
     /\ task[p].at \in {"group", "doc", "index", "row"} => task[p].fid \notin Live' \ broken'

LEMMA OwesStill ==
  ASSUME NEW p \in Requests, Owes(p), NEW f, Writing(p, f)'
  PROVE  Writing(p, f) /\ task'[p].op = task[p].op /\ task'[p].row = task[p].row /\ task'[p].fid = task[p].fid
         /\ (task'[p].at = task[p].at \/ (task[p].at = "group" /\ task'[p].at = "index"))
BY DEF Owes, Writing

LEMMA DocumentsStay ==
  ASSUME Documents, Live' \subseteq Live, \A g \in Live' : TextKept(g), UNCHANGED <<chunks, mixed>>, broken \subseteq broken',
         ingests' \subseteq ingests, \A i \in ingests \ ingests' : i.fid \notin Live' \ broken',
         \A p \in Requests : Owes(p)
  PROVE  Documents'
<1>1. \A f : Pending(f)' => Pending(f)
  BY OwesStill DEF Pending, Fetching
<1>2. ASSUME NEW f \in Live' \ broken' PROVE Promised(f)'
  <2>1. Promised(f) /\ rows'[f].text = rows[f].text
    BY DEF Documents, Indexed, TextKept
  <2>2. CASE <<f, rows[f].text>> \in chunks
    BY <2>1, <2>2 DEF Promised
  <2>3. ASSUME NEW q \in Requests, Writing(q, f), task[q].at = "doc" \/ task[q].op = "external" \/ task[q].row.text = rows[f].text
        PROVE  Promised(f)'
    <3>1. /\ Writing(q, f)' /\ task'[q].op = task[q].op /\ task'[q].row = task[q].row
          /\ task[q].at = "doc" => task'[q].at = "doc"
      BY <2>3 DEF Writing, Owes
    <3>. QED
      BY <2>1, <2>3, <3>1 DEF Promised
  <2>4. ASSUME NEW q \in Requests, task[q].op = "delete", task[q].at = "row", task[q].fid = f PROVE Promised(f)'
    <3>1. task'[q].op = "delete" /\ task'[q].at = "row" /\ task'[q].fid = f
      BY <2>4 DEF Owes
    <3>. QED
      BY <3>1 DEF Promised
  <2>5. ASSUME NEW i \in ingests, i.fid = f, i.at = "fetched" \/ i.text = rows[f].text PROVE Promised(f)'
    BY <2>1, <2>5 DEF Promised
  <2>. QED
    BY <2>1, <2>2, <2>3, <2>4, <2>5 DEF Promised
<1>3. Clean'
  BY <1>1 DEF Documents, Clean, TextKept
<1>4. Apart'
  BY DEF Documents, Apart, Owes
<1>5. Wrote'
  <2>1. ASSUME NEW q \in Requests, task'[q].at \in {"group", "index"}, task'[q].op # "external", task'[q].fid \in Live' \ mixed'
        PROVE  rows'[task'[q].fid].text = task'[q].row.text
    <3>1. /\ task[q].at \in {"group", "index"} /\ task'[q].op = task[q].op /\ task'[q].fid = task[q].fid
          /\ task'[q].row = task[q].row
      BY <2>1 DEF Owes
    <3>2. rows[task[q].fid].text = task[q].row.text
      BY <2>1, <3>1 DEF Documents, Wrote
    <3>. QED
      BY <2>1, <3>1, <3>2 DEF TextKept
  <2>. QED
    BY <2>1 DEF Wrote
<1>6. OneFetch' /\ Fetched'
  BY DEF Documents, OneFetch, Fetched, TextKept
<1>. QED
  BY <1>2, <1>3, <1>4, <1>5, <1>6 DEF Documents, Indexed

Unmoved(p) == /\ task'[p].op = task[p].op /\ task'[p].at = task[p].at
              /\ task'[p].fid = task[p].fid /\ task'[p].row = task[p].row

LEMMA PromisedStays ==
  ASSUME NEW f, Promised(f), rows'[f].text = rows[f].text,
         <<f, rows[f].text>> \in chunks => <<f, rows[f].text>> \in chunks',
         \A p \in Requests : Unmoved(p) \/ (~Writing(p, f) /\ ~(task[p].at = "row" /\ task[p].fid = f)),
         \A i \in ingests : i.fid = f => i \in ingests'
  PROVE  Promised(f)'
<1>1. CASE <<f, rows[f].text>> \in chunks
  BY <1>1 DEF Promised
<1>2. ASSUME NEW q \in Requests, Writing(q, f), task[q].at = "doc" \/ task[q].op = "external" \/ task[q].row.text = rows[f].text
      PROVE  Promised(f)'
  <2>1. Unmoved(q)
    BY <1>2
  <2>2. Writing(q, f)' /\ (task'[q].at = "doc" \/ task'[q].op = "external" \/ task'[q].row.text = rows'[f].text)
    BY <1>2, <2>1 DEF Unmoved, Writing
  <2>. QED
    BY <2>2 DEF Promised
<1>3. ASSUME NEW q \in Requests, task[q].op = "delete", task[q].at = "row", task[q].fid = f PROVE Promised(f)'
  <2>1. task'[q].op = "delete" /\ task'[q].at = "row" /\ task'[q].fid = f
    BY <1>3 DEF Unmoved
  <2>. QED
    BY <2>1 DEF Promised
<1>4. ASSUME NEW i \in ingests, i.fid = f, i.at = "fetched" \/ i.text = rows[f].text PROVE Promised(f)'
  BY <1>4 DEF Promised
<1>. QED
  BY <1>1, <1>2, <1>3, <1>4 DEF Promised

LEMMA NextDocuments == ASSUME Typed, OneHolds, Documents, [Next]_vars PROVE Documents'
<1>0. made \in Nat /\ Rows /\ Looping = {"create", "external", "version", "replace"}
  BY DEF Typed, Looping
<1>a. \A p \in Requests : task'[p] = task[p] => Owes(p) /\ Unmoved(p)
  BY DEF Owes, Unmoved
<1>b. ASSUME UNCHANGED <<rows, made>> PROVE Live' = Live /\ \A g \in Live : TextKept(g)
  BY <1>0, <1>b, RowsStay DEF TextKept
<1>1. ASSUME NEW q \in Requests, NEW key \in Keys \union {None}, NEW tag \in Tags \union {None}, NEW text \in Texts,
             NEW op \in {"create", "external"}, CreateCheck(q, key, tag, text, op)
      PROVE  Documents'
  <2>1. /\ Others(q) /\ Calm /\ UNCHANGED <<chunks, broken, mixed>> /\ task[q].at = "idle" /\ task'[q].at = "checked"
    BY <1>1, CreateCheckIs
  <2>2. Owes(q)
    BY <2>1 DEF Owes
  <2>. QED
    BY <1>a, <1>b, <2>1, <2>2, DocumentsStay DEF Others, Calm
<1>2. ASSUME NEW q \in Requests, NEW f \in Live, NEW key \in Keys \union {None}, NEW text \in Texts,
             NEW op \in {"version", "replace"}, VersionBegin(q, f, op, key, text)
      PROVE  Documents'
  <2>1. /\ Others(q) /\ Calm /\ UNCHANGED <<chunks, broken, mixed>> /\ task[q].at = "idle" /\ task'[q].at = "upload"
    BY <1>2, VersionBeginIs
  <2>2. Owes(q)
    BY <2>1 DEF Owes
  <2>. QED
    BY <1>a, <1>b, <2>1, <2>2, DocumentsStay DEF Others, Calm
<1>3. ASSUME NEW q \in Requests, VersionCheck(q) PROVE Documents'
  <2>1. /\ Others(q) /\ Calm /\ UNCHANGED <<chunks, broken, mixed>> /\ task[q].at = "upload"
        /\ task'[q].at \in {"idle", "checked"}
    BY <1>3, VersionCheckIs, IdleFits DEF Stops, Advances
  <2>2. Owes(q)
    BY <2>1 DEF Owes
  <2>. QED
    BY <1>a, <1>b, <2>1, <2>2, DocumentsStay DEF Others, Calm
<1>4. ASSUME NEW q \in Requests, SetGroup(q) PROVE Documents'
  <2>1. PICK f \in 1 .. made : f = task[q].fid
    BY <1>0, <1>4, SetGroupIs, Carried
  <2>2. /\ Advances(q, "index") /\ task[q].at = "group" /\ UNCHANGED <<made, chunks, ingests, broken, mixed>>
        /\ rows' = IF f \in Live THEN [rows EXCEPT ![f].group = f] ELSE rows
    BY <1>4, <2>1, SetGroupIs
  <2>3. Live' = Live /\ \A g \in Live : TextKept(g)
    BY <1>0, <2>2, Regroups
  <2>4. Owes(q)
    BY <2>2 DEF Owes, Advances
  <2>. QED
    BY <1>a, <2>2, <2>3, <2>4, DocumentsStay DEF Advances, Others
<1>5. ASSUME NEW q \in Requests, Fails(q) PROVE Documents'
  <2>1. /\ Stops(q) /\ Calm /\ UNCHANGED <<chunks, mixed>> /\ task[q].at \in {"checked", "doc", "index"}
        /\ broken \subseteq broken' /\ (task[q].at # "checked" => task[q].fid \in broken')
    BY <1>5, FailsIs
  <2>2. Owes(q)
    BY <2>1, IdleFits DEF Owes, Stops
  <2>. QED
    BY <1>a, <1>b, <2>1, <2>2, DocumentsStay DEF Stops, Others, Calm
<1>6. ASSUME NEW q \in Requests, DeleteRow(q) PROVE Documents'
  <2>1. /\ Stops(q) /\ task[q].at = "row" /\ UNCHANGED <<made, chunks, ingests, mixed>>
        /\ rows' = [g \in Live \ {task[q].fid} |-> rows[g]] /\ broken \subseteq broken'
    BY <1>6, DeleteRowIs
  <2>2. Live' = Live \ {task[q].fid} /\ \A g \in Live' : TextKept(g)
    BY <1>0, <2>1, Removes DEF TextKept
  <2>3. Owes(q)
    BY <2>1, <2>2, IdleFits DEF Owes, Stops
  <2>. QED
    BY <1>a, <2>1, <2>2, <2>3, DocumentsStay DEF Stops, Others
<1>7. ASSUME NEW q \in Requests, NEW f \in Live, DeleteBegin(q, f) PROVE Documents'
  <2>1. /\ Others(q) /\ Calm /\ UNCHANGED <<chunks, broken, mixed>> /\ task[q].at = "idle" /\ task'[q].at = "chunks"
    BY <1>7, DeleteBeginIs
  <2>2. Owes(q)
    BY <2>1 DEF Owes
  <2>. QED
    BY <1>a, <1>b, <2>1, <2>2, DocumentsStay DEF Others, Calm
<1>8. ASSUME NEW q \in Requests, NEW f \in Live, NEW key \in Keys, RenameCheck(q, f, key) PROVE Documents'
  <2>1. /\ Others(q) /\ Calm /\ UNCHANGED <<chunks, broken, mixed>> /\ task[q].at = "idle" /\ task'[q].at = "rename"
    BY <1>8, RenameCheckIs
  <2>2. Owes(q)
    BY <2>1 DEF Owes
  <2>. QED
    BY <1>a, <1>b, <2>1, <2>2, DocumentsStay DEF Others, Calm
<1>9. ASSUME NEW q \in Requests, rename_feature(q) PROVE Documents'
  <2>1. /\ UNCHANGED <<made, chunks, ingests, broken, mixed>> /\ task[q].op = "rename" /\ task'[q] = Idle
        /\ \A p \in Requests \ {q} : OnlyStale(p)
    BY <1>9, RenameIs
  <2>2. task[q].at = "rename"
    BY <2>1, Carried DEF Fits
  <2>3. \A p \in Requests : Owes(p)
    BY <2>1, <2>2, IdleFits DEF Owes, OnlyStale
  <2>4. Live' = Live /\ \A g \in Live : TextKept(g)
    <3>1. CASE task[q].fid \in Live
      <4>1. task[q].row \in Keys
        BY <2>1, Carried DEF Fits
      <4>. QED
        BY <1>0, <1>9, <3>1, <4>1, RenameIs, Rekeys
    <3>2. CASE task[q].fid \notin Live
      BY <1>b, <1>9, <3>2, RenameIs
    <3>. QED
      BY <3>1, <3>2
  <2>. QED
    BY <2>1, <2>3, <2>4, DocumentsStay
<1>10. ASSUME NEW i \in ingests, IngestFails(i) PROVE Documents'
  <2>1. UNCHANGED <<rows, made, chunks, task, mixed>> /\ ingests' = ingests \ {i} /\ broken' = broken \union {i.fid}
    BY <1>10, IngestFailsIs
  <2>. QED
    BY <1>a, <1>b, <2>1, DocumentsStay
<1>11. ASSUME NEW f \in Live, ClearKey(f) PROVE Documents'
  BY <1>0, <1>a, <1>11, ClearKeyIs, Rekeys, DocumentsStay
<1>12. ASSUME NEW f \in Live, NEW tag \in Tags, set_feature_match_key(f, tag) PROVE Documents'
  <2>1. \A p \in Requests : Owes(p)
    BY <1>12, TagIs DEF Owes
  <2>. QED
    BY <1>0, <1>12, <2>1, TagIs, Retags, DocumentsStay
<1>13. CASE Crash
  <2>1. \A p \in Requests : Owes(p)
    <3>1. ASSUME NEW p \in Requests PROVE Owes(p)
      <4>1. task[p].at \in {"group", "doc", "index", "row"} => task[p].op \in Looping \union {"delete"}
        BY Carried DEF Fits, Task, Ops, Looping
      <4>. QED
        BY <1>13, <4>1, CrashIs, IdleFits DEF Owes
    <3>. QED
      BY <3>1
  <2>. QED
    BY <1>0, <1>13, <2>1, CrashIs, Recovers, DocumentsStay
<1>14. CASE UNCHANGED vars
  BY <1>a, <1>b, <1>14, DocumentsStay DEF vars, history
<1>20. ASSUME NEW q \in Requests, Insert(q) PROVE Documents'
  <2> DEFINE row == task[q].row
  <2>0. PICK n \in Nat : n = made + 1
    BY <1>0
  <2>1. /\ UNCHANGED <<chunks, ingests, broken, mixed>> /\ task[q].op \in Looping /\ task[q].at = "checked" /\ made' = n
        /\ rows' = [g \in Live \union {n} |-> IF g = n THEN row ELSE rows[g]]
        /\ task'[q].at \in {"group", "index"} /\ task'[q].fid = n /\ task'[q].row = row
        /\ \A p \in Requests \ {q} : Unmoved(p)
    BY <1>0, <1>20, <2>0, InsertIs DEF OnlyStale, Unmoved
  <2>2. row \in Row /\ Given(row.group, made) /\ n \notin 1 .. made
    BY <1>0, <2>0, <2>1, Carried
  <2>3. Live' = Live \union {n} /\ n \notin Live /\ rows'[n] = row /\ \A g \in Live : rows'[g] = rows[g]
    BY <1>0, <2>0, <2>1, <2>2, Adds
  <2>4. (\A c \in chunks : c[1] # n) /\ \A i \in ingests : i.fid # n
    BY <2>2 DEF Typed, Written
  <2>5. \A p \in Requests \ {q} : task[p].at \in {"group", "doc", "index"} => task[p].fid # n
    BY <2>2, Carried
  <2>6. ASSUME NEW f \in Live' \ broken' PROVE Promised(f)'
    <3>1. CASE f = n
      BY <2>1, <2>3, <3>1 DEF Promised, Writing
    <3>2. CASE f # n
      <4>1. Promised(f) /\ rows'[f].text = rows[f].text
        BY <2>1, <2>3, <2>6, <3>2 DEF Documents, Indexed
      <4>. QED
        BY <2>1, <4>1, PromisedStays DEF Writing
    <3>. QED
      BY <3>1, <3>2
  <2>7. \A f : f # n /\ Pending(f)' => Pending(f)
    BY <2>1 DEF Pending, Fetching, Writing, Unmoved
  <2>8. Clean'
    BY <2>1, <2>3, <2>4, <2>7 DEF Documents, Clean
  <2>9. Apart'
    BY <2>1, <2>4 DEF Documents, Apart, Unmoved
  <2>10. Wrote'
    BY <2>1, <2>3, <2>5 DEF Documents, Wrote, Unmoved
  <2>11. OneFetch' /\ Fetched'
    BY <2>1, <2>3, <2>4 DEF Documents, OneFetch, Fetched
  <2>. QED
    BY <2>6, <2>8, <2>9, <2>10, <2>11 DEF Documents, Indexed
<1>21. ASSUME NEW q \in Requests, Reset(q) PROVE Documents'
  <2> DEFINE d == task[q].fid
  <2>1. /\ Advances(q, "doc") /\ task[q].op = "replace" /\ task[q].at = "upload" /\ UNCHANGED <<rows, made, ingests, broken>>
        /\ chunks' = {c \in chunks : c[1] # d}
        /\ mixed \subseteq mixed' /\ (d \in mixed' \/ \A i \in ingests : i.fid # d)
    BY <1>21, ResetIs
  <2>2. \A p \in Requests \ {q} : Unmoved(p)
    BY <1>a, <2>1 DEF Advances, Others
  <2>3. /\ task'[q].at = "doc" /\ task'[q].op = "replace" /\ task'[q].fid = d
    BY <2>1 DEF Advances
  <2>4. Live' = Live /\ \A g \in Live : TextKept(g)
    BY <1>b, <2>1
  <2> HIDE DEF d
  <2>5. ASSUME NEW f \in Live' \ broken' PROVE Promised(f)'
    <3>1. CASE f = d
      BY <2>3, <3>1 DEF Promised, Writing
    <3>2. CASE f # d
      <4>1. Promised(f) /\ rows'[f].text = rows[f].text
        BY <2>1, <2>4, <2>5 DEF Documents, Indexed, TextKept
      <4>. QED
        BY <2>1, <2>2, <3>2, <4>1, PromisedStays DEF Writing
    <3>. QED
      BY <3>1, <3>2
  <2>6. \A f : f # d /\ Pending(f)' => Pending(f)
    BY <2>1, <2>2, <2>3 DEF Pending, Fetching, Writing, Unmoved
  <2>7. Clean'
    BY <2>1, <2>4, <2>6 DEF Documents, Clean, TextKept
  <2>8. Apart'
    BY <2>1, <2>2, <2>3 DEF Documents, Apart, Unmoved
  <2>9. Wrote'
    BY <2>1, <2>2, <2>3, <2>4 DEF Documents, Wrote, Unmoved, TextKept
  <2>10. OneFetch' /\ Fetched'
    BY <2>1, <2>4 DEF Documents, OneFetch, Fetched, TextKept
  <2>. QED
    BY <2>5, <2>7, <2>8, <2>9, <2>10 DEF Documents, Indexed
<1>22. ASSUME NEW q \in Requests, UpdateDoc(q) PROVE Documents'
  <2> DEFINE text == task[q].row.text
  <2>1. PICK d \in 1 .. made : d = task[q].fid /\ text \in Texts /\ task[q].op = "replace"
    BY <1>0, <1>22, UpdateDocIs, Carried
  <2>2. /\ Advances(q, "index") /\ task[q].at = "doc" /\ UNCHANGED <<made, chunks, ingests, broken, mixed>>
        /\ rows' = IF d \in Live THEN [rows EXCEPT ![d].text = text] ELSE rows
    BY <1>22, <2>1, UpdateDocIs
  <2>3. /\ task'[q].at = "index" /\ task'[q].fid = d /\ task'[q].op = "replace" /\ task'[q].row.text = text
    BY <2>1, <2>2 DEF Advances
  <2>4. \A p \in Requests \ {q} : Unmoved(p) /\ task[p].at \notin {"group", "doc", "index"}
    BY <1>a, <2>2, OneWrites DEF Advances, Others
  <2>5. Live' = Live /\ \A g \in Live : rows'[g].text = IF g = d THEN text ELSE rows[g].text
    <3> HIDE DEF text
    <3>1. Rows /\ made \in Nat /\ UNCHANGED made /\ text \in Texts
      BY <1>0, <2>1, <2>2
    <3>2. /\ Rows' /\ Live' = Live
          /\ \A g \in Live : KeyKept(g) /\ TagKeptOf(g) /\ GroupKept(g) /\ rows'[g].text = IF g = d THEN text ELSE rows[g].text
      BY <2>2, <3>1, Rewrites
    <3>. QED
      BY <3>2
  <2> HIDE DEF text
  <2>6. ASSUME NEW f \in Live' \ broken' PROVE Promised(f)'
    <3>1. CASE f = d
      BY <2>3, <2>5, <3>1 DEF Promised, Writing
    <3>2. CASE f # d
      <4>1. Promised(f) /\ rows'[f].text = rows[f].text
        BY <2>2, <2>5, <2>6, <3>2 DEF Documents, Indexed
      <4>. QED
        BY <2>1, <2>2, <2>4, <3>2, <4>1, PromisedStays DEF Writing
    <3>. QED
      BY <3>1, <3>2
  <2>7. \A f : Pending(f)' => Pending(f)
    BY <2>1, <2>2, <2>3, <2>4 DEF Pending, Fetching, Writing, Unmoved
  <2>8. Pending(d)
    BY <2>1, <2>2 DEF Pending, Writing
  <2>9. Clean'
    BY <2>2, <2>5, <2>7, <2>8 DEF Documents, Clean
  <2>10. Apart'
    BY <2>1, <2>2, <2>3, <2>4 DEF Documents, Apart, Unmoved
  <2>11. Wrote'
    BY <2>2, <2>3, <2>4, <2>5 DEF Wrote, Unmoved
  <2>12. d \notin mixed => \A i \in ingests : i.fid # d
    BY <2>1, <2>2 DEF Documents, Apart
  <2>13. OneFetch' /\ Fetched'
    BY <2>2, <2>5, <2>12 DEF Documents, OneFetch, Fetched
  <2>. QED
    BY <2>6, <2>9, <2>10, <2>11, <2>13 DEF Documents, Indexed
<1>23. ASSUME NEW q \in Requests, Index(q) PROVE Documents'
  <2> DEFINE d == task[q].fid
             text == task[q].row.text
  <2>1. /\ Stops(q) /\ UNCHANGED <<rows, made, ingests, broken, mixed>>
        /\ task[q].op \in {"create", "version", "replace"} /\ task[q].at = "index"
        /\ chunks' = chunks \union {<<d, text>>}
    BY <1>23, IndexIs DEF Calm
  <2>2. \A p \in Requests \ {q} : Unmoved(p) /\ task[p].at \notin {"group", "doc", "index"}
    BY <1>a, <2>1, OneWrites DEF Stops, Others
  <2>3. task'[q].at = "idle"
    BY <2>1, IdleFits DEF Stops
  <2>4. Live' = Live /\ \A g \in Live : rows'[g].text = rows[g].text
    BY <1>b, <2>1 DEF TextKept
  <2>5. d \in Live \ mixed => rows[d].text = text
    BY <2>1 DEF Documents, Wrote
  <2>6. d \notin mixed => \A i \in ingests : i.fid # d
    BY <2>1 DEF Documents, Apart
  <2>7. ASSUME NEW f \in Live' \ broken' PROVE Promised(f)'
    <3>1. Promised(f) /\ rows'[f].text = rows[f].text
      BY <2>1, <2>4, <2>7 DEF Documents, Indexed
    <3>2. CASE f # d \/ text = rows[f].text
      <4>1. CASE f = d
        BY <2>1, <3>1, <3>2, <4>1 DEF Promised
      <4>2. CASE f # d
        BY <2>1, <2>2, <3>1, <4>2, PromisedStays DEF Writing
      <4>. QED
        BY <4>1, <4>2
    <3>3. CASE f = d /\ text # rows[f].text
      <4>1. ~ \E p \in Requests : Writing(p, f) /\ (task[p].at = "doc" \/ task[p].op = "external" \/ task[p].row.text = rows[f].text)
        BY <2>1, <2>2, <3>3 DEF Writing
      <4>2. CASE <<f, rows[f].text>> \in chunks \/ \E i \in ingests : i.fid = f /\ (i.at = "fetched" \/ i.text = rows[f].text)
        BY <2>1, <3>1, <4>2 DEF Promised
      <4>3. ASSUME NEW p \in Requests, task[p].op = "delete", task[p].at = "row", task[p].fid = f PROVE Promised(f)'
        <5>1. Unmoved(p)
          BY <2>1, <2>2, <4>3
        <5>. QED
          BY <4>3, <5>1 DEF Promised, Unmoved
      <4>. QED
        BY <3>1, <4>1, <4>2, <4>3 DEF Promised
    <3>. QED
      BY <3>2, <3>3
  <2>8. \A f : Pending(f)' => Pending(f) /\ (f = d => \E i \in ingests : i.fid = d)
    BY <2>1, <2>2, <2>3 DEF Pending, Fetching, Writing, Unmoved
  <2>9. Pending(d)
    BY <2>1 DEF Pending, Writing
  <2>10. ASSUME NEW f \in Live' \ (broken' \union mixed'), NEW c \in chunks', c[1] = f
         PROVE  c[2] = rows'[f].text /\ ~Pending(f)'
    <3> HIDE DEF d, text
    <3>1. CASE f = d
      <4>1. c \notin chunks
        BY <2>1, <2>4, <2>9, <2>10, <3>1 DEF Documents, Clean
      <4>2. c = <<d, text>>
        BY <2>1, <2>10, <4>1
      <4>. QED
        BY <2>1, <2>4, <2>5, <2>6, <2>8, <2>10, <3>1, <4>2
    <3>2. CASE f # d
      <4>1. c \in chunks
        BY <2>1, <2>10, <3>2
      <4>. QED
        BY <2>1, <2>4, <2>8, <2>10, <4>1 DEF Documents, Clean
    <3>. QED
      BY <3>1, <3>2
  <2>11. Apart' /\ Wrote'
    BY <2>2, <2>3 DEF Apart, Wrote, Unmoved
  <2>12. OneFetch' /\ Fetched'
    BY <2>1, <2>4 DEF Documents, OneFetch, Fetched
  <2>. QED
    BY <2>7, <2>10, <2>11, <2>12 DEF Documents, Indexed, Clean
<1>24. ASSUME NEW q \in Requests, Launch(q) PROVE Documents'
  <2> DEFINE d == task[q].fid
  <2>1. /\ Stops(q) /\ UNCHANGED <<rows, made, chunks, broken, mixed>> /\ task[q].op = "external" /\ task[q].at = "index"
    BY <1>24, LaunchIs
  <2>2. PICK i : ingests' = ingests \union {i} /\ i.fid = d /\ i.at = "fetched"
    <3>1. PICK text \in Texts : ingests' = ingests \union {[fid |-> task[q].fid, text |-> text, at |-> "fetched"]}
      BY <1>24, LaunchIs
    <3> DEFINE i == [fid |-> task[q].fid, text |-> text, at |-> "fetched"]
    <3>2. i.fid = d /\ i.at = "fetched"
      OBVIOUS
    <3> HIDE DEF i
    <3>. QED
      BY <3>1, <3>2 DEF i
  <2>3. \A p \in Requests \ {q} : Unmoved(p) /\ task[p].at \notin {"group", "doc", "index"}
    BY <1>a, <2>1, OneWrites DEF Stops, Others
  <2>4. task'[q].at = "idle"
    BY <2>1, IdleFits DEF Stops
  <2>5. Live' = Live /\ \A g \in Live : rows'[g].text = rows[g].text
    BY <1>b, <2>1 DEF TextKept
  <2>6. \A j \in ingests : j.fid # d
    BY <2>1 DEF Documents, Apart
  <2>7. ASSUME NEW f \in Live' \ broken' PROVE Promised(f)'
    <3>1. CASE f = d
      BY <2>2, <3>1 DEF Promised
    <3>2. CASE f # d
      <4>1. Promised(f) /\ rows'[f].text = rows[f].text
        BY <2>1, <2>5, <2>7 DEF Documents, Indexed
      <4>. QED
        BY <2>1, <2>2, <2>3, <3>2, <4>1, PromisedStays DEF Writing
    <3>. QED
      BY <3>1, <3>2
  <2>8. \A f : Pending(f)' => Pending(f)
    BY <2>1, <2>2, <2>3, <2>4 DEF Pending, Fetching, Writing, Unmoved
  <2>9. Clean'
    BY <2>1, <2>5, <2>8 DEF Documents, Clean
  <2>10. Apart' /\ Wrote'
    BY <2>3, <2>4 DEF Apart, Wrote, Unmoved
  <2>11. OneFetch' /\ Fetched'
    BY <2>1, <2>2, <2>5, <2>6 DEF Documents, OneFetch, Fetched
  <2>. QED
    BY <2>7, <2>9, <2>10, <2>11 DEF Documents, Indexed
<1>25. ASSUME NEW q \in Requests, DeleteChunks(q) PROVE Documents'
  <2> DEFINE d == task[q].fid
  <2>1. /\ Advances(q, "row") /\ UNCHANGED <<rows, made, ingests, broken, mixed>> /\ task[q].op = "delete"
        /\ chunks' = {c \in chunks : c[1] # d}
    BY <1>25, DeleteChunksIs DEF Calm
  <2>2. task'[q].at = "row" /\ task'[q].op = "delete" /\ task'[q].fid = d
    BY <2>1 DEF Advances
  <2>3. \A p \in Requests \ {q} : Unmoved(p)
    BY <1>a, <2>1 DEF Advances, Others
  <2>4. Live' = Live /\ \A g \in Live : TextKept(g)
    BY <1>b, <2>1
  <2> HIDE DEF d
  <2>5. ASSUME NEW f \in Live' \ broken' PROVE Promised(f)'
    <3>1. CASE f = d
      BY <2>2, <3>1 DEF Promised
    <3>2. CASE f # d
      <4>1. Promised(f) /\ rows'[f].text = rows[f].text
        BY <2>1, <2>4, <2>5 DEF Documents, Indexed, TextKept
      <4>2. ~Writing(q, f) /\ ~(task[q].at = "row" /\ task[q].fid = f)
        BY <3>2 DEF d, Writing
      <4>. QED
        BY <2>1, <2>3, <3>2, <4>1, <4>2, PromisedStays
    <3>. QED
      BY <3>1, <3>2
  <2>6. \A f : Pending(f)' => Pending(f)
    BY <2>1, <2>2, <2>3 DEF Pending, Fetching, Writing, Unmoved
  <2>7. Clean'
    BY <2>1, <2>4, <2>6 DEF Documents, Clean, TextKept
  <2>8. Apart'
    BY <2>1, <2>2, <2>3 DEF Documents, Apart, Unmoved
  <2>9. Wrote'
    BY <2>1, <2>2, <2>3, <2>4 DEF Documents, Wrote, Unmoved, TextKept
  <2>10. OneFetch' /\ Fetched'
    BY <2>1, <2>4 DEF Documents, OneFetch, Fetched, TextKept
  <2>. QED
    BY <2>5, <2>7, <2>8, <2>9, <2>10 DEF Documents, Indexed
<1>26. ASSUME NEW i \in ingests, IngestUpdate(i) PROVE Documents'
  <2>1. PICK j \in Ingest : ingests' = (ingests \ {i}) \union {j} /\ j.fid = i.fid /\ j.text = i.text /\ j.at = "index"
    BY <1>26, IngestUpdateIs
  <2>2. /\ UNCHANGED <<made, chunks, task, broken, mixed>>
        /\ rows' = IF i.fid \in Live THEN [rows EXCEPT ![i.fid].text = i.text] ELSE rows
    BY <1>26, IngestUpdateIs
  <2>3. i.text \in Texts
    BY <1>26 DEF Typed, Written, Ingest
  <2>4. Live' = Live /\ \A g \in Live : rows'[g].text = IF g = i.fid THEN i.text ELSE rows[g].text
    <3>1. Rows /\ made \in Nat /\ UNCHANGED made
      BY <1>0, <2>2
    <3>2. /\ Rows' /\ Live' = Live
          /\ \A g \in Live : KeyKept(g) /\ TagKeptOf(g) /\ GroupKept(g) /\ rows'[g].text = IF g = i.fid THEN i.text ELSE rows[g].text
      BY <2>2, <2>3, <3>1, Rewrites
    <3>. QED
      BY <3>2
  <2>5. \A k \in ingests \ {i} : k.fid # i.fid
    BY <1>26 DEF Documents, OneFetch
  <2>6. ASSUME NEW f \in Live' \ broken' PROVE Promised(f)'
    <3>1. CASE f = i.fid
      BY <2>1, <2>4, <3>1 DEF Promised
    <3>2. CASE f # i.fid
      <4>1. Promised(f) /\ rows'[f].text = rows[f].text
        BY <2>2, <2>4, <2>6, <3>2 DEF Documents, Indexed
      <4>. QED
        BY <1>a, <2>1, <2>2, <3>2, <4>1, PromisedStays
    <3>. QED
      BY <3>1, <3>2
  <2>7. \A f : Pending(f)' => Pending(f)
    BY <2>1, <2>2 DEF Pending, Fetching, Writing
  <2>8. Pending(i.fid)
    BY DEF Pending, Fetching
  <2>9. Clean'
    BY <2>2, <2>4, <2>7, <2>8 DEF Documents, Clean
  <2>10. Apart'
    BY <2>1, <2>2 DEF Documents, Apart
  <2>11. Wrote'
    BY <2>2, <2>4 DEF Documents, Apart, Wrote
  <2>12. OneFetch' /\ Fetched'
    BY <2>1, <2>2, <2>4, <2>5 DEF Documents, OneFetch, Fetched
  <2>. QED
    BY <2>6, <2>9, <2>10, <2>11, <2>12 DEF Documents, Indexed
<1>27. ASSUME NEW i \in ingests, IngestIndex(i) PROVE Documents'
  <2>1. /\ UNCHANGED <<rows, made, task, broken, mixed>> /\ i.at = "index"
        /\ chunks' = chunks \union {<<i.fid, i.text>>} /\ ingests' = ingests \ {i}
    BY <1>27, IngestIndexIs
  <2>2. Live' = Live /\ \A g \in Live : rows'[g].text = rows[g].text
    BY <1>b, <2>1 DEF TextKept
  <2>3. \A k \in ingests' : k \in ingests /\ k.fid # i.fid
    BY <2>1 DEF Documents, OneFetch
  <2>4. ASSUME NEW f \in Live' \ broken' PROVE Promised(f)'
    <3>1. Promised(f) /\ rows'[f].text = rows[f].text
      BY <2>1, <2>2, <2>4 DEF Documents, Indexed
    <3>2. CASE f = i.fid /\ i.text = rows[f].text
      BY <2>1, <3>1, <3>2 DEF Promised
    <3>3. CASE f # i.fid
      BY <1>a, <2>1, <3>1, <3>3, PromisedStays
    <3>4. CASE f = i.fid /\ i.text # rows[f].text
      <4>1. \A k \in ingests : k.fid = f => k.at # "fetched" /\ k.text # rows[f].text
        BY <2>1, <2>3, <3>4
      <4>. QED
        BY <2>1, <3>1, <4>1 DEF Promised, Writing
    <3>. QED
      BY <3>2, <3>3, <3>4
  <2>5. \A f : Pending(f)' => Pending(f)
    BY <2>1 DEF Pending, Fetching, Writing
  <2>6. Pending(i.fid)
    BY DEF Pending, Fetching
  <2>7. ASSUME NEW f \in Live' \ (broken' \union mixed'), NEW c \in chunks', c[1] = f
        PROVE  c[2] = rows'[f].text /\ ~Pending(f)'
    <3>1. CASE f = i.fid
      <4>1. c \notin chunks
        BY <2>1, <2>2, <2>6, <2>7, <3>1 DEF Documents, Clean
      <4>2. c = <<i.fid, i.text>>
        BY <2>1, <2>7, <4>1
      <4>3. rows[f].text = i.text
        BY <2>1, <2>2, <2>7, <3>1 DEF Documents, Fetched
      <4>4. \A p \in Requests : ~Writing(p, f)
        BY <2>1, <2>7, <3>1 DEF Documents, Apart, Writing
      <4>. QED
        BY <2>1, <2>2, <2>3, <3>1, <4>2, <4>3, <4>4 DEF Pending, Fetching, Writing
    <3>2. CASE f # i.fid
      <4>1. c \in chunks
        BY <2>1, <2>7, <3>2
      <4>. QED
        BY <2>1, <2>2, <2>5, <2>7, <4>1 DEF Documents, Clean
    <3>. QED
      BY <3>1, <3>2
  <2>8. Apart' /\ Wrote'
    BY <2>1, <2>2 DEF Documents, Apart, Wrote
  <2>9. OneFetch' /\ Fetched'
    BY <2>1, <2>2 DEF Documents, OneFetch, Fetched
  <2>. QED
    BY <2>4, <2>7, <2>8, <2>9 DEF Documents, Indexed, Clean
<1>28. \A k \in Keys : Strip[k] \in Keys
  BY FeaturesAssumption
<1>. QED
  BY <1>1, <1>2, <1>3, <1>4, <1>5, <1>6, <1>7, <1>8, <1>9, <1>10, <1>11, <1>12, <1>13, <1>14, <1>20, <1>21, <1>22, <1>23,
     <1>24, <1>25, <1>26, <1>27, <1>28 DEF Next

-----------------------------------------------------------------------------
IInv == Typed /\ OneHolds /\ Groups /\ Epics /\ TagsShared /\ Documents

LEMMA InitIInv == Init => IInv
<1> SUFFICES ASSUME Init PROVE IInv
  OBVIOUS
<1>1. Live = {} /\ chunks = {} /\ ingests = {} /\ \A q \in Requests : task[q] = Idle
  BY DEF Init, Live
<1>2. \A q \in Requests : task[q].op = "none" /\ task[q].at = "idle"
  BY <1>1, IdleFits
<1>3. OneHolds /\ Groups
  BY <1>1, <1>2 DEF OneHolds, Holds, Looping, Groups
<1>4. Epics
  BY <1>1, <1>2 DEF Epics, EpicsLooked, Looked, EpicOneGroup
<1>5. TagsShared
  BY <1>1, <1>2 DEF TagsShared, TagsCarried, Carries, TagShared
<1>6. Documents
  BY <1>1, <1>2 DEF Documents, Indexed, Clean, Apart, Wrote, OneFetch, Fetched
<1>. QED
  BY <1>3, <1>4, <1>5, <1>6, InitTyped DEF IInv

LEMMA NextIInv == IInv /\ [Next]_vars => IInv'
BY NextTyped, NextOneHolds, NextGroups, NextEpics, NextTags, NextDocuments DEF IInv

LEMMA SpecIInv == Spec => []IInv
BY InitIInv, NextIInv, PTL DEF Spec

\* However many uploads, renames and webhooks are under way, an epic is the
\* epic of one group of versions, unless a rename overlapped another use of it.
THEOREM EpicKept == Spec => []EpicOneGroup
<1>1. IInv => EpicOneGroup
  BY DEF IInv, Epics
<1>. QED
  BY <1>1, SpecIInv, PTL

\* However many versions are being uploaded, the tag is that of every version
\* of a group, unless it was set during the upload of one that was then stored.
THEOREM TagKept == Spec => []TagShared
<1>1. IInv => TagShared
  BY DEF IInv, TagsShared
<1>. QED
  BY <1>1, SpecIInv, PTL

\* In whatever order replacements, jobs that fetch and deletions wrote, a
\* feature nothing works on has its document in the index and no other.
THEOREM IndexKept == Spec => []IndexedAtRest
<1>1. ASSUME Typed, Documents PROVE IndexedAtRest
  <2>1. ASSUME NEW f \in Live \ broken, ~Busy(f) PROVE <<f, rows[f].text>> \in chunks
    <3>1. (\A q \in Requests : ~Writing(q, f)) /\ \A i \in ingests : i.fid # f
      BY <2>1 DEF Busy, Writing, Using
    <3>2. \A q \in Requests : ~(task[q].at = "row" /\ task[q].fid = f)
      BY <2>1 DEF Busy, Using
    <3>. QED
      BY <1>1, <3>1, <3>2 DEF Documents, Indexed, Promised
  <2>. QED
    BY <1>1, <2>1 DEF IndexedAtRest, Documents, Clean
<1>2. IInv => IndexedAtRest
  BY <1>1 DEF IInv
<1>. QED
  BY <1>2, SpecIInv, PTL
=============================================================================
