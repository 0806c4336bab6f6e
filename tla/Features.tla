------------------------------- MODULE Features -------------------------------
(***************************************************************************)
(* The features of a project, their versions, epics and tags, and the      *)
(* index of their documents (src/app/api/routes/features.py,               *)
(* src/app/api/routes/jira_atlassian.py, src/app/store/features.py).       *)
(*                                                                         *)
(* Creating a feature and a version is done on the server's event loop: it *)
(* waits for the uploaded files and holds the loop from then on.  Renaming,*)
(* tagging and deleting run in threads of their own, and the job that      *)
(* fetches external documents in another, beside whatever holds the loop.  *)
(***************************************************************************)
EXTENDS Naturals, FiniteSets, Functions

CONSTANTS Requests,   \* requests in flight
          Keys,       \* epic keys as they are sent
          Strip,      \* such a key without the blanks around it
          Tags, Texts,
          None,
          MaxRows, MaxServed, MaxCrashes

ASSUME FeaturesAssumption ==
    /\ Strip \in [Keys -> Keys] /\ \A key \in Keys : Strip[Strip[key]] = Strip[key]
    /\ None \notin Nat \cup Keys
    /\ MaxRows \in Nat /\ MaxServed \in Nat /\ MaxCrashes \in Nat

VARIABLES rows,       \* fid -> [group, version, key, tag, text]
          made,       \* the features ever created; ids are given once
          chunks,     \* the index: <<fid, text>>
          task,       \* what each request is doing
          ingests,    \* jobs that fetch external documents: [fid, text, at]
          served, crashes,
          broken,     \* history: features for which a request failed midway
          mixed,      \* history: features replaced while a job fetched for them
          torn,       \* history: groups tagged while a version was uploaded
          raced       \* history: a rename overlapped another use of the epic

history == <<broken, mixed, torn, raced>>
vars == <<rows, made, chunks, task, ingests, served, crashes, history>>

Idle == [op |-> "none", at |-> "idle", fid |-> 0, row |-> None, stale |-> FALSE, tagged |-> FALSE]
Live == DOMAIN rows
Using == {q \in Requests : task[q].at # "idle"}
\* The event loop is held from the end of the upload to the answer.
LoopFree == \A q \in Using : task[q].op \in {"rename", "delete"} \/ task[q].at = "upload"

Init == /\ rows = <<>> /\ made = 0 /\ chunks = {} /\ task = [q \in Requests |-> Idle] /\ ingests = {}
        /\ served = 0 /\ crashes = 0 /\ broken = {} /\ mixed = {} /\ torn = {} /\ raced = FALSE

-----------------------------------------------------------------------------
(* Epics *)

GroupOf(f) == IF rows[f].group = None THEN f ELSE rows[f].group

\* Mutant: only the latest version of a group binds an epic.
epic_bound_group_Latest(key, exclude) ==
    {GroupOf(f) : f \in {g \in Live : rows[g].key = key /\ \A h \in Live : GroupOf(h) = GroupOf(g) =>
                                                             rows[h].version <= rows[g].version}} \ {exclude}

\* The groups other than exclude that have the epic in any of their versions.
epic_bound_group(key, exclude) == {GroupOf(f) : f \in {g \in Live : rows[g].key = key}} \ {exclude}

Bound(key, exclude) == key # None /\ epic_bound_group(key, exclude) # {}

\* A request that has looked for the epic and not yet written it.
Checked == {q \in Using : task[q].at \in {"checked", "rename"}}

\* A rename overlaps what any request has looked up; a request on the event
\* loop overlaps a rename only.
Overlap(by) == [q \in Requests |-> IF q \in Checked \ {by} /\ (task[q].op = "rename" \/ task[by].op = "rename")
                                   THEN [task[q] EXCEPT !.stale = TRUE] ELSE task[q]]
Writes(q, f, row) ==
    /\ rows' = [g \in Live \union {f} |-> IF g = f THEN row ELSE rows[g]]
    /\ raced' = (raced \/ (task[q].stale /\ row.key # None))

-----------------------------------------------------------------------------
(* Requests: each begins, takes its steps and ends *)

Begin(q, t) == /\ task[q].at = "idle" /\ served < MaxServed
               /\ served' = served + 1
               /\ task' = [task EXCEPT ![q] = t]
End(q) == task' = [task EXCEPT ![q] = Idle]
Goes(q, at) == task' = [task EXCEPT ![q].at = at]
Other(q) == UNCHANGED <<made, ingests, crashes, mixed, torn>>

\* create_feature up to the model's summary, and jira_webhook.
CreateCheck(q, key, tag, text, op) ==
    /\ LoopFree /\ ~Bound(key, None) /\ Cardinality(Live) < MaxRows
    /\ Begin(q, [Idle EXCEPT !.op = op, !.at = "checked",
                             !.row = [group |-> None, version |-> 1, key |-> key, tag |-> tag, text |-> text]])
    /\ UNCHANGED <<rows, chunks, raced, broken>> /\ Other(q)

\* new_version up to its first await: what it reads of the version before.
VersionBegin(q, f, op, key, text) ==
    /\ f \in Live
    /\ Begin(q, [Idle EXCEPT !.op = op, !.at = "upload", !.fid = f,
                             !.row = [rows[f] EXCEPT !.version = @ + 1, !.text = text, !.key = IF key = None THEN @ ELSE key]])
    /\ UNCHANGED <<rows, chunks, raced, broken>> /\ Other(q)

\* The version number, the epic and the tag are those of the version read.
VersionCheck(q) ==
    /\ task[q].op = "version" /\ task[q].at = "upload" /\ LoopFree
    /\ IF Bound(task[q].row.key, task[q].row.group) THEN End(q) ELSE Goes(q, "checked")
    /\ UNCHANGED <<rows, chunks, served, raced, broken>> /\ Other(q)

\* store.create_feature: the row, then the group of one that is the first.
Insert(q) ==
    /\ task[q].op \in {"create", "external", "version"} /\ task[q].at = "checked" /\ made < MaxRows
    /\ made' = made + 1
    /\ Writes(q, made', task[q].row)
    /\ task' = [Overlap(q) EXCEPT ![q].at = IF task[q].row.group = None THEN "group" ELSE "index", ![q].fid = made']
    /\ torn' = IF task[q].tagged THEN torn \union {task[q].row.group} ELSE torn
    /\ UNCHANGED <<chunks, served, broken, ingests, crashes, mixed>>

SetGroup(q) ==
    /\ task[q].at = "group"
    /\ rows' = IF task[q].fid \in Live THEN [rows EXCEPT ![task[q].fid].group = task[q].fid] ELSE rows
    /\ Goes(q, "index")
    /\ UNCHANGED <<chunks, served, raced, broken>> /\ Other(q)

\* Mutant: the chunks of the document before stay.
reset_feature_content_Kept(f) == chunks

reset_feature_content(f) == {c \in chunks : c[1] # f}

\* A version that replaces: its content goes, its document, then its index.
Reset(q) ==
    /\ task[q].op = "replace" /\ task[q].at = "upload" /\ LoopFree
    /\ chunks' = reset_feature_content(task[q].fid)
    /\ mixed' = IF \E i \in ingests : i.fid = task[q].fid THEN mixed \union {task[q].fid} ELSE mixed
    /\ Goes(q, "doc")
    /\ UNCHANGED <<rows, made, served, raced, broken, ingests, crashes, torn>>

update_feature_doc(f, text) == rows' = IF f \in Live THEN [rows EXCEPT ![f].text = text] ELSE rows

UpdateDoc(q) ==
    /\ task[q].at = "doc"
    /\ update_feature_doc(task[q].fid, task[q].row.text)
    /\ Goes(q, "index")
    /\ UNCHANGED <<chunks, served, raced, broken>> /\ Other(q)

add_feature_chunks(f, text) == chunks' = chunks \union {<<f, text>>}

Index(q) ==
    /\ task[q].op \in {"create", "version", "replace"} /\ task[q].at = "index"
    /\ add_feature_chunks(task[q].fid, task[q].row.text)
    /\ End(q)
    /\ UNCHANGED <<rows, served, raced, broken>> /\ Other(q)

\* With links to fetch the job indexes, if it is admitted.
Launch(q) ==
    /\ task[q].op = "external" /\ task[q].at = "index"
    /\ \E text \in Texts : ingests' = ingests \union {[fid |-> task[q].fid, text |-> text, at |-> "fetched"]}
    /\ End(q)
    /\ UNCHANGED <<rows, made, chunks, served, raced, broken, crashes, mixed, torn>>

\* A call of the model or of the embedding raises, or the job is refused.
Fails(q) ==
    /\ task[q].op \in {"create", "external", "version", "replace"} /\ task[q].at \in {"checked", "doc", "index"}
    /\ broken' = IF task[q].at = "checked" THEN broken ELSE broken \union {task[q].fid}
    /\ End(q)
    /\ UNCHANGED <<rows, chunks, served, raced>> /\ Other(q)

-----------------------------------------------------------------------------
(* The job that fetches *)

IngestUpdate(i) ==
    /\ i.at = "fetched"
    /\ update_feature_doc(i.fid, i.text)
    /\ ingests' = (ingests \ {i}) \union {[i EXCEPT !.at = "index"]}
    /\ UNCHANGED <<made, chunks, task, served, crashes, history>>

IngestIndex(i) ==
    /\ i.at = "index"
    /\ add_feature_chunks(i.fid, i.text)
    /\ ingests' = ingests \ {i}
    /\ UNCHANGED <<rows, made, task, served, crashes, history>>

\* Nothing readable was found, or a call raised.
IngestFails(i) ==
    /\ ingests' = ingests \ {i} /\ broken' = broken \union {i.fid}
    /\ UNCHANGED <<rows, made, chunks, task, served, crashes, mixed, torn, raced>>

-----------------------------------------------------------------------------
(* Handlers in threads *)

\* What is looked up is the key without its blanks.
RenameCheck(q, f, key) ==
    /\ f \in Live /\ ~Bound(Strip[key], rows[f].group)
    /\ Begin(q, [Idle EXCEPT !.op = "rename", !.at = "rename", !.fid = f, !.row = key])
    /\ UNCHANGED <<rows, chunks, raced, broken>> /\ Other(q)

\* What is stored is the key as it was sent.
rename_feature(q) ==
    /\ task[q].op = "rename"
    /\ IF task[q].fid \in Live THEN Writes(q, task[q].fid, [rows[task[q].fid] EXCEPT !.key = task[q].row]) ELSE UNCHANGED <<rows, raced>>
    /\ task' = [Overlap(q) EXCEPT ![q] = Idle]
    /\ UNCHANGED <<chunks, served, broken>> /\ Other(q)

ClearKey(f) ==
    /\ f \in Live /\ rows[f].key # None /\ served < MaxServed
    /\ rows' = [rows EXCEPT ![f].key = None] /\ served' = served + 1
    /\ UNCHANGED <<made, chunks, task, ingests, crashes, history>>

\* Mutant: the tag is given to one version.
Tagged_One(f) == {f}

\* Every version of the group.
Tagged(f) == {g \in Live : rows[g].group = rows[f].group}

set_feature_match_key(f, tag) ==
    /\ f \in Live /\ served < MaxServed
    /\ rows' = [g \in Live |-> IF g \in Tagged(f) THEN [rows[g] EXCEPT !.tag = tag] ELSE rows[g]]
    /\ task' = [q \in Requests |-> [task[q] EXCEPT !.tagged =
                   @ \/ (task[q].op = "version" /\ task[q].at \in {"upload", "checked"} /\ task[q].row.group = rows[f].group)]]
    /\ torn' = torn \ {rows[f].group} /\ served' = served + 1
    /\ UNCHANGED <<made, chunks, ingests, crashes, broken, mixed, raced>>

DeleteBegin(q, f) ==
    /\ f \in Live
    /\ Begin(q, [Idle EXCEPT !.op = "delete", !.at = "chunks", !.fid = f])
    /\ UNCHANGED <<rows, chunks, raced, broken>> /\ Other(q)

DeleteChunks(q) ==
    /\ task[q].at = "chunks" /\ task[q].op = "delete"
    /\ chunks' = {c \in chunks : c[1] # task[q].fid} /\ Goes(q, "row")
    /\ UNCHANGED <<rows, served, raced, broken>> /\ Other(q)

DeleteRow(q) ==
    /\ task[q].at = "row"
    /\ rows' = [f \in Live \ {task[q].fid} |-> rows[f]]
    /\ broken' = broken \union {task[q].fid}
    /\ End(q)
    /\ UNCHANGED <<chunks, served, raced>> /\ Other(q)

-----------------------------------------------------------------------------
(* A crash in the middle of something, and migrate_legacy_features at the  *)
(* start after it                                                          *)

Crash ==
    /\ crashes < MaxCrashes /\ Using \union ingests # {}
    /\ crashes' = crashes + 1 /\ task' = [q \in Requests |-> Idle] /\ ingests' = {}
    /\ rows' = [f \in Live |-> [rows[f] EXCEPT !.group = GroupOf(f)]]
    /\ broken' = broken \union {task[q].fid : q \in {r \in Using : task[r].at # "upload" /\ task[r].op # "rename"}}
                        \union {i.fid : i \in ingests}
    /\ UNCHANGED <<made, chunks, served, mixed, torn, raced>>

Next ==
    \/ \E q \in Requests :
          \/ \E key \in {Strip[k] : k \in Keys} \union {None}, tag \in Tags \union {None}, text \in Texts, op \in {"create", "external"} :
                CreateCheck(q, key, tag, text, op)
          \/ \E f \in Live, text \in Texts :
                \/ \E key \in {Strip[k] : k \in Keys} \union {None} : VersionBegin(q, f, "version", key, text)
                \/ VersionBegin(q, f, "replace", None, text)
          \/ VersionCheck(q) \/ Insert(q) \/ SetGroup(q) \/ Reset(q) \/ UpdateDoc(q) \/ Index(q) \/ Launch(q) \/ Fails(q)
          \/ \E f \in Live : DeleteBegin(q, f) \/ \E key \in Keys : RenameCheck(q, f, key)
          \/ rename_feature(q) \/ DeleteChunks(q) \/ DeleteRow(q)
    \/ \E i \in ingests : IngestUpdate(i) \/ IngestIndex(i) \/ IngestFails(i)
    \/ \E f \in Live : ClearKey(f) \/ \E tag \in Tags : set_feature_match_key(f, tag)
    \/ Crash

Spec == Init /\ [][Next]_vars

-----------------------------------------------------------------------------
(* Properties *)

\* A request or a job is writing the document of f or its index.
Busy(f) == \/ \E q \in Using : task[q].fid = f /\ task[q].at \in {"group", "doc", "index", "chunks", "row"}
           \/ \E i \in ingests : i.fid = f

\* routes/jira_atlassian.py, "1 Epic : 1 feature": no two groups of versions
\* have the same epic, whichever of their versions has it and however many
\* uploads are under way, unless a rename, which runs beside the event loop,
\* overlapped another use of that epic.  (A key renamed with blanks around it
\* is looked up without them: it is stored for any number of features.)
EpicOneGroup ==
    ~raced => \A f, g \in Live : rows[f].key \in Range(Strip) /\ rows[f].key = rows[g].key => GroupOf(f) = GroupOf(g)

\* Once the requests and jobs about a feature have ended, what retrieval finds
\* for it is its document and nothing else, in whatever order a replacement
\* and the job that fetches wrote, unless one failed midway or both overlapped;
\* and even if they did, the document is there.
IndexedAtRest ==
    \A f \in Live \ broken : ~Busy(f) =>
       /\ <<f, rows[f].text>> \in chunks
       /\ f \notin mixed => \A c \in chunks : c[1] = f => c[2] = rows[f].text

\* store/features.py, set_feature_match_key: the tag is that of every version
\* "so it survives regeneration"; true unless it was set while a version was
\* being uploaded.
TagShared ==
    \A f, g \in Live : rows[f].group = rows[g].group /\ rows[f].group \notin torn \union {None} => rows[f].tag = rows[g].tag
=============================================================================
