---- MODULE TestCycles ----
(***************************************************************************)
(* One test cycle (store/test_cycles.py): a document whose items are read, *)
(* changed in memory and written back as a whole by every request, reads   *)
(* included, while the activity log is appended to in place.               *)
(***************************************************************************)
EXTENDS Naturals, Sequences, FiniteSets, SequencesExt

CONSTANTS
  Cases,      \* test cases
  Titles,     \* their titles; two cases may have the same
  Threads,    \* requests in flight
  Planned,    \* the case_ids the cycle is created with
  Results,    \* the item statuses besides "pending"
  MaxEdits,   \* bound: edits and deletions of test cases
  MaxRequests \* bound: requests served

ASSUME CyclesAssumption ==
  /\ Planned \in Seq(Cases)
  /\ \A k, l \in DOMAIN Planned : Planned[k] = Planned[l] => k = l
  /\ Results \subseteq {"passed", "failed", "skipped", "blocked"}
  /\ MaxEdits \in Nat
  /\ MaxRequests \in Nat
  /\ 0 \notin Titles

VARIABLES
  title,     \* the live title of each case, 0 once it is deleted
  items,     \* the items array of the document
  status,    \* its status; "gone" once the cycle is deleted
  logged,    \* what the activity log says last of each case
  req,       \* what each request is doing
  edits,
  served,
  stale,     \* history: requests whose copy of the items is out of date
  lost,      \* history: an out-of-date copy was written
  manual,    \* history: update_cycle set the status
  removed,   \* history: an item was removed
  whole      \* history: every case it was created with existed

hist == <<stale, lost, manual, removed, whole>>
docVars == <<items, status, logged>>
vars == <<title, docVars, req, edits, served, hist>>

ItemStatus == {"pending"} \cup Results
CycleStatus == {"draft", "active", "completed"}
Item == [case : Cases, title : Titles, status : ItemStatus, order : Nat]
Op == {"none", "get", "set", "add", "remove"}
Request == [op : Op, at : {"idle", "read", "refresh", "apply"}, todo : SUBSET Cases,
            to : ItemStatus, items : Seq(Item), status : CycleStatus]
Idle == [op |-> "none", at |-> "idle", todo |-> {}, to |-> "pending", items |-> <<>>,
         status |-> "draft"]

CasesOf(seq) == {seq[k].case : k \in DOMAIN seq}
Exists == status # "gone"

TypeOK ==
  /\ title \in [Cases -> Titles \cup {0}]
  /\ items \in Seq(Item)
  /\ status \in CycleStatus \cup {"gone"}
  /\ logged \in [Cases -> ItemStatus \cup {"none"}]
  /\ req \in [Threads -> Request]
  /\ edits \in 0 .. MaxEdits
  /\ served \in 0 .. MaxRequests
  /\ stale \subseteq Threads
  /\ lost \in BOOLEAN /\ manual \in BOOLEAN /\ removed \in BOOLEAN /\ whole \in BOOLEAN

(* _cycle_item_from_case. *)
NewItem(c, order) ==
  [case |-> c, title |-> title[c], status |-> "pending", order |-> order]

(* create_cycle: one item per distinct case, numbered from 1.  A case that *)
(* is gone (a template does not follow its cases) is skipped, its number   *)
(* with it: live[n] is the place of the n-th of the others.                *)
Live == {k \in DOMAIN Planned : title[Planned[k]] # 0}
Init ==
  /\ title \in [Cases -> Titles \cup {0}]
  /\ \E live \in [1 .. Cardinality(Live) -> Live] :
       /\ \A n \in DOMAIN live : Cardinality({k \in Live : k <= live[n]}) = n
       /\ items = [n \in DOMAIN live |-> NewItem(Planned[live[n]], live[n])]
  /\ whole = (Live = DOMAIN Planned)
  /\ status = "draft"
  /\ logged = [c \in Cases |-> IF c \in CasesOf(items) THEN "pending" ELSE "none"]
  /\ req = [t \in Threads |-> Idle]
  /\ edits = 0
  /\ served = 0
  /\ stale = {}
  /\ lost = FALSE
  /\ manual = FALSE
  /\ removed = FALSE

-----------------------------------------------------------------------------
(* Requests. *)

Begin(t, op, cs, to) ==
  /\ req[t] = Idle
  /\ served < MaxRequests
  /\ served' = served + 1
  /\ req' = [req EXCEPT ![t] = [Idle EXCEPT !.op = op, !.at = "read",
                                            !.todo = cs, !.to = to]]

BeginGet(t) == Begin(t, "get", {}, "pending") /\ UNCHANGED <<title, docVars, edits, hist>>

(* set_cycle_item_status, and batch_cycle_item_status one item at a time. *)
BeginSet(t, cs, to) ==
  /\ cs # {}
  /\ Begin(t, "set", cs, to)
  /\ UNCHANGED <<title, docVars, edits, hist>>

BeginAdd(t, c) == Begin(t, "add", {c}, "pending") /\ UNCHANGED <<title, docVars, edits, hist>>
BeginRemove(t, c) ==
  Begin(t, "remove", {c}, "pending") /\ UNCHANGED <<title, docVars, edits, hist>>

(* update_cycle takes any status; its answer is a get_cycle. *)
UpdateStatus(t, s) ==
  /\ Exists
  /\ status' = s
  /\ manual' = TRUE
  /\ Begin(t, "get", {}, "pending")
  /\ UNCHANGED <<title, items, logged, edits, stale, lost, removed, whole>>

DeleteCycle ==
  /\ Exists
  /\ status' = "gone"
  /\ UNCHANGED <<title, items, logged, req, edits, served, hist>>

(* A test case is renamed or deleted elsewhere. *)
EditCase(c, new) ==
  /\ edits < MaxEdits
  /\ title[c] # 0
  /\ title' = [title EXCEPT ![c] = new]
  /\ edits' = edits + 1
  /\ UNCHANGED <<docVars, req, served, hist>>

(* get_cycle refreshes every item whose case still exists. *)
Refreshed ==
  [k \in DOMAIN items |->
     IF title[items[k].case] = 0 THEN items[k]
     ELSE [items[k] EXCEPT !.title = title[items[k].case]]]

End(t) == req' = [req EXCEPT ![t] = Idle]

Read(t) ==
  /\ req[t].at = "read"
  /\ IF Exists
       THEN req' = [req EXCEPT ![t].at = IF Refreshed = items THEN "apply" ELSE "refresh",
                               ![t].items = Refreshed, ![t].status = status]
       ELSE End(t)
  /\ stale' = stale \ {t}
  /\ UNCHANGED <<title, docVars, edits, served, lost, manual, removed, whole>>

(* update_one with the whole items array.                                  *)
WriteItems(t, new) ==
  /\ items' = IF Exists THEN new ELSE items
  /\ stale' = (stale \cup {u \in Threads : req[u].at \in {"refresh", "apply"}}) \ {t}
  /\ lost' = (lost \/ (Exists /\ t \in stale))

(* Mutant: the refreshed titles are written into a bare item. *)
Refresh_Resets(t) ==
  /\ req[t].at = "refresh"
  /\ WriteItems(t, [k \in DOMAIN req[t].items |-> [req[t].items[k] EXCEPT !.status = "pending"]])
  /\ req' = [req EXCEPT ![t].at = "apply"]
  /\ UNCHANGED <<title, status, logged, edits, served, manual, removed, whole>>

(* The write back of get_cycle. *)
Refresh(t) ==
  /\ req[t].at = "refresh"
  /\ WriteItems(t, req[t].items)
  /\ req' = [req EXCEPT ![t].at = "apply"]
  /\ UNCHANGED <<title, status, logged, edits, served, manual, removed, whole>>

AnswerGet(t) ==
  /\ req[t].at = "apply"
  /\ req[t].op = "get"
  /\ End(t)
  /\ UNCHANGED <<title, docVars, edits, served, hist>>

Log(changes) == logged' = IF Exists THEN changes ELSE logged

AllDone(seq) == seq # <<>> /\ \A k \in DOMAIN seq : seq[k].status \in Results

(* The status a set leaves the cycle in. *)
NewStatus(old, seq, to) ==
  CASE AllDone(seq) -> "completed"
    [] ~AllDone(seq) /\ old = "draft" /\ to # "pending" -> "active"
    [] OTHER -> old

Changed(seq, c, to) ==
  [k \in DOMAIN seq |-> IF seq[k].case = c THEN [seq[k] EXCEPT !.status = to] ELSE seq[k]]

(* The items and the status are written together, from the same copy; an   *)
(* item that is not there fails the request and, in a batch, the rest.     *)
SetItem(t, c) ==
  LET new == Changed(req[t].items, c, req[t].to) IN
  /\ req[t].at = "apply"
  /\ req[t].op = "set"
  /\ c \in req[t].todo
  /\ IF c \in CasesOf(req[t].items)
       THEN /\ WriteItems(t, new)
            /\ status' = IF Exists THEN NewStatus(req[t].status, new, req[t].to) ELSE status
            /\ Log([logged EXCEPT ![c] = req[t].to])
            /\ req' = IF req[t].todo = {c}
                        THEN [req EXCEPT ![t] = Idle]
                        ELSE [req EXCEPT ![t].at = "read", ![t].todo = @ \ {c},
                                         ![t].items = <<>>, ![t].status = "draft"]
       ELSE End(t) /\ UNCHANGED <<docVars, stale, lost>>
  /\ UNCHANGED <<title, edits, served, manual, removed, whole>>

With(seq, c) == Append(seq, NewItem(c, Len(seq) + 1))

(* add_cycle_items: cases that are gone or already there are skipped, the  *)
(* title of another item is refused.                                       *)
AddItem(t, c) ==
  LET old == req[t].items
      fresh == title[c] # 0 /\ c \notin CasesOf(old)
      twin == \E k \in DOMAIN old : old[k].title = title[c]
      new == IF fresh THEN With(old, c) ELSE old
  IN
  /\ req[t].at = "apply"
  /\ req[t].op = "add"
  /\ c \in req[t].todo
  /\ IF fresh /\ twin
       THEN UNCHANGED <<docVars, stale, lost>>
       ELSE /\ WriteItems(t, new)
            /\ Log(IF fresh THEN [logged EXCEPT ![c] = "pending"] ELSE logged)
            /\ UNCHANGED status
  /\ End(t)
  /\ UNCHANGED <<title, edits, served, manual, removed, whole>>

(* The item of c, whose id the caller sent, leaves the array. *)
Left(seq, c) ==
  IF c \in CasesOf(seq)
    THEN LET gap == CHOOSE k \in DOMAIN seq : seq[k].case = c IN
         [k \in 1 .. Len(seq) - 1 |-> IF k < gap THEN seq[k] ELSE seq[k + 1]]
    ELSE seq

(* Mutant: the other items keep their numbers. *)
Without_Gap(seq, c) == Left(seq, c)

Without(seq, c) == [k \in DOMAIN Left(seq, c) |-> [Left(seq, c)[k] EXCEPT !.order = k]]

(* remove_cycle_item renumbers what is left and lets the status be. *)
RemoveItem(t, c) ==
  /\ req[t].at = "apply"
  /\ req[t].op = "remove"
  /\ c \in req[t].todo
  /\ WriteItems(t, Without(req[t].items, c))
  /\ Log([logged EXCEPT ![c] = "none"])
  /\ removed' = TRUE
  /\ End(t)
  /\ UNCHANGED <<title, status, edits, served, manual, whole>>

Next ==
  \/ \E t \in Threads :
       \/ BeginGet(t) \/ Read(t) \/ Refresh(t) \/ AnswerGet(t)
       \/ \E cs \in SUBSET Cases, to \in ItemStatus : BeginSet(t, cs, to)
       \/ \E c \in Cases :
            BeginAdd(t, c) \/ BeginRemove(t, c)
            \/ SetItem(t, c) \/ AddItem(t, c) \/ RemoveItem(t, c)
       \/ \E s \in CycleStatus : UpdateStatus(t, s)
  \/ \E c \in Cases, new \in Titles \cup {0} : EditCase(c, new)
  \/ DeleteCycle

Spec == Init /\ [][Next]_vars

-----------------------------------------------------------------------------
(* Properties.  A request that writes an out-of-date copy (lost) undoes    *)
(* what others did; apart from that the document and its log agree.        *)

(* Every item shows the status its last status_changed activity reports,   *)
(* and the items are those the log added and did not remove.               *)
LogAgrees ==
  ~lost /\ Exists =>
    /\ CasesOf(items) = {c \in Cases : logged[c] # "none"}
    /\ \A k \in DOMAIN items : items[k].status = logged[items[k].case]

(* Whatever requests overlap, a case is in the cycle once and the items    *)
(* are numbered without gaps or repeats, if they were when the cycle was   *)
(* created: the array is written whole.                                    *)
ItemsNumbered ==
  /\ whole => \A k \in DOMAIN items : items[k].order = k
  /\ \A k, l \in DOMAIN items : items[k].case = items[l].case => k = l

(* A draft has no executed item: the first result activates the cycle.     *)
DraftUnexecuted ==
  status = "draft" /\ ~lost /\ ~manual =>
    \A k \in DOMAIN items : items[k].status = "pending"

(* A cycle whose items are all executed is completed, unless the last      *)
(* pending one was removed: only set_cycle_item_status looks.              *)
AllDoneCompletes == AllDone(items) /\ Exists /\ ~lost /\ ~manual /\ ~removed => status = "completed"

(* store/test_cycles.py: the items of a cycle keep their numbers and the   *)
(* cycle its status, as far as whole-array writes let them: numbered as    *)
(* they stand, a draft executed nowhere, and completed once all is done.   *)
CycleSound == TypeOK /\ ItemsNumbered /\ DraftUnexecuted /\ AllDoneCompletes
====
