-------------------------- MODULE TestCycles_proofs --------------------------
(***************************************************************************)
(* The items, the log and the status of a test cycle agree, for any cases, *)
(* threads, results and plan, until a request writes an out-of-date copy.  *)
(*                                                                         *)
(* And what can be answered of a validator run is whole, one run is open,  *)
(* and its score is that of its answers, for any replies and submissions.  *)
(***************************************************************************)
EXTENDS Execution, SequenceTheorems, FiniteSetTheorems, TLAPS

-----------------------------------------------------------------------------
(* Arrays of items *)

\* A case is there once, and the items are numbered if they were at first.
Distinct(seq) == \A k, l \in DOMAIN seq : seq[k].case = seq[l].case => k = l
Numbered(seq) == whole => \A k \in DOMAIN seq : seq[k].order = k
Array(seq) == seq \in Seq(Item) /\ Distinct(seq) /\ Numbered(seq)

\* Two arrays with the same cases in the same states.
Same(a, b) == /\ DOMAIN a = DOMAIN b
              /\ \A k \in DOMAIN a : a[k].case = b[k].case /\ a[k].status = b[k].status

\* An array shows what a log says.
Shows(seq, log) == /\ CasesOf(seq) = {c \in Cases : log[c] # "none"}
                   /\ \A k \in DOMAIN seq : seq[k].status = log[seq[k].case]

LEMMA IsArray ==
  ASSUME NEW n \in Nat, NEW seq \in [1 .. n -> Item]
  PROVE  seq \in Seq(Item) /\ Len(seq) = n /\ DOMAIN seq = 1 .. n
<1>1. seq \in Seq(Item)
  BY SeqDef
<1>. QED
  BY <1>1, LenProperties

LEMMA EmptyArray == Array(<<>>)
<1>1. <<>> \in Seq(Item) /\ Len(<<>>) = 0
  BY EmptySeq
<1>2. DOMAIN (<<>>) = 1 .. 0
  BY <1>1, LenProperties
<1>. QED
  BY <1>1, <1>2 DEF Array, Distinct, Numbered

LEMMA ArrayIs ==
  ASSUME NEW seq, Array(seq)
  PROVE  /\ Len(seq) \in Nat /\ DOMAIN seq = 1 .. Len(seq) /\ seq \in [1 .. Len(seq) -> Item]
         /\ \A k \in DOMAIN seq : seq[k] \in Item /\ seq[k].case \in Cases
<1>1. Len(seq) \in Nat /\ DOMAIN seq = 1 .. Len(seq) /\ seq \in [1 .. Len(seq) -> Item]
  BY LenProperties DEF Array
<1>2. \A k \in DOMAIN seq : seq[k] \in Item
  BY <1>1
<1>3. \A k \in DOMAIN seq : seq[k].case \in Cases
  BY <1>2 DEF Item
<1>. QED
  BY <1>1, <1>2, <1>3

LEMMA SameShows ==
  ASSUME NEW a, NEW b, NEW log, Same(a, b), Shows(b, log)
  PROVE  Shows(a, log)
BY DEF Same, Shows, CasesOf

LEMMA SameDone ==
  ASSUME NEW a, NEW b, Same(a, b), Array(a), Array(b), AllDone(a)
  PROVE  AllDone(b)
<1>1. Len(a) \in Nat /\ DOMAIN a = 1 .. Len(a) /\ Len(b) \in Nat /\ DOMAIN b = 1 .. Len(b)
  BY ArrayIs
<1>2. a \in Seq(Item) /\ a # <<>>
  BY DEF Array, AllDone
<1>3. Len(a) # 0
  BY <1>2, EmptySeq
<1>4. 1 \in DOMAIN b
  BY <1>1, <1>3 DEF Same
<1>5. b # <<>>
  BY <1>4, EmptySeq, LenProperties
<1>. QED
  BY <1>5 DEF Same, AllDone

LEMMA SameTransitive ==
  ASSUME NEW a, NEW b, NEW c, Same(a, b), Same(b, c)
  PROVE  Same(a, c)
BY DEF Same

\* get_cycle: only titles change.
LEMMA RefreshedSame ==
  ASSUME Array(items), title \in [Cases -> Titles \cup {0}]
  PROVE  Array(Refreshed) /\ Same(Refreshed, items)
<1>1. /\ Len(items) \in Nat /\ DOMAIN items = 1 .. Len(items) /\ items \in [1 .. Len(items) -> Item]
      /\ \A k \in DOMAIN items : items[k] \in Item /\ items[k].case \in Cases
  BY ArrayIs
<1>2. ASSUME NEW k \in DOMAIN items
      PROVE  /\ Refreshed[k] \in Item
             /\ Refreshed[k].case = items[k].case /\ Refreshed[k].status = items[k].status
             /\ Refreshed[k].order = items[k].order
  <2>1. items[k] \in Item /\ title[items[k].case] \in Titles \cup {0}
    BY <1>1
  <2>2. Refreshed[k] = IF title[items[k].case] = 0 THEN items[k]
                       ELSE [items[k] EXCEPT !.title = title[items[k].case]]
    BY DEF Refreshed
  <2>. QED
    BY <2>1, <2>2 DEF Item
<1>3. Refreshed \in [1 .. Len(items) -> Item] /\ DOMAIN Refreshed = DOMAIN items
  BY <1>1, <1>2 DEF Refreshed
<1>. QED
  BY <1>1, <1>2, <1>3, IsArray DEF Array, Distinct, Numbered, Same

\* set_cycle_item_status: one status changes.
LEMMA ChangedArray ==
  ASSUME NEW seq, Array(seq), NEW c \in Cases, NEW to \in ItemStatus
  PROVE  /\ Array(Changed(seq, c, to)) /\ DOMAIN Changed(seq, c, to) = DOMAIN seq
         /\ \A k \in DOMAIN seq : /\ Changed(seq, c, to)[k].case = seq[k].case
                                  /\ Changed(seq, c, to)[k].status = IF seq[k].case = c THEN to ELSE seq[k].status
<1>1. /\ Len(seq) \in Nat /\ DOMAIN seq = 1 .. Len(seq)
      /\ \A k \in DOMAIN seq : seq[k] \in Item /\ seq[k].case \in Cases
  BY ArrayIs
<1> DEFINE new == Changed(seq, c, to)
<1>2. ASSUME NEW k \in DOMAIN seq
      PROVE  /\ new[k] \in Item
             /\ new[k].case = seq[k].case /\ new[k].order = seq[k].order
             /\ new[k].status = IF seq[k].case = c THEN to ELSE seq[k].status
  <2>1. seq[k] \in Item
    BY <1>1
  <2>2. new[k] = IF seq[k].case = c THEN [seq[k] EXCEPT !.status = to] ELSE seq[k]
    BY DEF Changed
  <2>. QED
    BY <2>1, <2>2 DEF Item
<1>3. new \in [1 .. Len(seq) -> Item] /\ DOMAIN new = DOMAIN seq
  BY <1>1, <1>2 DEF Changed
<1>. QED
  BY <1>1, <1>2, <1>3, IsArray DEF Array, Distinct, Numbered

\* add_cycle_items: one item more, of a case that was not there.
LEMMA WithArray ==
  ASSUME NEW seq, Array(seq), NEW c \in Cases, c \notin CasesOf(seq), title[c] \in Titles
  PROVE  /\ Array(With(seq, c)) /\ DOMAIN With(seq, c) = 1 .. Len(seq) + 1
         /\ \A k \in DOMAIN seq : With(seq, c)[k] = seq[k]
         /\ With(seq, c)[Len(seq) + 1] = NewItem(c, Len(seq) + 1)
<1>1. /\ seq \in Seq(Item) /\ Len(seq) \in Nat /\ DOMAIN seq = 1 .. Len(seq)
      /\ \A k \in DOMAIN seq : seq[k] \in Item /\ seq[k].case \in Cases /\ seq[k].case # c
  BY ArrayIs DEF Array, CasesOf
<1> DEFINE e == NewItem(c, Len(seq) + 1)
           new == With(seq, c)
<1>2. e \in Item /\ e.case = c /\ e.order = Len(seq) + 1
  BY <1>1 DEF NewItem, Item, ItemStatus
<1>3. /\ new \in Seq(Item) /\ Len(new) = Len(seq) + 1
      /\ \A k \in 1 .. Len(seq) : new[k] = seq[k]
      /\ new[Len(seq) + 1] = e
  BY <1>1, <1>2, AppendProperties DEF With
<1>4. DOMAIN new = 1 .. Len(seq) + 1
  BY <1>3, LenProperties
<1> HIDE DEF e, new
<1>5. Distinct(new)
  <2> SUFFICES ASSUME NEW k \in 1 .. Len(seq) + 1, NEW l \in 1 .. Len(seq) + 1, new[k].case = new[l].case
               PROVE  k = l
    BY <1>4 DEF Distinct
  <2>1. CASE k = Len(seq) + 1 /\ l = Len(seq) + 1
    BY <2>1
  <2>2. CASE k = Len(seq) + 1 /\ l # Len(seq) + 1
    <3>1. l \in 1 .. Len(seq)
      BY <1>1, <2>2
    <3>. QED
      BY <1>1, <1>2, <1>3, <2>2, <3>1
  <2>3. CASE k # Len(seq) + 1 /\ l = Len(seq) + 1
    <3>1. k \in 1 .. Len(seq)
      BY <1>1, <2>3
    <3>. QED
      BY <1>1, <1>2, <1>3, <2>3, <3>1
  <2>4. CASE k # Len(seq) + 1 /\ l # Len(seq) + 1
    <3>1. k \in 1 .. Len(seq) /\ l \in 1 .. Len(seq)
      BY <1>1, <2>4
    <3>2. new[k] = seq[k] /\ new[l] = seq[l]
      BY <1>3, <3>1
    <3>. QED
      BY <1>1, <3>1, <3>2 DEF Array, Distinct
  <2>. QED
    BY <2>1, <2>2, <2>3, <2>4
<1>6. Numbered(new)
  <2> SUFFICES ASSUME whole, NEW k \in 1 .. Len(seq) + 1 PROVE new[k].order = k
    BY <1>4 DEF Numbered
  <2>1. CASE k = Len(seq) + 1
    BY <1>2, <1>3, <2>1
  <2>2. CASE k # Len(seq) + 1
    <3>1. k \in 1 .. Len(seq)
      BY <1>1, <2>2
    <3>. QED
      BY <1>1, <1>3, <3>1 DEF Array, Numbered
  <2>. QED
    BY <2>1, <2>2
<1>. QED
  BY <1>1, <1>3, <1>4, <1>5, <1>6 DEF Array, new, e

\* remove_cycle_item: the others move up and are numbered again.
LEMMA WithoutArray ==
  ASSUME NEW seq, Array(seq), NEW c \in Cases
  PROVE  /\ Array(Without(seq, c))
         /\ CasesOf(Without(seq, c)) = CasesOf(seq) \ {c}
         /\ \A k \in DOMAIN Without(seq, c) :
              \E l \in DOMAIN seq : /\ Without(seq, c)[k].case = seq[l].case
                                    /\ Without(seq, c)[k].status = seq[l].status
<1>1. /\ Len(seq) \in Nat /\ DOMAIN seq = 1 .. Len(seq) /\ seq \in [1 .. Len(seq) -> Item]
      /\ \A k \in DOMAIN seq : seq[k] \in Item /\ seq[k].case \in Cases
  BY ArrayIs
<1> DEFINE rest == Left(seq, c)
           new == Without(seq, c)
<1> DEFINE Keeps(n, at) ==
           /\ rest \in [1 .. n -> Item]
           /\ \A k \in 1 .. n : rest[k] = seq[at[k]] /\ rest[k].case # c
           /\ \A k, l \in 1 .. n : at[k] = at[l] => k = l
           /\ \A l \in DOMAIN seq : seq[l].case # c => \E k \in 1 .. n : at[k] = l
<1>a. \E n \in Nat : \E at \in [1 .. n -> DOMAIN seq] : Keeps(n, at)
  <2>1. CASE c \notin CasesOf(seq)
    <3> DEFINE id == [k \in 1 .. Len(seq) |-> k]
    <3>1. id \in [1 .. Len(seq) -> DOMAIN seq] /\ \A k \in 1 .. Len(seq) : id[k] = k
      BY <1>1
    <3>2. rest = seq
      BY <2>1 DEF Left
    <3>3. \A k \in DOMAIN seq : seq[k].case # c
      BY <2>1 DEF CasesOf
    <3> HIDE DEF id
    <3>. QED
      BY <1>1, <3>1, <3>2, <3>3
  <2>2. CASE c \in CasesOf(seq)
    <3> DEFINE gap == CHOOSE k \in DOMAIN seq : seq[k].case = c
               up == [k \in 1 .. Len(seq) - 1 |-> IF k < gap THEN k ELSE k + 1]
    <3>1. gap \in 1 .. Len(seq) /\ seq[gap].case = c
      BY <1>1, <2>2 DEF CasesOf
    <3>2. rest = [k \in 1 .. Len(seq) - 1 |-> IF k < gap THEN seq[k] ELSE seq[k + 1]]
      BY <2>2 DEF Left
    <3> HIDE DEF gap
    <3>3. Len(seq) - 1 \in Nat
      BY <1>1, <3>1
    <3>4. up \in [1 .. Len(seq) - 1 -> 1 .. Len(seq)]
      BY <1>1, <3>1
    <3>5. \A k \in 1 .. Len(seq) - 1 : up[k] = (IF k < gap THEN k ELSE k + 1) /\ up[k] # gap
      BY <1>1, <3>1
    <3>6. \A k \in 1 .. Len(seq) - 1 : rest[k] = seq[up[k]]
      BY <3>2, <3>5
    <3> HIDE DEF up, rest
    <3>7. \A k, l \in 1 .. Len(seq) - 1 : up[k] = up[l] => k = l
      BY <1>1, <3>1, <3>5
    <3>8. \A l \in 1 .. Len(seq) : l # gap => \E k \in 1 .. Len(seq) - 1 : up[k] = l
      <4> SUFFICES ASSUME NEW l \in 1 .. Len(seq), l # gap PROVE \E k \in 1 .. Len(seq) - 1 : up[k] = l
        OBVIOUS
      <4>1. CASE l < gap
        <5>1. l \in 1 .. Len(seq) - 1
          BY <1>1, <3>1, <4>1
        <5>. QED
          BY <3>5, <4>1, <5>1
      <4>2. CASE l > gap
        <5>1. l - 1 \in 1 .. Len(seq) - 1 /\ ~(l - 1 < gap) /\ (l - 1) + 1 = l
          BY <1>1, <3>1, <4>2
        <5>. QED
          BY <3>5, <5>1
      <4>. QED
        BY <1>1, <3>1, <4>1, <4>2
    <3>9. \A k \in 1 .. Len(seq) - 1 : rest[k] \in Item /\ rest[k].case # c
      <4> SUFFICES ASSUME NEW k \in 1 .. Len(seq) - 1 PROVE rest[k] \in Item /\ rest[k].case # c
        OBVIOUS
      <4>1. up[k] \in DOMAIN seq /\ up[k] # gap /\ gap \in DOMAIN seq
        BY <1>1, <3>1, <3>4, <3>5
      <4>. QED
        BY <1>1, <3>1, <3>6, <4>1 DEF Array, Distinct
    <3>10. rest \in [1 .. Len(seq) - 1 -> Item]
      BY <3>2, <3>9
    <3>11. \A l \in DOMAIN seq : seq[l].case # c => \E k \in 1 .. Len(seq) - 1 : up[k] = l
      BY <1>1, <3>1, <3>8
    <3>12. up \in [1 .. Len(seq) - 1 -> DOMAIN seq]
      BY <1>1, <3>4
    <3>13. Keeps(Len(seq) - 1, up)
      BY <3>6, <3>7, <3>9, <3>10, <3>11
    <3> HIDE DEF Keeps
    <3>. QED
      BY <3>3, <3>12, <3>13
  <2>. QED
    BY <2>1, <2>2
<1>b. PICK n \in Nat : \E at \in [1 .. n -> DOMAIN seq] : Keeps(n, at)
  BY <1>a
<1>2. PICK at \in [1 .. n -> DOMAIN seq] : Keeps(n, at)
  BY <1>b
<1> HIDE DEF rest
<1>3. ASSUME NEW k \in 1 .. n
      PROVE  new[k] \in Item /\ new[k].case = seq[at[k]].case /\ new[k].status = seq[at[k]].status /\ new[k].order = k
  <2>1. rest[k] \in Item /\ rest[k] = seq[at[k]] /\ k \in Nat
    BY <1>2
  <2>2. new[k] = [rest[k] EXCEPT !.order = k]
    BY <1>2 DEF Without, rest
  <2>. QED
    BY <2>1, <2>2 DEF Item
<1>4. new \in [1 .. n -> Item] /\ DOMAIN new = 1 .. n
  BY <1>2, <1>3 DEF Without, rest
<1>5. new \in Seq(Item)
  BY <1>2, <1>4, IsArray
<1> HIDE DEF new
<1>6. Distinct(new)
  BY <1>1, <1>2, <1>3, <1>4 DEF Distinct, Array
<1>7. CasesOf(new) = CasesOf(seq) \ {c}
  <2>1. ASSUME NEW k \in 1 .. n PROVE new[k].case \in CasesOf(seq) \ {c}
    <3>1. at[k] \in DOMAIN seq /\ rest[k] = seq[at[k]] /\ rest[k].case # c
      BY <1>2
    <3>. QED
      BY <1>3, <3>1 DEF CasesOf
  <2>2. ASSUME NEW l \in DOMAIN seq, seq[l].case # c PROVE seq[l].case \in CasesOf(new)
    <3>1. PICK k \in 1 .. n : at[k] = l
      BY <1>2, <2>2
    <3>. QED
      BY <1>3, <1>4, <3>1 DEF CasesOf
  <2>. QED
    BY <1>4, <2>1, <2>2 DEF CasesOf
<1>. QED
  BY <1>2, <1>3, <1>4, <1>5, <1>6, <1>7 DEF Array, Numbered, new

-----------------------------------------------------------------------------
(* The inductive invariant *)

Requests == req \in [Threads -> Request] /\ \A t \in Threads : Array(req[t].items)
Typed == TypeOK /\ Array(items) /\ Requests

\* A copy that is not out of date is the document, but for titles; its status
\* is that of the document unless update_cycle set that one or a copy that was
\* out of date has been written.
Copying(t) == req[t].at \in {"refresh", "apply"}
Fresh(t) == Copying(t) /\ t \notin stale /\ Exists =>
              Same(req[t].items, items) /\ (manual \/ lost \/ req[t].status = status)
Copies == \A t \in Threads : Fresh(t)

Agreement == LogAgrees /\ DraftUnexecuted /\ AllDoneCompletes
IInv == Typed /\ Copies /\ Agreement

LEMMA Statuses == "pending" \notin Results /\ "none" \notin ItemStatus
BY CyclesAssumption DEF ItemStatus

LEMMA NewStatusIs ==
  ASSUME NEW seq, NEW old \in CycleStatus, NEW to
  PROVE  /\ NewStatus(old, seq, to) \in CycleStatus
         /\ AllDone(seq) => NewStatus(old, seq, to) = "completed"
         /\ NewStatus(old, seq, to) = "draft" => old = "draft" /\ to = "pending"
BY DEF NewStatus, CycleStatus

\* What an array is does not change.
LEMMA StillArray == ASSUME UNCHANGED whole PROVE \A seq : Array(seq) => Array(seq)'
BY DEF Array, Distinct, Numbered

LEMMA Becomes ==
  ASSUME Requests, UNCHANGED whole, NEW t \in Threads, NEW r \in Request, Array(r.items),
         req' = [req EXCEPT ![t] = r]
  PROVE  Requests' /\ req'[t] = r /\ \A u \in Threads \ {t} : req'[u] = req[u]
<1>1. req' \in [Threads -> Request] /\ req'[t] = r /\ \A u \in Threads \ {t} : req'[u] = req[u]
  BY DEF Requests
<1>2. \A u \in Threads : Array(req'[u].items)
  BY <1>1 DEF Requests
<1>3. \A u \in Threads : Array(req[u].items)'
  BY <1>2 DEF Array, Distinct, Numbered
<1>. QED
  BY <1>1, <1>3 DEF Requests

LEMMA IdleRequest == Idle \in Request /\ Array(Idle.items) /\ Idle.at = "idle"
<1>1. <<>> \in Seq(Item)
  BY EmptySeq
<1>. QED
  BY <1>1, EmptyArray DEF Idle, Request, Op, ItemStatus, CycleStatus

LEMMA Ends ==
  ASSUME Requests, UNCHANGED whole, NEW t \in Threads, End(t)
  PROVE  Requests' /\ req'[t].at = "idle" /\ \A u \in Threads \ {t} : req'[u] = req[u]
BY IdleRequest, Becomes DEF End

LEMMA Begins ==
  ASSUME Typed, UNCHANGED whole, NEW t \in Threads, NEW op \in Op, NEW cs \in SUBSET Cases, NEW to \in ItemStatus,
         Begin(t, op, cs, to)
  PROVE  /\ Requests' /\ req'[t].at = "read" /\ \A u \in Threads \ {t} : req'[u] = req[u]
         /\ served' \in 0 .. MaxRequests
<1> DEFINE r == [Idle EXCEPT !.op = op, !.at = "read", !.todo = cs, !.to = to]
<1>1. <<>> \in Seq(Item)
  BY EmptySeq
<1>2. r \in Request /\ r.items = <<>> /\ r.at = "read"
  BY <1>1 DEF Idle, Request, CycleStatus
<1>3. req' = [req EXCEPT ![t] = r]
  BY DEF Begin
<1>4. served' \in 0 .. MaxRequests
  BY CyclesAssumption DEF Begin, Typed, TypeOK
<1> HIDE DEF r
<1>. QED
  BY <1>2, <1>3, <1>4, EmptyArray, Becomes DEF Typed

-----------------------------------------------------------------------------
(* Copies *)

\* While the array stays, the copies of the others stay what they are.
LEMMA OthersFresh ==
  ASSUME Copies, NEW t \in Threads, \A u \in Threads \ {t} : req'[u] = req[u], UNCHANGED items,
         Exists' => Exists, status' = status \/ manual', manual => manual', lost => lost', stale \ {t} \subseteq stale', Fresh(t)'
  PROVE  Copies'
<1>1. ASSUME NEW u \in Threads \ {t} PROVE Fresh(u)'
  BY <1>1 DEF Copies, Fresh, Copying, Same
<1>. QED
  BY <1>1 DEF Copies

\* Once it is written, theirs are out of date.
LEMMA OthersStale ==
  ASSUME NEW t \in Threads, NEW new, WriteItems(t, new), \A u \in Threads \ {t} : req'[u] = req[u], Fresh(t)'
  PROVE  Copies'
BY DEF Copies, Fresh, Copying, WriteItems

LEMMA NotCopying == ASSUME NEW t \in Threads, req'[t].at \in {"idle", "read"} PROVE Fresh(t)'
BY DEF Fresh, Copying

-----------------------------------------------------------------------------
(* What is written *)

LEMMA StillAgree ==
  ASSUME Agreement, UNCHANGED <<items, logged, removed>>,
         Exists' => Exists, status' = status \/ status' = "gone" \/ manual', lost => lost', manual => manual'
  PROVE  Agreement'
BY DEF Agreement, LogAgrees, DraftUnexecuted, AllDoneCompletes, AllDone, CasesOf, Exists

\* Of a deleted cycle nothing is said.
LEMMA NothingLeft == ASSUME status' = "gone" PROVE Agreement'
BY DEF Agreement, LogAgrees, DraftUnexecuted, AllDoneCompletes, Exists

\* A request that writes and lost nothing wrote what was there.
LEMMA WritesCopy ==
  ASSUME IInv, NEW t \in Threads, NEW new, WriteItems(t, new), Copying(t), Exists, ~lost'
  PROVE  /\ ~lost /\ items' = new /\ Same(req[t].items, items) /\ (manual \/ req[t].status = status)
         /\ Shows(req[t].items, logged)
<1>1. ~lost /\ t \notin stale /\ items' = new
  BY DEF WriteItems
<1>2. Same(req[t].items, items) /\ (manual \/ req[t].status = status)
  BY <1>1 DEF IInv, Copies, Fresh
<1>3. Shows(items, logged)
  BY <1>1 DEF IInv, Agreement, LogAgrees, Shows
<1>. QED
  BY <1>1, <1>2, <1>3, SameShows

\* What Agreement says of the array written.
LEMMA Agrees ==
  ASSUME /\ ~lost' => Shows(items', logged')
         /\ status' = "draft" /\ ~lost' /\ ~manual' => \A k \in DOMAIN items' : items'[k].status = "pending"
         /\ AllDone(items') /\ ~lost' /\ ~manual' /\ ~removed' => status' = "completed"
  PROVE  Agreement'
BY DEF Agreement, LogAgrees, DraftUnexecuted, AllDoneCompletes, Shows, CasesOf, AllDone

LEMMA WritesArray ==
  ASSUME Array(items), NEW t \in Threads, NEW new, Array(new), WriteItems(t, new), UNCHANGED whole, stale \subseteq Threads
  PROVE  Array(items)' /\ stale' \subseteq Threads /\ lost' \in BOOLEAN
<1>1. Array(items')
  BY DEF WriteItems
<1>2. Array(items)'
  BY <1>1 DEF Array, Distinct, Numbered
<1>. QED
  BY <1>2 DEF WriteItems

\* A write back of the copy as it is.
LEMMA WritesBack ==
  ASSUME IInv, NEW t \in Threads, WriteItems(t, req[t].items), Copying(t),
         UNCHANGED <<status, manual, removed>>, UNCHANGED logged
  PROVE  Agreement'
<1>1. CASE ~Exists
  BY <1>1, NothingLeft DEF Exists
<1>2. CASE Exists
  <2>1. ASSUME ~lost'
        PROVE  /\ ~lost /\ items' = req[t].items /\ Same(req[t].items, items) /\ Shows(req[t].items, logged)
               /\ Array(req[t].items) /\ Array(items)
    BY <1>2, <2>1, WritesCopy DEF IInv, Typed, Requests
  <2>2. status' = "draft" /\ ~lost' /\ ~manual' => \A k \in DOMAIN items' : items'[k].status = "pending"
    BY <2>1 DEF IInv, Agreement, DraftUnexecuted, Same
  <2>3. AllDone(items') /\ ~lost' /\ ~manual' /\ ~removed' => status' = "completed"
    BY <1>2, <2>1, SameDone DEF IInv, Agreement, AllDoneCompletes
  <2>. QED
    BY <2>1, <2>2, <2>3, Agrees
<1>. QED
  BY <1>1, <1>2

-----------------------------------------------------------------------------
(* The actions *)

LEMMA ReadKeeps == ASSUME IInv, NEW t \in Threads, Read(t) PROVE IInv'
<1>1. /\ Typed /\ Requests /\ TypeOK /\ Copies /\ Agreement /\ req \in [Threads -> Request] /\ UNCHANGED whole
      /\ status \in CycleStatus \cup {"gone"} /\ title \in [Cases -> Titles \cup {0}] /\ stale' = stale \ {t}
      /\ Array(items)
  BY DEF IInv, Typed, Requests, TypeOK, Read
<1>2. Array(Refreshed) /\ Same(Refreshed, items)
  BY <1>1, RefreshedSame
<1>3. CASE ~Exists
  <2>1. Requests' /\ req'[t].at = "idle" /\ \A u \in Threads \ {t} : req'[u] = req[u]
    BY <1>1, <1>3, Ends DEF Read
  <2>2. Copies'
    BY <1>1, <2>1, NotCopying, OthersFresh DEF Read, docVars, Exists
  <2>3. Agreement'
    BY <1>1, StillAgree DEF Read, docVars, Exists
  <2>4. Array(items)'
    BY <1>1, StillArray DEF Read, docVars, Array, Distinct, Numbered
  <2>5. TypeOK'
    BY <1>1, <2>1, <2>4 DEF Read, docVars, TypeOK, Requests, Array
  <2>. QED
    BY <2>1, <2>2, <2>3, <2>4, <2>5 DEF IInv, Typed
<1>4. CASE Exists
  <2> DEFINE point == IF Refreshed = items THEN "apply" ELSE "refresh"
             r == [req[t] EXCEPT !.at = point, !.items = Refreshed, !.status = status]
  <2>1. Refreshed \in Seq(Item) /\ status \in CycleStatus
    BY <1>1, <1>2, <1>4 DEF Array, Exists
  <2>2. point \in {"refresh", "apply"}
    OBVIOUS
  <2>3. req' = [req EXCEPT ![t] = r]
    BY <1>1, <1>4 DEF Read
  <2> HIDE DEF point
  <2>4. r \in Request /\ r.items = Refreshed /\ r.status = status
    BY <1>1, <2>1, <2>2 DEF Request
  <2> HIDE DEF r
  <2>5. Requests' /\ req'[t] = r /\ \A u \in Threads \ {t} : req'[u] = req[u]
    BY <1>1, <1>2, <2>3, <2>4, Becomes
  <2>6. Fresh(t)'
    BY <1>2, <2>4, <2>5 DEF Fresh, Read, docVars, Same
  <2>7. Copies'
    BY <1>1, <2>5, <2>6, OthersFresh DEF Read, docVars, Exists
  <2>8. Agreement'
    BY <1>1, StillAgree DEF Read, docVars, Exists
  <2>9. Array(items)'
    BY <1>1, StillArray DEF Read, docVars, Array, Distinct, Numbered
  <2>10. TypeOK'
    BY <1>1, <2>5, <2>9 DEF Read, docVars, TypeOK, Requests, Array
  <2>. QED
    BY <2>5, <2>7, <2>8, <2>9, <2>10 DEF IInv, Typed
<1>. QED
  BY <1>3, <1>4

\* Actions that leave the array and the log alone.
LEMMA StillKeeps ==
  ASSUME IInv, TypeOK', Requests', UNCHANGED <<items, logged, removed, lost, stale, whole>>, Exists' => Exists,
         status' = status \/ status' = "gone" \/ manual', manual => manual',
         \A u \in Threads : req'[u] = req[u] \/ req'[u].at \in {"idle", "read"}
  PROVE  IInv'
<1>1. Array(items)'
  BY DEF IInv, Typed, Array, Distinct, Numbered
<1>2. Agreement'
  BY StillAgree DEF IInv
<1>3. ASSUME NEW u \in Threads PROVE Fresh(u)'
  <2>1. CASE req'[u].at \in {"idle", "read"}
    BY <2>1, NotCopying
  <2>2. CASE req'[u] = req[u]
    BY <2>2 DEF IInv, Copies, Fresh, Copying, Same, Exists
  <2>. QED
    BY <2>1, <2>2
<1>. QED
  BY <1>1, <1>2, <1>3 DEF IInv, Typed, Copies

LEMMA BeginKeeps ==
  ASSUME IInv, NEW t \in Threads,
         \/ BeginGet(t) \/ AnswerGet(t) \/ \E s \in CycleStatus : UpdateStatus(t, s)
         \/ \E c \in Cases : BeginAdd(t, c) \/ BeginRemove(t, c)
         \/ \E cs \in SUBSET Cases, to \in ItemStatus : BeginSet(t, cs, to)
  PROVE  IInv'
<1>1. Typed /\ TypeOK /\ Requests
  BY DEF IInv, Typed
<1>2. ASSUME NEW op \in Op, NEW cs \in SUBSET Cases, NEW to \in ItemStatus, Begin(t, op, cs, to),
             UNCHANGED <<title, items, logged, edits, stale, lost, removed, whole>>,
             UNCHANGED <<status, manual>> \/ (Exists /\ status' \in CycleStatus /\ manual' = TRUE)
      PROVE  IInv'
  <2>1. /\ Requests' /\ req'[t].at = "read" /\ \A u \in Threads \ {t} : req'[u] = req[u]
        /\ served' \in 0 .. MaxRequests
    BY <1>1, <1>2, Begins
  <2>2. TypeOK'
    BY <1>1, <1>2, <2>1 DEF TypeOK, Requests
  <2>. QED
    BY <1>2, <2>1, <2>2, StillKeeps DEF Exists
<1>3. "get" \in Op /\ "set" \in Op /\ "add" \in Op /\ "remove" \in Op /\ "pending" \in ItemStatus
  BY DEF Op, ItemStatus
<1>4. ASSUME BeginGet(t) PROVE IInv'
  BY <1>2, <1>3, <1>4 DEF BeginGet, docVars, hist
<1>5. ASSUME NEW s \in CycleStatus, UpdateStatus(t, s) PROVE IInv'
  BY <1>2, <1>3, <1>5 DEF UpdateStatus, Exists, CycleStatus
<1>6. ASSUME NEW c \in Cases, BeginAdd(t, c) \/ BeginRemove(t, c) PROVE IInv'
  BY <1>2, <1>3, <1>6 DEF BeginAdd, BeginRemove, docVars, hist
<1>7. ASSUME NEW cs \in SUBSET Cases, NEW to \in ItemStatus, BeginSet(t, cs, to) PROVE IInv'
  BY <1>2, <1>3, <1>7 DEF BeginSet, docVars, hist
<1>8. ASSUME AnswerGet(t) PROVE IInv'
  <2>1. Requests' /\ req'[t].at = "idle" /\ \A u \in Threads \ {t} : req'[u] = req[u]
    BY <1>1, <1>8, Ends DEF AnswerGet, hist
  <2>2. TypeOK'
    BY <1>1, <1>8, <2>1 DEF AnswerGet, docVars, hist, TypeOK, Requests
  <2>. QED
    BY <1>8, <2>1, <2>2, StillKeeps DEF AnswerGet, docVars, hist, Exists
<1>. QED
  BY <1>4, <1>5, <1>6, <1>7, <1>8

LEMMA OutsideKeeps ==
  ASSUME IInv, DeleteCycle \/ \E c \in Cases, new \in Titles \cup {0} : EditCase(c, new)
  PROVE  IInv'
<1>1. Typed /\ TypeOK /\ Requests
  BY DEF IInv, Typed
<1>2. UNCHANGED <<items, logged, removed, lost, stale, whole, req, served, manual>>
  BY DEF DeleteCycle, EditCase, docVars, hist
<1>3. Requests'
  BY <1>1, <1>2 DEF Requests, Array, Distinct, Numbered
<1>4. CASE DeleteCycle
  <2>1. TypeOK'
    BY <1>1, <1>4 DEF DeleteCycle, docVars, hist, TypeOK
  <2>. QED
    BY <1>2, <1>3, <1>4, <2>1, StillKeeps DEF DeleteCycle
<1>5. ASSUME NEW c \in Cases, NEW new \in Titles \cup {0}, EditCase(c, new) PROVE IInv'
  <2>1. edits' \in 0 .. MaxEdits
    BY <1>1, <1>5, CyclesAssumption DEF EditCase, TypeOK
  <2>2. TypeOK'
    BY <1>1, <1>5, <2>1 DEF EditCase, docVars, hist, TypeOK
  <2>. QED
    BY <1>2, <1>3, <1>5, <2>2, StillKeeps DEF EditCase, docVars, Exists
<1>. QED
  BY <1>4, <1>5

\* get_cycle writes its copy back.
LEMMA RefreshKeeps == ASSUME IInv, NEW t \in Threads, Refresh(t) PROVE IInv'
<1>1. Typed /\ TypeOK /\ Requests /\ req \in [Threads -> Request] /\ Array(items) /\ Array(req[t].items) /\ stale \subseteq Threads
  BY DEF IInv, Typed, Requests, TypeOK
<1>2. WriteItems(t, req[t].items) /\ UNCHANGED <<status, logged, manual, removed, whole>> /\ Copying(t) /\ req[t].at = "refresh"
  BY DEF Refresh, Copying
<1>3. Array(items)' /\ stale' \subseteq Threads /\ lost' \in BOOLEAN
  BY <1>1, <1>2, WritesArray
<1> DEFINE r == [req[t] EXCEPT !.at = "apply"]
<1>4. r \in Request /\ r.items = req[t].items /\ r.status = req[t].status
  BY <1>1 DEF Request
<1>5. req' = [req EXCEPT ![t] = r]
  BY <1>1 DEF Refresh
<1> HIDE DEF r
<1>6. Requests' /\ req'[t] = r /\ \A u \in Threads \ {t} : req'[u] = req[u]
  BY <1>1, <1>2, <1>4, <1>5, Becomes
<1>7. Fresh(t)'
  <2> SUFFICES ASSUME Exists' PROVE Same(req[t].items, items)' /\ (manual' \/ lost' \/ req'[t].status = status')
    BY DEF Fresh
  <2>1. Exists /\ items' = req[t].items /\ (t \in stale \/ lost => lost')
    BY <1>2 DEF Exists, WriteItems
  <2>2. Same(req[t].items, items)'
    BY <1>4, <1>6, <2>1 DEF Same
  <2>3. ASSUME t \notin stale PROVE manual' \/ lost' \/ req'[t].status = status'
    BY <1>1, <1>2, <1>4, <1>6, <2>1, <2>3 DEF IInv, Copies, Fresh
  <2>. QED
    BY <2>1, <2>2, <2>3
<1>8. Copies'
  BY <1>2, <1>6, <1>7, OthersStale
<1>9. Agreement'
  BY <1>2, WritesBack
<1>10. TypeOK'
  BY <1>1, <1>2, <1>3, <1>6 DEF Refresh, TypeOK, Requests, Array
<1>. QED
  BY <1>3, <1>6, <1>8, <1>9, <1>10 DEF IInv, Typed

\* What the request that set, added or removed items leaves.
LEMMA WriteKeeps ==
  ASSUME IInv, NEW t \in Threads, NEW new, Array(new), WriteItems(t, new), Agreement',
         Requests', req'[t].at \in {"idle", "read"}, \A u \in Threads \ {t} : req'[u] = req[u],
         UNCHANGED <<title, edits, served, manual, whole>>, removed' \in BOOLEAN,
         status' \in CycleStatus \cup {"gone"}, logged' \in [Cases -> ItemStatus \cup {"none"}]
  PROVE  IInv'
<1>1. Typed /\ TypeOK /\ Requests /\ Array(items) /\ stale \subseteq Threads
  BY DEF IInv, Typed, TypeOK
<1>2. Array(items)' /\ stale' \subseteq Threads /\ lost' \in BOOLEAN
  BY <1>1, WritesArray
<1>3. Copies'
  BY OthersStale, NotCopying
<1>4. TypeOK'
  BY <1>1, <1>2 DEF TypeOK, Requests, Array
<1>. QED
  BY <1>2, <1>3, <1>4 DEF IInv, Typed

LEMMA SetKeeps == ASSUME IInv, NEW t \in Threads, NEW c \in Cases, SetItem(t, c) PROVE IInv'
<1>1. /\ Typed /\ TypeOK /\ Requests /\ req \in [Threads -> Request] /\ Array(req[t].items) /\ UNCHANGED whole
      /\ logged \in [Cases -> ItemStatus \cup {"none"}] /\ status \in CycleStatus \cup {"gone"} /\ removed \in BOOLEAN
      /\ removed' = removed /\ manual' = manual
  BY DEF IInv, Typed, Requests, TypeOK, SetItem
<1>2. CASE c \notin CasesOf(req[t].items)
  <2>1. End(t) /\ UNCHANGED <<docVars, stale, lost>>
    BY <1>2 DEF SetItem
  <2>2. Requests' /\ req'[t].at = "idle" /\ \A u \in Threads \ {t} : req'[u] = req[u]
    BY <1>1, <2>1, Ends
  <2>3. TypeOK'
    BY <1>1, <2>1, <2>2 DEF SetItem, docVars, TypeOK, Requests
  <2>. QED
    BY <1>1, <2>1, <2>2, <2>3, StillKeeps DEF docVars, Exists
<1>3. CASE c \in CasesOf(req[t].items)
  <2> DEFINE seq == req[t].items
             to == req[t].to
             new == Changed(seq, c, to)
  <2>1. to \in ItemStatus /\ req[t].status \in CycleStatus /\ to # "none"
    BY <1>1, Statuses DEF Request
  <2>2. /\ Array(new) /\ DOMAIN new = DOMAIN seq
        /\ \A k \in DOMAIN seq : new[k].case = seq[k].case /\ new[k].status = IF seq[k].case = c THEN to ELSE seq[k].status
    BY <1>1, <2>1, ChangedArray
  <2>3. /\ WriteItems(t, new) /\ Copying(t)
        /\ status' = IF Exists THEN NewStatus(req[t].status, new, to) ELSE status
        /\ logged' = IF Exists THEN [logged EXCEPT ![c] = to] ELSE logged
    BY <1>3 DEF SetItem, Log, Copying
  <2>4. logged' \in [Cases -> ItemStatus \cup {"none"}] /\ status' \in CycleStatus \cup {"gone"}
    BY <1>1, <2>1, <2>3, NewStatusIs
  <2>5. Requests' /\ req'[t].at \in {"idle", "read"} /\ \A u \in Threads \ {t} : req'[u] = req[u]
    <3>1. CASE End(t)
      BY <1>1, <3>1, Ends
    <3>2. CASE req' = [req EXCEPT ![t].at = "read", ![t].todo = @ \ {c}, ![t].items = <<>>, ![t].status = "draft"]
      <4> DEFINE r == [req[t] EXCEPT !.at = "read", !.todo = @ \ {c}, !.items = <<>>, !.status = "draft"]
      <4>1. <<>> \in Seq(Item)
        BY EmptySeq
      <4>2. r \in Request /\ r.items = <<>> /\ r.at = "read"
        BY <1>1, <4>1 DEF Request, CycleStatus
      <4>3. req' = [req EXCEPT ![t] = r]
        BY <1>1, <3>2
      <4> HIDE DEF r
      <4>. QED
        BY <1>1, <4>2, <4>3, EmptyArray, Becomes
    <3>. QED
      BY <1>3, <3>1, <3>2 DEF SetItem, End
  <2> HIDE DEF new
  <2>6. Agreement'
    <3>1. CASE ~Exists
      BY <2>3, <3>1, NothingLeft DEF Exists
    <3>2. CASE Exists
      <4>1. ASSUME ~lost'
            PROVE  /\ ~lost /\ items' = new /\ Same(seq, items) /\ (manual \/ req[t].status = status)
                   /\ Shows(seq, logged)
        BY <2>3, <3>2, <4>1, WritesCopy
      <4>2. logged' = [logged EXCEPT ![c] = to]
        BY <2>3, <3>2
      <4>3. Shows(seq, logged) => Shows(new, logged')
        <5> SUFFICES ASSUME Shows(seq, logged) PROVE Shows(new, logged')
          OBVIOUS
        <5>1. CasesOf(new) = CasesOf(seq)
          BY <2>2 DEF CasesOf
        <5>2. {d \in Cases : logged'[d] # "none"} = {d \in Cases : logged[d] # "none"}
          BY <1>1, <1>3, <2>1, <4>2 DEF Shows
        <5>3. ASSUME NEW k \in DOMAIN new PROVE new[k].status = logged'[new[k].case]
          <6>1. seq[k].case \in Cases
            BY <1>1, <2>2, <5>3, ArrayIs
          <6>. QED
            BY <1>1, <2>2, <4>2, <6>1 DEF Shows
        <5>. QED
          BY <5>1, <5>2, <5>3 DEF Shows
      <4>4. status' = NewStatus(req[t].status, new, to)
        BY <2>3, <3>2
      <4>5. ASSUME status' = "draft", ~lost', ~manual' PROVE \A k \in DOMAIN items' : items'[k].status = "pending"
        <5>1. req[t].status = "draft" /\ to = "pending"
          <6>1. NewStatus(req[t].status, new, to) = "draft"
            BY <4>4, <4>5
          <6>2. req[t].status \in CycleStatus
            BY <2>1
          <6> HIDE DEF to
          <6>. QED
            BY <6>1, <6>2, NewStatusIs, ZenonT(30)
        <5>2. status = "draft" /\ ~lost /\ ~manual /\ items' = new /\ Same(seq, items)
          BY <1>1, <4>1, <4>5, <5>1
        <5>3. \A k \in DOMAIN items : items[k].status = "pending"
          BY <5>2 DEF IInv, Agreement, DraftUnexecuted
        <5>. QED
          BY <2>2, <5>1, <5>2, <5>3 DEF Same
      <4>6. ASSUME AllDone(items'), ~lost' PROVE status' = "completed"
        BY <2>1, <4>1, <4>4, <4>6, NewStatusIs
      <4>. QED
        BY <4>1, <4>3, <4>5, <4>6, Agrees
    <3>. QED
      BY <3>1, <3>2
  <2>. QED
    BY <1>1, <2>2, <2>3, <2>4, <2>5, <2>6, WriteKeeps DEF SetItem
<1>. QED
  BY <1>2, <1>3

LEMMA AddKeeps == ASSUME IInv, NEW t \in Threads, NEW c \in Cases, AddItem(t, c) PROVE IInv'
<1> DEFINE seq == req[t].items
           fresh == title[c] # 0 /\ c \notin CasesOf(seq)
           twin == \E k \in DOMAIN seq : seq[k].title = title[c]
<1>1. /\ Typed /\ TypeOK /\ Requests /\ req \in [Threads -> Request] /\ Array(seq) /\ UNCHANGED whole
      /\ logged \in [Cases -> ItemStatus \cup {"none"}] /\ status \in CycleStatus \cup {"gone"} /\ removed \in BOOLEAN
      /\ removed' = removed /\ manual' = manual /\ title \in [Cases -> Titles \cup {0}] /\ Copying(t)
  BY DEF IInv, Typed, Requests, TypeOK, AddItem, Copying
<1>2. End(t) /\ Requests' /\ req'[t].at = "idle" /\ \A u \in Threads \ {t} : req'[u] = req[u]
  BY <1>1, Ends DEF AddItem
<1>3. CASE fresh /\ twin
  <2>1. UNCHANGED <<docVars, stale, lost>>
    BY <1>3 DEF AddItem
  <2>2. TypeOK'
    BY <1>1, <1>2, <2>1 DEF AddItem, docVars, TypeOK, Requests
  <2>. QED
    BY <1>1, <1>2, <2>1, <2>2, StillKeeps DEF docVars, Exists
<1>4. CASE ~fresh
  <2>1. WriteItems(t, seq) /\ UNCHANGED status /\ logged' = logged
    BY <1>4 DEF AddItem, Log
  <2>2. Agreement'
    BY <1>1, <2>1, WritesBack
  <2>. QED
    BY <1>1, <1>2, <2>1, <2>2, WriteKeeps DEF AddItem
<1>5. CASE fresh /\ ~twin
  <2> DEFINE new == With(seq, c)
  <2>1. /\ WriteItems(t, new) /\ UNCHANGED status
        /\ logged' = IF Exists THEN [logged EXCEPT ![c] = "pending"] ELSE logged
    BY <1>5 DEF AddItem, Log
  <2>2. title[c] \in Titles /\ c \notin CasesOf(seq)
    BY <1>1, <1>5
  <2>3. /\ Array(new) /\ DOMAIN new = 1 .. Len(seq) + 1
        /\ \A k \in DOMAIN seq : new[k] = seq[k]
        /\ new[Len(seq) + 1] = NewItem(c, Len(seq) + 1)
    BY <1>1, <2>2, WithArray
  <2>4. /\ Len(seq) \in Nat /\ DOMAIN seq = 1 .. Len(seq)
        /\ \A k \in DOMAIN seq : seq[k].case \in Cases /\ seq[k].case # c
    BY <1>1, <2>2, ArrayIs DEF CasesOf
  <2> DEFINE last == Len(seq) + 1
  <2>5. /\ last \in DOMAIN new /\ \A k \in DOMAIN new : k = last \/ k \in DOMAIN seq
        /\ \A k \in DOMAIN seq : k \in DOMAIN new
    BY <2>3, <2>4
  <2>6. new[last].case = c /\ new[last].status = "pending"
    BY <2>3 DEF NewItem
  <2>7. logged' \in [Cases -> ItemStatus \cup {"none"}]
    BY <1>1, <2>1 DEF ItemStatus
  <2> HIDE DEF new, last, seq
  <2>8. Agreement'
    <3>1. CASE ~Exists
      BY <2>1, <3>1, NothingLeft DEF Exists
    <3>2. CASE Exists
      <4>1. ASSUME ~lost'
            PROVE  /\ ~lost /\ items' = new /\ Same(seq, items) /\ Shows(seq, logged)
        BY <1>1, <2>1, <3>2, <4>1, WritesCopy DEF seq
      <4>2. logged' = [logged EXCEPT ![c] = "pending"]
        BY <2>1, <3>2
      <4>3. Shows(seq, logged) => Shows(new, logged')
        <5> SUFFICES ASSUME Shows(seq, logged) PROVE Shows(new, logged')
          OBVIOUS
        <5>1. CasesOf(new) = CasesOf(seq) \cup {c}
          BY <2>3, <2>5, <2>6 DEF CasesOf
        <5>2. {d \in Cases : logged'[d] # "none"} = {d \in Cases : logged[d] # "none"} \cup {c}
          BY <1>1, <4>2
        <5>3. ASSUME NEW k \in DOMAIN new PROVE new[k].status = logged'[new[k].case]
          <6>1. CASE k = last
            BY <1>1, <2>6, <4>2, <6>1
          <6>2. CASE k \in DOMAIN seq
            BY <1>1, <2>3, <2>4, <4>2, <6>2 DEF Shows
          <6>. QED
            BY <2>5, <6>1, <6>2
        <5>. QED
          BY <5>1, <5>2, <5>3 DEF Shows
      <4>4. ASSUME status' = "draft", ~lost', ~manual' PROVE \A k \in DOMAIN items' : items'[k].status = "pending"
        <5>1. status = "draft" /\ ~lost /\ ~manual /\ items' = new /\ Same(seq, items)
          BY <1>1, <2>1, <4>1, <4>4
        <5>2. \A k \in DOMAIN items : items[k].status = "pending"
          BY <5>1 DEF IInv, Agreement, DraftUnexecuted
        <5>. QED
          BY <2>3, <2>5, <2>6, <5>1, <5>2 DEF Same
      <4>5. ~lost' => ~AllDone(items')
        BY <2>5, <2>6, <4>1, Statuses DEF AllDone
      <4>. QED
        BY <4>1, <4>3, <4>4, <4>5, Agrees
    <3>. QED
      BY <3>1, <3>2
  <2>. QED
    BY <1>1, <1>2, <2>1, <2>3, <2>7, <2>8, WriteKeeps DEF AddItem
<1>. QED
  BY <1>3, <1>4, <1>5

LEMMA RemoveKeeps == ASSUME IInv, NEW t \in Threads, NEW c \in Cases, RemoveItem(t, c) PROVE IInv'
<1> DEFINE seq == req[t].items
           new == Without(seq, c)
<1>1. /\ Typed /\ TypeOK /\ Requests /\ req \in [Threads -> Request] /\ Array(seq) /\ UNCHANGED whole
      /\ logged \in [Cases -> ItemStatus \cup {"none"}] /\ status \in CycleStatus \cup {"gone"}
      /\ removed' = TRUE /\ manual' = manual /\ Copying(t) /\ status' = status
      /\ WriteItems(t, new) /\ logged' = IF Exists THEN [logged EXCEPT ![c] = "none"] ELSE logged
  BY DEF IInv, Typed, Requests, TypeOK, RemoveItem, Copying, Log
<1>2. End(t) /\ Requests' /\ req'[t].at = "idle" /\ \A u \in Threads \ {t} : req'[u] = req[u]
  BY <1>1, Ends DEF RemoveItem
<1>3. /\ Array(new) /\ CasesOf(new) = CasesOf(seq) \ {c}
      /\ \A k \in DOMAIN new : \E l \in DOMAIN seq : new[k].case = seq[l].case /\ new[k].status = seq[l].status
  <2>1. Array(seq)
    BY <1>1
  <2> HIDE DEF seq
  <2>. QED
    BY <2>1, WithoutArray
<1>4. \A k \in DOMAIN new : new[k].case \in Cases
  BY <1>3, ArrayIs
<1> HIDE DEF new, seq
<1>5. Agreement'
  <2>1. CASE ~Exists
    BY <1>1, <2>1, NothingLeft DEF Exists
  <2>2. CASE Exists
    <3>1. ASSUME ~lost'
          PROVE  /\ ~lost /\ items' = new /\ Same(seq, items) /\ Shows(seq, logged)
      BY <1>1, <2>2, <3>1, WritesCopy DEF seq
    <3>2. logged' = [logged EXCEPT ![c] = "none"]
      BY <1>1, <2>2
    <3>3. Shows(seq, logged) => Shows(new, logged')
      <4> SUFFICES ASSUME Shows(seq, logged) PROVE Shows(new, logged')
        OBVIOUS
      <4>1. {d \in Cases : logged'[d] # "none"} = {d \in Cases : logged[d] # "none"} \ {c}
        BY <1>1, <3>2
      <4>2. ASSUME NEW k \in DOMAIN new PROVE new[k].status = logged'[new[k].case]
        <5>1. PICK l \in DOMAIN seq : new[k].case = seq[l].case /\ new[k].status = seq[l].status
          BY <1>3, <4>2
        <5>2. new[k].case \in CasesOf(new)
          BY <4>2 DEF CasesOf
        <5>3. new[k].case # c /\ new[k].case \in Cases
          BY <1>3, <1>4, <4>2, <5>2
        <5>. QED
          BY <1>1, <3>2, <5>1, <5>3 DEF Shows
      <4>. QED
        BY <1>3, <4>1, <4>2 DEF Shows
    <3>4. ASSUME status' = "draft", ~lost', ~manual' PROVE \A k \in DOMAIN items' : items'[k].status = "pending"
      <4>1. status = "draft" /\ ~lost /\ ~manual /\ items' = new /\ Same(seq, items)
        BY <1>1, <3>1, <3>4
      <4>2. \A k \in DOMAIN items : items[k].status = "pending"
        BY <4>1 DEF IInv, Agreement, DraftUnexecuted
      <4>. QED
        BY <1>3, <4>1, <4>2 DEF Same
    <3>. QED
      BY <1>1, <3>1, <3>3, <3>4, Agrees
  <2>. QED
    BY <2>1, <2>2
<1>6. logged' \in [Cases -> ItemStatus \cup {"none"}]
  BY <1>1
<1>. QED
  BY <1>1, <1>2, <1>3, <1>5, <1>6, WriteKeeps DEF RemoveItem

-----------------------------------------------------------------------------
(* The invariant holds *)

LEMMA StepIInv == IInv /\ [Next]_vars => IInv'
<1> SUFFICES ASSUME IInv, [Next]_vars PROVE IInv'
  OBVIOUS
<1>1. ASSUME NEW t \in Threads, BeginGet(t) \/ AnswerGet(t) \/ \E s \in CycleStatus : UpdateStatus(t, s) PROVE IInv'
  BY <1>1, BeginKeeps
<1>2. ASSUME NEW t \in Threads, NEW c \in Cases, BeginAdd(t, c) \/ BeginRemove(t, c) PROVE IInv'
  BY <1>2, BeginKeeps
<1>3. ASSUME NEW t \in Threads, NEW cs \in SUBSET Cases, NEW to \in ItemStatus, BeginSet(t, cs, to) PROVE IInv'
  BY <1>3, BeginKeeps
<1>4. ASSUME NEW t \in Threads, Read(t) \/ Refresh(t) PROVE IInv'
  BY <1>4, ReadKeeps, RefreshKeeps
<1>5. ASSUME NEW t \in Threads, NEW c \in Cases, SetItem(t, c) \/ AddItem(t, c) \/ RemoveItem(t, c) PROVE IInv'
  BY <1>5, SetKeeps, AddKeeps, RemoveKeeps
<1>6. CASE DeleteCycle \/ \E c \in Cases, new \in Titles \cup {0} : EditCase(c, new)
  BY <1>6, OutsideKeeps
<1>7. CASE UNCHANGED vars
  <2>1. UNCHANGED <<title, docVars, req, edits, served, hist>>
    BY <1>7 DEF vars
  <2>2. TypeOK' /\ Requests'
    BY <2>1 DEF IInv, Typed, TypeOK, Requests, docVars, hist, Array, Distinct, Numbered
  <2>. QED
    BY <2>1, <2>2, StillKeeps DEF docVars, hist, Exists
<1>. QED
  BY <1>1, <1>2, <1>3, <1>4, <1>5, <1>6, <1>7 DEF Next

LEMMA InitIInv == Init => IInv
<1> SUFFICES ASSUME Init PROVE IInv
  OBVIOUS
<1> DEFINE n == Cardinality(Live)
<1>1. Planned \in Seq(Cases) /\ Len(Planned) \in Nat /\ DOMAIN Planned = 1 .. Len(Planned)
      /\ \A k \in DOMAIN Planned : Planned[k] \in Cases
  <2>1. Planned \in Seq(Cases)
    BY CyclesAssumption
  <2>2. Len(Planned) \in Nat /\ DOMAIN Planned = 1 .. Len(Planned) /\ Planned \in [1 .. Len(Planned) -> Cases]
    BY <2>1, LenProperties
  <2>. QED
    BY <2>1, <2>2
<1>2. Live \subseteq 1 .. Len(Planned)
  BY <1>1 DEF Live
<1>3. IsFiniteSet(Live) /\ n \in Nat
  <2>1. IsFiniteSet(1 .. Len(Planned))
    BY <1>1, FS_Interval
  <2>. QED
    BY <1>2, <2>1, FS_Subset, FS_CardinalityType
<1>4. PICK live \in [1 .. n -> Live] :
         /\ \A p \in DOMAIN live : Cardinality({k \in Live : k <= live[p]}) = p
         /\ items = [p \in DOMAIN live |-> NewItem(Planned[live[p]], live[p])]
  BY DEF Init
<1> HIDE DEF n
<1>5. ASSUME NEW p \in 1 .. n
      PROVE  /\ live[p] \in 1 .. Len(Planned) /\ title[Planned[live[p]]] \in Titles /\ Planned[live[p]] \in Cases
             /\ items[p] = NewItem(Planned[live[p]], live[p])
             /\ Cardinality({k \in Live : k <= live[p]}) = p
  <2>1. live[p] \in Live
    BY <1>4, <1>5
  <2>2. live[p] \in 1 .. Len(Planned) /\ title[Planned[live[p]]] # 0 /\ Planned[live[p]] \in Cases
    BY <1>1, <2>1 DEF Live
  <2>3. title[Planned[live[p]]] \in Titles
    BY <2>2 DEF Init
  <2>. QED
    BY <1>4, <1>5, <2>2, <2>3
<1>6. ASSUME NEW p \in 1 .. n
      PROVE  /\ items[p] \in Item /\ items[p].case = Planned[live[p]] /\ items[p].order = live[p]
             /\ items[p].status = "pending"
  <2>1. /\ live[p] \in 1 .. Len(Planned) /\ title[Planned[live[p]]] \in Titles /\ Planned[live[p]] \in Cases
        /\ items[p] = NewItem(Planned[live[p]], live[p])
    BY <1>5, <1>6
  <2>2. live[p] \in Nat
    BY <1>1, <2>1
  <2>. QED
    BY <2>1, <2>2 DEF NewItem, Item, ItemStatus
<1>7. items \in [1 .. n -> Item] /\ DOMAIN items = 1 .. n
  BY <1>4, <1>6
<1>8. items \in Seq(Item)
  BY <1>3, <1>7, IsArray
<1>9. Distinct(items)
  <2> SUFFICES ASSUME NEW p \in 1 .. n, NEW q \in 1 .. n, items[p].case = items[q].case PROVE p = q
    BY <1>7 DEF Distinct
  <2>1. Planned[live[p]] = Planned[live[q]] /\ live[p] \in DOMAIN Planned /\ live[q] \in DOMAIN Planned
    BY <1>1, <1>5, <1>6
  <2>2. live[p] = live[q]
    BY <2>1, CyclesAssumption
  <2>3. p = Cardinality({k \in Live : k <= live[p]}) /\ q = Cardinality({k \in Live : k <= live[q]})
    BY <1>5
  <2>. QED
    BY <2>2, <2>3
<1>10. Numbered(items)
  <2> SUFFICES ASSUME whole, NEW p \in 1 .. n PROVE items[p].order = p
    BY <1>7 DEF Numbered
  <2>1. Live = 1 .. Len(Planned)
    BY <1>1 DEF Init
  <2>2. live[p] \in 1 .. Len(Planned) /\ items[p].order = live[p] /\ Cardinality({k \in Live : k <= live[p]}) = p
    BY <1>5, <1>6
  <2>3. {k \in Live : k <= live[p]} = 1 .. live[p]
    BY <1>1, <2>1, <2>2
  <2>4. Cardinality(1 .. live[p]) = live[p]
    <3>1. live[p] \in Int /\ 1 \in Int /\ ~(1 > live[p])
      BY <1>1, <2>2
    <3>2. Cardinality(1 .. live[p]) = live[p] - 1 + 1
      BY <3>1, FS_Interval
    <3>. QED
      BY <3>1, <3>2
  <2>. QED
    BY <2>2, <2>3, <2>4
<1>11. Array(items)
  BY <1>8, <1>9, <1>10 DEF Array
<1>12. Requests /\ Copies
  <2>1. \A t \in Threads : req[t] = Idle
    BY DEF Init
  <2>2. Requests
    BY <2>1, IdleRequest DEF Init, Requests
  <2>. QED
    BY <2>1, <2>2, IdleRequest DEF Copies, Fresh, Copying
<1>13. TypeOK
  <2>1. logged \in [Cases -> ItemStatus \cup {"none"}] /\ title \in [Cases -> Titles \cup {0}]
    BY DEF Init, ItemStatus
  <2>2. edits \in 0 .. MaxEdits /\ served \in 0 .. MaxRequests
    BY CyclesAssumption DEF Init
  <2>. QED
    BY <1>8, <1>12, <2>1, <2>2 DEF Init, TypeOK, Requests, CycleStatus
<1>14. Agreement
  <2>1. \A k \in DOMAIN items : items[k].status = "pending" /\ items[k].case \in Cases
    BY <1>5, <1>6, <1>7
  <2>2. logged = [c \in Cases |-> IF c \in CasesOf(items) THEN "pending" ELSE "none"]
    BY DEF Init
  <2>3. CasesOf(items) \subseteq Cases
    BY <2>1 DEF CasesOf
  <2>4. CasesOf(items) = {c \in Cases : logged[c] # "none"}
    BY <2>2, <2>3
  <2>5. \A k \in DOMAIN items : items[k].status = logged[items[k].case]
    BY <2>1, <2>2 DEF CasesOf
  <2>6. ~AllDone(items)
    <3> SUFFICES ASSUME AllDone(items) PROVE FALSE
      OBVIOUS
    <3>1. items # <<>>
      BY DEF AllDone
    <3>2. 1 \in DOMAIN items
      BY <1>8, <3>1, EmptySeq, LenProperties
    <3>. QED
      BY <2>1, <3>2, Statuses DEF AllDone
  <2>. QED
    BY <2>1, <2>4, <2>5, <2>6 DEF Agreement, LogAgrees, DraftUnexecuted, AllDoneCompletes
<1>. QED
  BY <1>11, <1>12, <1>13, <1>14 DEF IInv, Typed

LEMMA SpecIInv == Spec => []IInv
BY InitIInv, StepIInv, PTL DEF Spec

-----------------------------------------------------------------------------
(* The theorems *)

(* Every state of a cycle and its requests is well formed.                 *)
THEOREM TypeCorrect == Spec => []TypeOK
<1>1. IInv => TypeOK
  BY DEF IInv, Typed
<1>. QED
  BY <1>1, SpecIInv, PTL

(* Until a request writes a copy that is out of date, the items and their  *)
(* statuses are those the activity log reports, however requests overlap.  *)
THEOREM LogKept == Spec => []LogAgrees
<1>1. IInv => LogAgrees
  BY DEF IInv, Agreement
<1>. QED
  BY <1>1, SpecIInv, PTL

(* A case is in a cycle once, always; the items of a cycle that was        *)
(* created whole are numbered without gaps, even when copies that are out  *)
(* of date are written; a draft has no result, and a cycle with all its    *)
(* results is completed, until one is.                                     *)
THEOREM CycleKept == Spec => []CycleSound
<1>1. IInv => CycleSound
  BY DEF IInv, Typed, Agreement, CycleSound, ItemsNumbered, Array, Distinct, Numbered
<1>. QED
  BY <1>1, SpecIInv, PTL

-----------------------------------------------------------------------------
(* The questions about a feature's documents, which Execution puts beside  *)
(* a test cycle.  A run is being made by one request or one job at a time, *)
(* which is why questions are inserted once and stay; a submission counts  *)
(* the answers of all, and is out of date as soon as another saves.        *)

\* The operators of FiniteSets that the instance brings are those of this module.
LEMMA SameSizes ==
  /\ \A S : Questions!IsFiniteSet(S) <=> IsFiniteSet(S)
  /\ \A S : Questions!Cardinality(S) = Cardinality(S)
<1>1. \A S : Questions!IsFiniteSet(S) <=> IsFiniteSet(S)
  BY DEF Questions!IsFiniteSet, IsFiniteSet
<1>2. \A S : Questions!Cardinality(S) = Cardinality(S)
  BY Zenon DEF Questions!Cardinality, Cardinality
<1>. QED
  BY <1>1, <1>2

\* There is an n-th position for every n up to their number.
LEMMA NthIs ==
  ASSUME NEW S \in SUBSET Nat, IsFiniteSet(S), NEW n \in 1 .. Cardinality(S)
  PROVE  Questions!Nth(S, n) \in S /\ Cardinality({i \in S : i < Questions!Nth(S, n)}) = n - 1
<1> DEFINE N == Cardinality(S)
           Before(i) == {j \in S : j < i}
           rank(i) == Cardinality(Before(i))
           R == {rank(i) : i \in S}
           f == [i \in S |-> rank(i)]
<1>0. N \in Nat /\ \A i \in S : i \in Nat
  BY FS_CardinalityType
<1>1. ASSUME NEW i \in S PROVE IsFiniteSet(Before(i)) /\ rank(i) \in 0 .. N - 1 /\ i \notin Before(i)
  <2>1. i \notin Before(i) /\ Before(i) \subseteq S \ {i}
    BY <1>0
  <2>2. IsFiniteSet(S \ {i}) /\ Cardinality(S \ {i}) = N - 1
    BY FS_RemoveElement
  <2>3. IsFiniteSet(Before(i)) /\ rank(i) <= N - 1
    BY <2>1, <2>2, FS_Subset
  <2>. QED
    BY <1>0, <2>1, <2>3, FS_CardinalityType
<1>2. ASSUME NEW i \in S, NEW j \in S, i < j PROVE rank(i) < rank(j)
  <2>1. Before(i) \cup {i} \subseteq Before(j)
    <3>1. ASSUME NEW k \in S, k < i PROVE k < j
      BY <1>0, <1>2, <3>1
    <3>. QED
      BY <1>2, <3>1
  <2>2. Cardinality(Before(i) \cup {i}) = rank(i) + 1
    BY <1>1, FS_AddElement
  <2>3. Cardinality(Before(i) \cup {i}) <= rank(j)
    BY <1>1, <2>1, FS_Subset
  <2>. QED
    BY <1>1, <2>2, <2>3
<1>3. ASSUME NEW i \in S, NEW j \in S, rank(i) = rank(j) PROVE i = j
  <2>1. rank(i) \in Nat /\ rank(j) \in Nat
    BY <1>0, <1>1
  <2>. HIDE DEF rank
  <2>2. ~(i < j) /\ ~(j < i)
    BY <1>2, <1>3, <2>1
  <2>. QED
    BY <1>0, <2>2
<1>4. f \in Bijection(S, R)
  <2>. HIDE DEF rank
  <2>. QED
    BY <1>3 DEF Bijection, Injection, Surjection, IsInjective
<1>5. Cardinality(R) = N
  <2>. HIDE DEF f, R
  <2>. QED
    BY <1>4, FS_Bijection DEF ExistsBijection
<1>6. IsFiniteSet(0 .. N - 1) /\ Cardinality(0 .. N - 1) = N
  <2>1. 0 \in Int /\ N - 1 \in Int /\ N # 0
    BY <1>0, FS_EmptySet
  <2>. HIDE DEF N
  <2>2. IsFiniteSet(0 .. N - 1) /\ Cardinality(0 .. N - 1) = IF 0 > N - 1 THEN 0 ELSE N - 1 - 0 + 1
    BY <2>1, FS_Interval
  <2>. QED
    BY <1>0, <2>1, <2>2
<1>7. R \subseteq 0 .. N - 1
  BY <1>1
<1>8. R = 0 .. N - 1
  BY <1>5, <1>6, <1>7, FS_Subset
<1>9. n - 1 \in R
  <2>. HIDE DEF R
  <2>. QED
    BY <1>0, <1>8
<1>10. PICK i \in S : rank(i) = n - 1
  BY <1>9
<1>. QED
  BY <1>10, SameSizes DEF Questions!Nth

\* The items at some positions are items that are at them.
LEMMA ItemsAtIs ==
  ASSUME NEW T, NEW seq \in Seq(T), NEW S \in SUBSET DOMAIN seq, NEW U, \A i \in S : seq[i] \in U
  PROVE  Questions!ItemsAt(seq, S) \in Seq(U)
<1>1. DOMAIN seq = 1 .. Len(seq) /\ Len(seq) \in Nat
  BY LenProperties
<1>2. S \in SUBSET Nat /\ IsFiniteSet(S)
  <2>1. IsFiniteSet(1 .. Len(seq)) /\ 1 .. Len(seq) \subseteq Nat
    BY <1>1, FS_Interval
  <2>. QED
    BY <1>1, <2>1, FS_Subset
<1>3. \A n \in 1 .. Cardinality(S) : Questions!Nth(S, n) \in S
  BY <1>2, NthIs
<1>4. Cardinality(S) \in Nat
  BY <1>2, FS_CardinalityType
<1>5. Questions!ItemsAt(seq, S) \in [1 .. Cardinality(S) -> U]
  BY <1>3, SameSizes DEF Questions!ItemsAt
<1>. QED
  BY <1>4, <1>5, SeqDef

\* The least of some numbers.
LEMMA LeastIs ==
  ASSUME NEW S \in SUBSET Nat, IsFiniteSet(S), S # {}
  PROVE  Questions!Min(S) \in S
<1> DEFINE x == Questions!Nth(S, 1)
           B == {i \in S : i < x}
<1>1. Cardinality(S) \in Nat /\ Cardinality(S) # 0
  BY FS_CardinalityType, FS_EmptySet
<1>2. x \in S /\ Cardinality(B) = 1 - 1
  <2>1. 1 \in 1 .. Cardinality(S)
    BY <1>1
  <2>. QED
    BY <2>1, NthIs
<1>. HIDE DEF x
<1>3. IsFiniteSet(B)
  BY FS_Subset
<1>4. B = {}
  BY <1>2, <1>3, FS_EmptySet
<1>5. \A y \in S : x <= y
  BY <1>2, <1>4
<1>. QED
  BY <1>2, <1>5 DEF Questions!Min

\* The greatest of some numbers.
LEMMA GreatestIs ==
  ASSUME NEW S \in SUBSET Nat, IsFiniteSet(S), S # {}
  PROVE  Questions!Max(S) \in S /\ \A y \in S : y <= Questions!Max(S)
<1> DEFINE N == Cardinality(S)
           x == Questions!Nth(S, N)
           B == {i \in S : i < x}
<1>1. N \in Nat /\ N # 0
  BY FS_CardinalityType, FS_EmptySet
<1>2. x \in S /\ Cardinality(B) = N - 1
  <2>1. N \in 1 .. N
    BY <1>1
  <2>. QED
    BY <2>1, NthIs
<1>. HIDE DEF x
<1>3. IsFiniteSet(S \ {x}) /\ Cardinality(S \ {x}) = N - 1
  BY <1>2, FS_RemoveElement
<1>4. B \subseteq S \ {x}
  BY <1>2
<1>5. B = S \ {x}
  <2>. HIDE DEF B
  <2>. QED
    BY <1>2, <1>3, <1>4, FS_Subset
<1>6. \A y \in S : y <= x
  BY <1>2, <1>5
<1>. QED
  BY <1>2, <1>6 DEF Questions!Max

\* The lesser of two numbers.
LEMMA MinIs ==
  ASSUME NEW a \in Nat, NEW b \in Nat
  PROVE  Questions!Min({a, b}) \in {a, b} /\ Questions!Min({a, b}) <= a /\ Questions!Min({a, b}) <= b
BY DEF Questions!Min

\* The first items of a sequence.
LEMMA TakeIs ==
  ASSUME NEW T, NEW seq \in Seq(T), NEW n \in Nat
  PROVE  Questions!Take(seq, n) \in Seq(T) /\ Len(Questions!Take(seq, n)) \in Nat /\ Len(Questions!Take(seq, n)) = Questions!Min({n, Len(seq)})
<1>1. Len(seq) \in Nat
  BY LenProperties
<1> DEFINE k == Questions!Min({n, Len(seq)})
<1>2. k \in 0 .. Len(seq)
  BY <1>1, MinIs
<1>. HIDE DEF k
<1>3. \A i \in 1 .. k : seq[i] \in T
  BY <1>1, <1>2, ElementOfSeq
<1>4. SubSeq(seq, 1, k) \in Seq(T) /\ Len(SubSeq(seq, 1, k)) = k
  <2>1. 1 \in Int /\ k \in Int /\ k \in Nat
    BY <1>1, <1>2
  <2>2. SubSeq(seq, 1, k) \in Seq(T) /\ Len(SubSeq(seq, 1, k)) = IF 1 <= k THEN k - 1 + 1 ELSE 0
    BY <1>3, <2>1, SubSeqProperties
  <2>. QED
    BY <2>1, <2>2
<1>5. Questions!Take(seq, n) = SubSeq(seq, 1, k) /\ k \in Nat
  BY <1>1, <1>2 DEF Questions!Take, k
<1>. QED
  BY <1>4, <1>5 DEF k

\* The options that are kept are options.
LEMMA OptionsAre ==
  ASSUME Questions!ValidatorAssumption, NEW T, NEW options \in Seq(T)
  PROVE  Questions!normalize_unique_options(options) \in Seq(T)
<1> DEFINE S == {i \in DOMAIN options : options[i] # None}
           given == Questions!ItemsAt(options, S)
           key == [i \in DOMAIN given |-> Lower[given[i]]]
           F == {i \in DOMAIN given : \A j \in 1..(i - 1) : key[j] # key[i]}
<1>1. given \in Seq(T)
  <2>1. S \in SUBSET DOMAIN options /\ \A i \in S : options[i] \in T
    BY ElementOfSeq, LenProperties
  <2>. HIDE DEF S
  <2>. QED
    BY <2>1, ItemsAtIs
<1>6. Questions!ItemsAt(given, F) \in Seq(T)
  <2>. HIDE DEF given, key
  <2>1. F \in SUBSET DOMAIN given /\ \A i \in F : given[i] \in T
    BY <1>1, ElementOfSeq, LenProperties
  <2>. HIDE DEF F
  <2>. QED
    BY <1>1, <2>1, ItemsAtIs
<1>7. Questions!Take(Questions!ItemsAt(given, F), Options) \in Seq(T)
  <2>. HIDE DEF given, F
  <2>. QED
    BY <1>6, TakeIs DEF Questions!ValidatorAssumption
<1>. QED
  BY <1>7 DEF Questions!normalize_unique_options, Questions!UniqueBy

\* The correct option is the one that the model named, if it named one.
Right(q) == q.named \in {Lower[o] : o \in Questions!ToSet(q.options)} => Lower[q.options[q.correct]] = q.named

\* shuffle_question_options: in every order the correct option is the one named.
LEMMA ShuffledRight ==
  ASSUME Questions!ValidatorAssumption, NEW T, NEW options \in Seq(T), Len(options) = Options, NEW correct,
         NEW s \in Questions!shuffle_question_options(options, correct)
  PROVE  Right([options |-> s[1], correct |-> s[2], named |-> Lower[correct]])
<1> DEFINE at == {i \in DOMAIN options : Lower[options[i]] = Lower[correct]}
<1>0. DOMAIN options = 1 .. Options /\ Options \in Nat
  BY LenProperties
<1>1. CASE at = {}
  <2>1. s = <<options, 1>>
    BY <1>1 DEF Questions!shuffle_question_options
  <2>2. Lower[correct] \notin {Lower[o] : o \in Questions!ToSet(options)}
    BY <1>1 DEF Questions!ToSet
  <2>. QED
    BY <2>1, <2>2 DEF Right
<1>2. CASE at # {}
  <2>1. PICK p \in Orders : s = <<[i \in DOMAIN options |-> options[p[i]]], CHOOSE i \in DOMAIN p : p[i] = Questions!Min(at)>>
    BY <1>2 DEF Questions!shuffle_question_options
  <2>2. p \in [1 .. Options -> 1 .. Options] /\ \A i \in 1 .. Options : \E k \in 1 .. Options : p[k] = i
    BY DEF Questions!ValidatorAssumption
  <2>3. Questions!Min(at) \in at
    <3>1. IsFiniteSet(1 .. Options)
      BY <1>0, FS_Interval
    <3>2. at \in SUBSET Nat /\ IsFiniteSet(at)
      <4>1. at \subseteq 1 .. Options
        BY <1>0
      <4>. HIDE DEF at
      <4>2. at \in SUBSET Nat
        BY <1>0, <4>1
      <4>3. IsFiniteSet(at)
        BY <3>1, <4>1, FS_Subset
      <4>. QED
        BY <4>2, <4>3
    <3>. HIDE DEF at
    <3>. QED
      BY <1>2, <3>2, LeastIs
  <2> DEFINE k == CHOOSE i \in DOMAIN p : p[i] = Questions!Min(at)
  <2>4. k \in 1 .. Options /\ p[k] = Questions!Min(at)
    <3>1. Questions!Min(at) \in 1 .. Options
      BY <1>0, <2>3
    <3>2. \E i \in DOMAIN p : p[i] = Questions!Min(at)
      BY <2>2, <3>1
    <3>. QED
      BY <2>2, <3>2
  <2>. HIDE DEF k
  <2>5. s[1][k] = options[Questions!Min(at)] /\ s[2] = k
    BY <1>0, <2>1, <2>4 DEF k
  <2>6. Lower[options[Questions!Min(at)]] = Lower[correct]
    BY <2>3
  <2>. QED
    BY <2>5, <2>6 DEF Right
<1>. QED
  BY <1>1, <1>2

\* Questions made of a reply are as many as promised, and each is right.
LEMMA MadeRight ==
  ASSUME Questions!ValidatorAssumption, NEW reply \in Replies \ {Failed}, NEW qs \in Questions!normalize_and_filter_questions(reply)
  PROVE  Len(qs) \in MinQuestions .. MaxQuestions /\ \A q \in Questions!ToSet(qs) : Right(q)
<1> DEFINE U == {q \in Questions!ToSet(reply) : Questions!Usable(q)}
           P == {i \in DOMAIN reply : Questions!Usable(reply[i])}
           usable == Questions!ItemsAt(reply, P)
           key == [i \in DOMAIN usable |-> usable[i].key]
           F == {i \in DOMAIN usable : \A j \in 1..(i - 1) : key[j] # key[i]}
           good == Questions!Take(Questions!ItemsAt(usable, F), MaxSeen)
           kept == Questions!Take(good, MaxQuestions)
           made(q) == {[options |-> s[1], correct |-> s[2], named |-> Lower[q.correct]]
                         : s \in Questions!shuffle_question_options(Questions!normalize_unique_options(q.options), q.correct)}
<1>1. reply \in Seq(Questions!ToSet(reply)) /\ \A q \in Questions!ToSet(reply) : q.options \in Seq(Questions!ToSet(q.options))
  BY DEF Questions!ValidatorAssumption
<1>2. usable \in Seq(U)
  <2>1. P \in SUBSET DOMAIN reply /\ \A i \in P : reply[i] \in U
    BY DEF Questions!ToSet
  <2>. HIDE DEF P, U
  <2>. QED
    BY <1>1, <2>1, ItemsAtIs
<1>3. Questions!ItemsAt(usable, F) \in Seq(U)
  <2>. HIDE DEF usable, key, U
  <2>1. F \in SUBSET DOMAIN usable /\ \A i \in F : usable[i] \in U
    BY <1>2, ElementOfSeq, LenProperties
  <2>. HIDE DEF F
  <2>. QED
    BY <1>2, <2>1, ItemsAtIs
<1>4. /\ ~(Len(good) < MinQuestions)
      /\ DOMAIN qs = DOMAIN kept /\ \A i \in DOMAIN kept : qs[i] \in made(kept[i])
      /\ qs \in [DOMAIN kept -> UNION {made(kept[i]) : i \in DOMAIN kept}]
  <2>1. qs \in IF Len(good) < MinQuestions THEN {}
               ELSE {r \in [DOMAIN kept -> UNION {made(kept[i]) : i \in DOMAIN kept}] : \A i \in DOMAIN kept : r[i] \in made(kept[i])}
    BY DEF Questions!normalize_and_filter_questions, Questions!UniqueBy
  <2>. HIDE DEF good, kept, made
  <2>. QED
    BY <2>1
<1>. HIDE DEF usable, F
<1>5. good \in Seq(U) /\ Len(good) \in Nat
  <2>. HIDE DEF U
  <2>. QED
    BY <1>3, TakeIs DEF Questions!ValidatorAssumption
<1>. HIDE DEF good
<1>6. kept \in Seq(U) /\ Len(kept) = Questions!Min({MaxQuestions, Len(good)})
  <2>. HIDE DEF U
  <2>. QED
    BY <1>5, TakeIs DEF Questions!ValidatorAssumption
<1>. HIDE DEF kept
<1>7. DOMAIN kept = 1 .. Len(kept) /\ Len(kept) \in Nat
  BY <1>6, LenProperties
<1>8. Len(kept) \in MinQuestions .. MaxQuestions
  <2>1. MaxQuestions \in Nat /\ MinQuestions \in Nat /\ MinQuestions <= MaxQuestions
    BY DEF Questions!ValidatorAssumption
  <2>2. Len(kept) \in {MaxQuestions, Len(good)} /\ Len(kept) <= MaxQuestions
    BY <1>5, <1>6, <2>1, MinIs
  <2>3. Len(good) \in Nat /\ ~(Len(good) < MinQuestions)
    BY <1>4, <1>5
  <2>4. MinQuestions <= Len(good)
    BY <2>1, <2>3
  <2>5. ASSUME NEW a \in Nat, NEW b \in Nat, NEW m \in Nat, NEW k \in {a, b}, m <= a, m <= b, k <= a
        PROVE  k \in m .. a
    BY <2>5
  <2>. QED
    BY <1>7, <2>1, <2>2, <2>3, <2>4, <2>5
<1>9. qs \in Seq(UNION {made(kept[i]) : i \in DOMAIN kept}) /\ Len(qs) = Len(kept)
  <2>. HIDE DEF made
  <2>1. qs \in [1 .. Len(kept) -> UNION {made(kept[i]) : i \in DOMAIN kept}]
    BY <1>4, <1>7
  <2>2. qs \in Seq(UNION {made(kept[i]) : i \in DOMAIN kept})
    BY <1>7, <2>1, SeqDef
  <2>. QED
    BY <1>7, <2>1, <2>2, LenProperties
<1>10. ASSUME NEW i \in DOMAIN kept PROVE Right(qs[i])
  <2>1. kept[i] \in U
    BY <1>6, <1>7, ElementOfSeq
  <2> DEFINE q == kept[i]
             T == Questions!ToSet(q.options)
  <2>2. q.options \in Seq(T) /\ Len(Questions!normalize_unique_options(q.options)) = Options
    BY <1>1, <2>1 DEF Questions!Usable
  <2>3. PICK s \in Questions!shuffle_question_options(Questions!normalize_unique_options(q.options), q.correct) :
               qs[i] = [options |-> s[1], correct |-> s[2], named |-> Lower[q.correct]]
    BY <1>4
  <2>. HIDE DEF q, T
  <2>4. Questions!normalize_unique_options(q.options) \in Seq(T)
    BY <2>2, OptionsAre
  <2>. QED
    BY <2>2, <2>3, <2>4, ShuffledRight
<1>. QED
  BY <1>4, <1>8, <1>9, <1>10 DEF Questions!ToSet

-----------------------------------------------------------------------------
(* The invariant *)

\* Types: questions that were made of a reply, or none yet.
Whole == UNION {Questions!normalize_and_filter_questions(reply) : reply \in Replies \ {Failed}}
Made == Whole \cup {<<>>}
Answers == UNION {[D -> Nat] : D \in SUBSET Nat}
Scores == {None} \cup {Questions!compute_validator_score(qs, given) : qs \in Made, given \in Answers}
Status == {"generating", "ready", "completed", "failed"}
Run == [number : Nat, status : Status, questions : Made, score : Scores]
Stage == {"idle", "looked", "numbered", "launch"} \cup Questions!Submitting
Post == [at : Stage, run : Nat, number : Nat,
         questions : Made, todo : Seq(Nat \X Nat), score : Scores, stale : BOOLEAN]
Job == [run : Nat, at : {"ask", "insert", "ready"}, questions : Made]
RunsTyped == /\ runs \in Seq(Run) /\ answers \in Seq(Answers) /\ Len(answers) = Len(runs)
             /\ client \in [Threads -> Post] /\ jobs \subseteq Job

\* A run is being made by one request or one job, which it outlives.
Launching(c) == client[c].at = "launch"
Owned ==
  /\ \A c \in Threads : Launching(c) => client[c].run \in DOMAIN runs
  /\ \A j \in jobs : j.run \in DOMAIN runs
  /\ \A c, d \in Threads : Launching(c) /\ Launching(d) /\ client[c].run = client[d].run => c = d
  /\ \A j, k \in jobs : j.run = k.run => j = k
  /\ \A c \in Threads, j \in jobs : Launching(c) => client[c].run # j.run

\* How far the making of a run is.
Making ==
  /\ \A c \in Threads : Launching(c) => runs[client[c].run].questions = <<>> /\ runs[client[c].run].status # "failed"
  /\ \A j \in jobs : /\ runs[j.run].status # "failed"
                     /\ j.at \in {"ask", "insert"} => runs[j.run].questions = <<>>
                     /\ j.at \in {"insert", "ready"} => j.questions \in Whole
                     /\ j.at = "ready" => runs[j.run].questions \in Whole
  /\ \A r \in DOMAIN runs : /\ runs[r].status = "failed" => runs[r].questions = <<>>
                            /\ runs[r].status \in {"ready", "completed"} => runs[r].questions \in Whole

\* A submission is to the questions of its run, which stay.
Answering ==
  /\ \A c \in Threads : client[c].at \in Questions!Submitting =>
        /\ client[c].run \in DOMAIN runs /\ client[c].questions = runs[client[c].run].questions
        /\ client[c].questions # <<>>
  /\ \A c \in Threads : client[c].at = "write" /\ ~client[c].stale =>
        client[c].score = Questions!compute_validator_score(client[c].questions, answers[client[c].run])

\* Unless a start was forced or overlapped another, only the last run is open,
\* and none while one is being started.
Starting(c) == client[c].at \in {"looked", "numbered"}
Alone ==
  /\ \A r \in DOMAIN runs : runs[r].number = r
  /\ \A c, d \in Threads : Starting(c) /\ Starting(d) => c = d
  /\ \A r \in DOMAIN runs : r # Len(runs) => runs[r].status = "failed"
  /\ \A c \in Threads : Starting(c) => \A r \in DOMAIN runs : runs[r].status = "failed"
  /\ \A c \in Threads : client[c].at = "numbered" => client[c].number = Len(runs) + 1

RunsInv == RunsTyped /\ Owned /\ Making /\ Answering /\ Questions!ScoreOfAnswers /\ (~forked => Alone)

-----------------------------------------------------------------------------
(* What a step changes *)

\* Questions that were made are as many as promised, at least one, and right.
LEMMA WholeIs ==
  ASSUME Questions!ValidatorAssumption, NEW qs \in Whole
  PROVE  Len(qs) \in MinQuestions .. MaxQuestions /\ (\A q \in Questions!ToSet(qs) : Right(q)) /\ qs # <<>>
<1>1. Len(qs) \in MinQuestions .. MaxQuestions /\ \A q \in Questions!ToSet(qs) : Right(q)
  BY MadeRight DEF Whole
<1>2. MinQuestions \in Nat \ {0} /\ MaxQuestions \in Nat
  BY DEF Questions!ValidatorAssumption
<1>3. Len(qs) # 0
  BY <1>1, <1>2
<1>. QED
  BY <1>1, <1>3, EmptySeq

\* A run with some fields changed, and a request.
RunWith(n, s, qs, score) == [number |-> n, status |-> s, questions |-> qs, score |-> score]
PostWith(at, r, n, qs, todo, score, late) ==
  [at |-> at, run |-> r, number |-> n, questions |-> qs, todo |-> todo, score |-> score, stale |-> late]

\* A run with another status, with questions, with a score, and a new one,
\* field by field.
LEMMA RunStatus == ASSUME NEW x \in Run, NEW s PROVE [x EXCEPT !.status = s] = RunWith(x.number, s, x.questions, x.score)
BY DEF Run, RunWith
LEMMA RunQuestions == ASSUME NEW x \in Run, NEW qs PROVE [x EXCEPT !.questions = qs] = RunWith(x.number, x.status, qs, x.score)
BY DEF Run, RunWith
LEMMA RunScore == ASSUME NEW x \in Run, NEW s, NEW k PROVE [x EXCEPT !.status = s, !.score = k] = RunWith(x.number, s, x.questions, k)
<1>1. [x EXCEPT !.status = s, !.score = k] = [[x EXCEPT !.status = s] EXCEPT !.score = k]
  BY DEF Run
<1>2. [RunWith(x.number, s, x.questions, x.score) EXCEPT !.score = k] = RunWith(x.number, s, x.questions, k)
  BY DEF RunWith
<1>. QED
  BY <1>1, <1>2, RunStatus, Zenon
LEMMA RunFresh == ASSUME NEW n PROVE [Questions!Fresh EXCEPT !.number = n] = RunWith(n, "generating", <<>>, None)
BY DEF RunWith, Questions!Fresh

\* The same for what a request is doing.
LEMMA PostAt == ASSUME NEW x \in Post, NEW a PROVE [x EXCEPT !.at = a] = PostWith(a, x.run, x.number, x.questions, x.todo, x.score, x.stale)
BY DEF Post, PostWith
LEMMA PostNumber == ASSUME NEW x \in Post, NEW a, NEW b PROVE [x EXCEPT !.at = a, !.number = b] = PostWith(a, x.run, b, x.questions, x.todo, x.score, x.stale)
<1>1. [x EXCEPT !.at = a, !.number = b] = [[x EXCEPT !.at = a] EXCEPT !.number = b]
  BY DEF Post
<1>2. [PostWith(a, x.run, x.number, x.questions, x.todo, x.score, x.stale) EXCEPT !.number = b] = PostWith(a, x.run, b, x.questions, x.todo, x.score, x.stale)
  BY DEF PostWith
<1>. QED
  BY <1>1, <1>2, PostAt, Zenon
LEMMA PostRun == ASSUME NEW x \in Post, NEW a, NEW b PROVE [x EXCEPT !.at = a, !.run = b] = PostWith(a, b, x.number, x.questions, x.todo, x.score, x.stale)
<1>1. [x EXCEPT !.at = a, !.run = b] = [[x EXCEPT !.at = a] EXCEPT !.run = b]
  BY DEF Post
<1>2. [PostWith(a, x.run, x.number, x.questions, x.todo, x.score, x.stale) EXCEPT !.run = b] = PostWith(a, b, x.number, x.questions, x.todo, x.score, x.stale)
  BY DEF PostWith
<1>. QED
  BY <1>1, <1>2, PostAt, Zenon
LEMMA PostScore == ASSUME NEW x \in Post, NEW a, NEW b PROVE [x EXCEPT !.at = a, !.score = b] = PostWith(a, x.run, x.number, x.questions, x.todo, b, x.stale)
<1>1. [x EXCEPT !.at = a, !.score = b] = [[x EXCEPT !.at = a] EXCEPT !.score = b]
  BY DEF Post
<1>2. [PostWith(a, x.run, x.number, x.questions, x.todo, x.score, x.stale) EXCEPT !.score = b] = PostWith(a, x.run, x.number, x.questions, x.todo, b, x.stale)
  BY DEF PostWith
<1>. QED
  BY <1>1, <1>2, PostAt, Zenon
LEMMA PostTodo == ASSUME NEW x \in Post, NEW a PROVE [x EXCEPT !.todo = a] = PostWith(x.at, x.run, x.number, x.questions, a, x.score, x.stale)
BY DEF Post, PostWith
LEMMA PostStale == ASSUME NEW x \in Post, NEW a PROVE [x EXCEPT !.stale = a] = PostWith(x.at, x.run, x.number, x.questions, x.todo, x.score, a)
BY DEF Post, PostWith

\* The arrays as functions.
LEMMA RunsAre ==
  ASSUME RunsTyped
  PROVE  /\ Len(runs) \in Nat /\ DOMAIN runs = 1 .. Len(runs) /\ runs \in [1 .. Len(runs) -> Run]
         /\ DOMAIN answers = 1 .. Len(runs) /\ answers \in [1 .. Len(runs) -> Answers]
BY LenProperties, ElementOfSeq DEF RunsTyped

\* An array of runs of the same length is one.
LEMMA AreRuns ==
  ASSUME RunsTyped, NEW f \in [1 .. Len(runs) -> Run]
  PROVE  f \in Seq(Run) /\ Len(f) = Len(runs) /\ DOMAIN f = DOMAIN runs
<1>1. f \in Seq(Run)
  BY RunsAre, SeqDef
<1>. QED
  BY <1>1, RunsAre, LenProperties

\* One run is replaced, and the others stay.
LEMMA RunSet ==
  ASSUME RunsTyped, NEW r \in DOMAIN runs, NEW x \in Run, runs' = [runs EXCEPT ![r] = x]
  PROVE  /\ runs' \in Seq(Run) /\ Len(runs') = Len(runs) /\ DOMAIN runs' = DOMAIN runs
         /\ runs'[r] = x /\ \A q \in DOMAIN runs \ {r} : runs'[q] = runs[q]
<1>1. runs' \in [1 .. Len(runs) -> Run] /\ runs'[r] = x /\ \A q \in DOMAIN runs \ {r} : runs'[q] = runs[q]
  BY RunsAre
<1>. QED
  BY <1>1, AreRuns

\* A run with some fields of their types is a run.
LEMMA RunAt ==
  ASSUME RunsTyped, NEW r \in DOMAIN runs
  PROVE  /\ runs[r] \in Run
         /\ \A s \in Status : RunWith(runs[r].number, s, runs[r].questions, runs[r].score) \in Run
         /\ \A qs \in Made : RunWith(runs[r].number, runs[r].status, qs, runs[r].score) \in Run
         /\ \A s \in Status, k \in Scores : RunWith(runs[r].number, s, runs[r].questions, k) \in Run
<1>1. runs[r] \in Run
  BY RunsAre
<1>. QED
  BY <1>1 DEF Run, RunWith, Status

\* A run becomes another status.
LEMMA StatusIs ==
  ASSUME RunsTyped, NEW r \in DOMAIN runs, NEW s \in Status, runs' = [runs EXCEPT ![r].status = s]
  PROVE  /\ runs' \in Seq(Run) /\ Len(runs') = Len(runs) /\ DOMAIN runs' = DOMAIN runs
         /\ runs'[r] = RunWith(runs[r].number, s, runs[r].questions, runs[r].score)
         /\ \A q \in DOMAIN runs \ {r} : runs'[q] = runs[q]
<1> DEFINE x == RunWith(runs[r].number, s, runs[r].questions, runs[r].score)
<1>1. runs[r] \in Run /\ x \in Run
  BY RunAt
<1>2. [runs[r] EXCEPT !.status = s] = x
  BY <1>1, RunStatus
<1>3. runs' = [runs EXCEPT ![r] = [runs[r] EXCEPT !.status = s]]
  BY RunsAre
<1>. HIDE DEF x
<1>4. runs' = [runs EXCEPT ![r] = x]
  BY <1>2, <1>3, Zenon
<1>5. /\ runs' \in Seq(Run) /\ Len(runs') = Len(runs) /\ DOMAIN runs' = DOMAIN runs
      /\ runs'[r] = x /\ \A q \in DOMAIN runs \ {r} : runs'[q] = runs[q]
  BY <1>1, <1>4, RunSet
<1>. QED
  BY <1>5 DEF x

\* insert_validator_questions: a run gets its questions.
LEMMA QuestionsAre ==
  ASSUME RunsTyped, NEW r \in DOMAIN runs, NEW qs \in Made, runs' = [runs EXCEPT ![r].questions = qs]
  PROVE  /\ runs' \in Seq(Run) /\ Len(runs') = Len(runs) /\ DOMAIN runs' = DOMAIN runs
         /\ runs'[r] = RunWith(runs[r].number, runs[r].status, qs, runs[r].score)
         /\ \A q \in DOMAIN runs \ {r} : runs'[q] = runs[q]
<1> DEFINE x == RunWith(runs[r].number, runs[r].status, qs, runs[r].score)
<1>1. runs[r] \in Run /\ x \in Run
  BY RunAt DEF Run
<1>2. [runs[r] EXCEPT !.questions = qs] = x
  BY <1>1, RunQuestions
<1>3. runs' = [runs EXCEPT ![r] = [runs[r] EXCEPT !.questions = qs]]
  BY RunsAre
<1>. HIDE DEF x
<1>4. runs' = [runs EXCEPT ![r] = x]
  BY <1>2, <1>3, Zenon
<1>5. /\ runs' \in Seq(Run) /\ Len(runs') = Len(runs) /\ DOMAIN runs' = DOMAIN runs
      /\ runs'[r] = x /\ \A q \in DOMAIN runs \ {r} : runs'[q] = runs[q]
  BY <1>1, <1>4, RunSet
<1>. QED
  BY <1>5 DEF x

\* update_validator_run_results: a run gets its status and score.
LEMMA ResultIs ==
  ASSUME RunsTyped, NEW r \in DOMAIN runs, NEW s \in Status, NEW k \in Scores, runs' = [runs EXCEPT ![r].status = s, ![r].score = k]
  PROVE  /\ runs' \in Seq(Run) /\ Len(runs') = Len(runs) /\ DOMAIN runs' = DOMAIN runs
         /\ runs'[r] = RunWith(runs[r].number, s, runs[r].questions, k)
         /\ \A q \in DOMAIN runs \ {r} : runs'[q] = runs[q]
<1> DEFINE x == RunWith(runs[r].number, s, runs[r].questions, k)
<1>1. runs[r] \in Run /\ x \in Run
  BY RunAt
<1>2. [runs[r] EXCEPT !.status = s, !.score = k] = x
  BY <1>1, RunScore
<1>3. runs' = [runs EXCEPT ![r] = [runs[r] EXCEPT !.status = s, !.score = k]]
  BY RunsAre
<1>. HIDE DEF x
<1>4. runs' = [runs EXCEPT ![r] = x]
  BY <1>2, <1>3, Zenon
<1>5. /\ runs' \in Seq(Run) /\ Len(runs') = Len(runs) /\ DOMAIN runs' = DOMAIN runs
      /\ runs'[r] = x /\ \A q \in DOMAIN runs \ {r} : runs'[q] = runs[q]
  BY <1>1, <1>4, RunSet
<1>. QED
  BY <1>5 DEF x

\* The same for requests.
LEMMA PostSet ==
  ASSUME RunsTyped, NEW c \in Threads, NEW x \in Post, client' = [client EXCEPT ![c] = x]
  PROVE  /\ client' \in [Threads -> Post]
         /\ client'[c] = x /\ \A d \in Threads : d # c => client'[d] = client[d]
BY DEF RunsTyped

\* A request that does nothing.
LEMMA IdleIs == Questions!Idle \in Post /\ Questions!Idle = PostWith("idle", 0, 0, <<>>, <<>>, None, FALSE)
<1>1. <<>> \in Made /\ <<>> \in Seq(Nat \X Nat) /\ None \in Scores
  BY EmptySeq DEF Made, Scores
<1>. QED
  BY <1>1 DEF Questions!Idle, Post, PostWith, Stage

\* A request with some fields of their types is one.
LEMMA PostIs ==
  ASSUME RunsTyped, NEW c \in Threads
  PROVE  client[c] \in Post
         /\ \A at \in Stage :
               /\ PostWith(at, client[c].run, client[c].number, client[c].questions, client[c].todo, client[c].score, client[c].stale) \in Post
               /\ \A n \in Nat : PostWith(at, client[c].run, n, client[c].questions, client[c].todo, client[c].score, client[c].stale) \in Post
               /\ \A n \in Nat : PostWith(at, n, client[c].number, client[c].questions, client[c].todo, client[c].score, client[c].stale) \in Post
               /\ \A k \in Scores : PostWith(at, client[c].run, client[c].number, client[c].questions, client[c].todo, k, client[c].stale) \in Post
         /\ \A todo \in Seq(Nat \X Nat) : PostWith(client[c].at, client[c].run, client[c].number, client[c].questions, todo, client[c].score, client[c].stale) \in Post
         /\ \A b \in BOOLEAN : PostWith(client[c].at, client[c].run, client[c].number, client[c].questions, client[c].todo, client[c].score, b) \in Post
<1>1. client[c] \in Post
  BY DEF RunsTyped
<1>. QED
  BY <1>1 DEF Post, PostWith, Stage

\* A request goes on; with a number; with a run; with a score.
LEMMA AtIs ==
  ASSUME RunsTyped, NEW c \in Threads, NEW a \in Stage,
         client' = [client EXCEPT ![c].at = a]
  PROVE  /\ client' \in [Threads -> Post]
         /\ client'[c] = PostWith(a, client[c].run, client[c].number, client[c].questions, client[c].todo, client[c].score, client[c].stale)
         /\ \A d \in Threads : d # c => client'[d] = client[d]
<1> DEFINE x == PostWith(a, client[c].run, client[c].number, client[c].questions, client[c].todo, client[c].score, client[c].stale)
<1>1. client[c] \in Post /\ x \in Post
  BY PostIs
<1>2. [client[c] EXCEPT !.at = a] = x
  BY <1>1, PostAt
<1>3. client' = [client EXCEPT ![c] = [client[c] EXCEPT !.at = a]]
  BY DEF RunsTyped
<1>. HIDE DEF x
<1>4. client' = [client EXCEPT ![c] = x]
  BY <1>2, <1>3, Zenon
<1>5. /\ client' \in [Threads -> Post]
      /\ client'[c] = x /\ \A d \in Threads : d # c => client'[d] = client[d]
  BY <1>1, <1>4, PostSet
<1>. QED
  BY <1>5 DEF x
LEMMA NumberIs ==
  ASSUME RunsTyped, NEW c \in Threads, NEW a \in Stage, NEW n \in Nat,
         client' = [client EXCEPT ![c].at = a, ![c].number = n]
  PROVE  /\ client' \in [Threads -> Post]
         /\ client'[c] = PostWith(a, client[c].run, n, client[c].questions, client[c].todo, client[c].score, client[c].stale)
         /\ \A d \in Threads : d # c => client'[d] = client[d]
<1> DEFINE x == PostWith(a, client[c].run, n, client[c].questions, client[c].todo, client[c].score, client[c].stale)
<1>1. client[c] \in Post /\ x \in Post
  BY PostIs
<1>2. [client[c] EXCEPT !.at = a, !.number = n] = x
  BY <1>1, PostNumber
<1>3. client' = [client EXCEPT ![c] = [client[c] EXCEPT !.at = a, !.number = n]]
  BY DEF RunsTyped
<1>. HIDE DEF x
<1>4. client' = [client EXCEPT ![c] = x]
  BY <1>2, <1>3, Zenon
<1>5. /\ client' \in [Threads -> Post]
      /\ client'[c] = x /\ \A d \in Threads : d # c => client'[d] = client[d]
  BY <1>1, <1>4, PostSet
<1>. QED
  BY <1>5 DEF x
LEMMA RunIs ==
  ASSUME RunsTyped, NEW c \in Threads, NEW a \in Stage, NEW r \in Nat,
         client' = [client EXCEPT ![c].at = a, ![c].run = r]
  PROVE  /\ client' \in [Threads -> Post]
         /\ client'[c] = PostWith(a, r, client[c].number, client[c].questions, client[c].todo, client[c].score, client[c].stale)
         /\ \A d \in Threads : d # c => client'[d] = client[d]
<1> DEFINE x == PostWith(a, r, client[c].number, client[c].questions, client[c].todo, client[c].score, client[c].stale)
<1>1. client[c] \in Post /\ x \in Post
  BY PostIs
<1>2. [client[c] EXCEPT !.at = a, !.run = r] = x
  BY <1>1, PostRun
<1>3. client' = [client EXCEPT ![c] = [client[c] EXCEPT !.at = a, !.run = r]]
  BY DEF RunsTyped
<1>. HIDE DEF x
<1>4. client' = [client EXCEPT ![c] = x]
  BY <1>2, <1>3, Zenon
<1>5. /\ client' \in [Threads -> Post]
      /\ client'[c] = x /\ \A d \in Threads : d # c => client'[d] = client[d]
  BY <1>1, <1>4, PostSet
<1>. QED
  BY <1>5 DEF x
LEMMA ScoreIs ==
  ASSUME RunsTyped, NEW c \in Threads, NEW a \in Stage, NEW k \in Scores,
         client' = [client EXCEPT ![c].at = a, ![c].score = k]
  PROVE  /\ client' \in [Threads -> Post]
         /\ client'[c] = PostWith(a, client[c].run, client[c].number, client[c].questions, client[c].todo, k, client[c].stale)
         /\ \A d \in Threads : d # c => client'[d] = client[d]
<1> DEFINE x == PostWith(a, client[c].run, client[c].number, client[c].questions, client[c].todo, k, client[c].stale)
<1>1. client[c] \in Post /\ x \in Post
  BY PostIs
<1>2. [client[c] EXCEPT !.at = a, !.score = k] = x
  BY <1>1, PostScore
<1>3. client' = [client EXCEPT ![c] = [client[c] EXCEPT !.at = a, !.score = k]]
  BY DEF RunsTyped
<1>. HIDE DEF x
<1>4. client' = [client EXCEPT ![c] = x]
  BY <1>2, <1>3, Zenon
<1>5. /\ client' \in [Threads -> Post]
      /\ client'[c] = x /\ \A d \in Threads : d # c => client'[d] = client[d]
  BY <1>1, <1>4, PostSet
<1>. QED
  BY <1>5 DEF x

\* A request ends.
LEMMA EndIs ==
  ASSUME RunsTyped, NEW c \in Threads, Questions!End(c)
  PROVE  /\ client' \in [Threads -> Post]
         /\ client'[c].at = "idle" /\ \A d \in Threads : d # c => client'[d] = client[d]
<1>1. /\ client' \in [Threads -> Post]
      /\ client'[c] = Questions!Idle /\ \A d \in Threads : d # c => client'[d] = client[d]
  BY IdleIs, PostSet DEF Questions!End
<1>. QED
  BY <1>1 DEF Questions!Idle

\* A request with the four fields of a submission.
LEMMA PostSubmit ==
  ASSUME NEW y \in Post, NEW a, NEW r, NEW qs, NEW todo
  PROVE  [y EXCEPT !.at = a, !.run = r, !.questions = qs, !.todo = todo] = PostWith(a, r, y.number, qs, todo, y.score, y.stale)
<1>1. [y EXCEPT !.at = a, !.run = r, !.questions = qs, !.todo = todo]
        = [[[y EXCEPT !.at = a, !.run = r] EXCEPT !.questions = qs] EXCEPT !.todo = todo]
  BY DEF Post
<1>2. [y EXCEPT !.at = a, !.run = r] = PostWith(a, r, y.number, y.questions, y.todo, y.score, y.stale)
  BY PostRun
<1>3. [PostWith(a, r, y.number, y.questions, y.todo, y.score, y.stale) EXCEPT !.questions = qs] = PostWith(a, r, y.number, qs, y.todo, y.score, y.stale)
  BY DEF PostWith
<1>4. [PostWith(a, r, y.number, qs, y.todo, y.score, y.stale) EXCEPT !.todo = todo] = PostWith(a, r, y.number, qs, todo, y.score, y.stale)
  BY DEF PostWith
<1>. QED
  BY <1>1, <1>2, <1>3, <1>4, Zenon

\* A submission is to the questions that the run has.
LEMMA SubmitIs ==
  ASSUME RunsTyped, NEW c \in Threads, NEW r \in DOMAIN runs, NEW given \in Seq(Nat \X Nat), Questions!Submit(c, r, given)
  PROVE  /\ client' \in [Threads -> Post]
         /\ client'[c].at = "save" /\ client'[c].run = r /\ client'[c].questions = runs[r].questions
         /\ \A d \in Threads : d # c => client'[d] = client[d]
<1> DEFINE x == PostWith("save", r, 0, runs[r].questions, given, None, FALSE)
<1>1. runs[r] \in Run /\ r \in Nat
  BY RunsAre
<1>2. x \in Post
  BY <1>1 DEF PostWith, Post, Run, Stage, Questions!Submitting, Scores
<1>3. [Questions!Idle EXCEPT !.at = "save", !.run = r, !.questions = runs[r].questions, !.todo = given] = x
  <2>1. Questions!Idle \in Post /\ Questions!Idle.number = 0 /\ Questions!Idle.score = None /\ Questions!Idle.stale = FALSE
    BY IdleIs DEF Questions!Idle
  <2>. HIDE DEF x
  <2>2. [Questions!Idle EXCEPT !.at = "save", !.run = r, !.questions = runs[r].questions, !.todo = given]
          = PostWith("save", r, Questions!Idle.number, runs[r].questions, given, Questions!Idle.score, Questions!Idle.stale)
    BY <2>1, PostSubmit, Zenon
  <2>. QED
    BY <2>1, <2>2, Zenon DEF x
<1>4. client' = [client EXCEPT ![c] = x]
  <2>. HIDE DEF x
  <2>. QED
    BY <1>3, Zenon DEF Questions!Submit
<1>5. /\ client' \in [Threads -> Post]
      /\ client'[c] = x /\ \A d \in Threads : d # c => client'[d] = client[d]
  <2>. HIDE DEF x
  <2>. QED
    BY <1>2, <1>4, PostSet
<1>. QED
  BY <1>5 DEF PostWith

\* An answer is saved: those of its run get another, and what was counted of
\* them by others is out of date.
LEMMA SaveIs ==
  ASSUME RunsTyped, NEW c \in Threads, client[c].run \in DOMAIN runs, Questions!Save(c)
  PROVE  /\ answers' \in Seq(Answers) /\ Len(answers') = Len(answers)
         /\ \A r \in DOMAIN runs : r # client[c].run => answers'[r] = answers[r]
         /\ client' \in [Threads -> Post] /\ client'[c].at = "save"
         /\ \A d \in Threads : /\ client'[d].at = client[d].at /\ client'[d].run = client[d].run
                               /\ client'[d].number = client[d].number /\ client'[d].questions = client[d].questions
                               /\ client'[d].score = client[d].score
                               /\ client[d].at = "write" /\ ~client'[d].stale => client[d].run # client[c].run /\ ~client[d].stale
<1> DEFINE r == client[c].run
           a == Head(client[c].todo)
           new == [q \in DOMAIN answers[r] \union {a[1]} |-> IF q = a[1] THEN a[2] ELSE answers[r][q]]
           x(d) == IF d = c THEN [client[c] EXCEPT !.todo = Tail(client[c].todo)]
                   ELSE IF client[d].run = r /\ client[d].at = "write" THEN [client[d] EXCEPT !.stale = TRUE] ELSE client[d]
<1>1. client[c] \in Post /\ client[c].todo \in Seq(Nat \X Nat) /\ client[c].todo # <<>> /\ client[c].at = "save"
  BY PostIs DEF Questions!Save, Post
<1>2. a \in Nat \X Nat /\ Tail(client[c].todo) \in Seq(Nat \X Nat)
  BY <1>1, HeadTailProperties
<1>3. answers' = [answers EXCEPT ![r] = new] /\ client' = [d \in Threads |-> x(d)]
  BY DEF Questions!Save
<1>4. new \in Answers
  <2>1. answers[r] \in Answers
    BY RunsAre
  <2>2. PICK D \in SUBSET Nat : answers[r] \in [D -> Nat]
    BY <2>1 DEF Answers
  <2>3. a[1] \in Nat /\ a[2] \in Nat
    BY <1>2
  <2>. HIDE DEF a, r
  <2>4. new \in [D \union {a[1]} -> Nat] /\ D \union {a[1]} \in SUBSET Nat
    BY <2>2, <2>3
  <2>. QED
    BY <2>4 DEF Answers
<1>5. /\ answers' \in [1 .. Len(runs) -> Answers]
      /\ \A s \in DOMAIN runs : s # r => answers'[s] = answers[s]
  <2>. HIDE DEF new, r
  <2>. QED
    BY <1>3, <1>4, RunsAre
<1>6. answers' \in Seq(Answers) /\ Len(answers') = Len(answers)
  <2>1. answers' \in Seq(Answers)
    BY <1>5, RunsAre, SeqDef
  <2>. QED
    BY <1>5, <2>1, RunsAre, LenProperties DEF RunsTyped
<1>7. ASSUME NEW d \in Threads
      PROVE  /\ client'[d] \in Post
             /\ client'[d].at = client[d].at /\ client'[d].run = client[d].run
             /\ client'[d].number = client[d].number /\ client'[d].questions = client[d].questions
             /\ client'[d].score = client[d].score
             /\ client[d].at = "write" /\ ~client'[d].stale => client[d].run # r /\ ~client[d].stale
  <2>0. client[d] \in Post /\ client'[d] = x(d)
    BY <1>3, PostIs
  <2>1. CASE d = c
    <3>1. client'[d] = PostWith(client[c].at, client[c].run, client[c].number, client[c].questions, Tail(client[c].todo), client[c].score, client[c].stale)
      BY <1>1, <2>0, <2>1, PostTodo
    <3>2. PostWith(client[c].at, client[c].run, client[c].number, client[c].questions, Tail(client[c].todo), client[c].score, client[c].stale) \in Post
      BY <1>1, <1>2 DEF Post, PostWith
    <3>. QED
      BY <1>1, <2>1, <3>1, <3>2 DEF PostWith
  <2>2. CASE d # c /\ client[d].run = r /\ client[d].at = "write"
    <3>1. client'[d] = PostWith(client[d].at, client[d].run, client[d].number, client[d].questions, client[d].todo, client[d].score, TRUE)
      BY <2>0, <2>2, PostStale
    <3>2. PostWith(client[d].at, client[d].run, client[d].number, client[d].questions, client[d].todo, client[d].score, TRUE) \in Post
      BY <2>0 DEF Post, PostWith
    <3>. QED
      BY <3>1, <3>2 DEF PostWith
  <2>3. CASE d # c /\ ~(client[d].run = r /\ client[d].at = "write")
    BY <2>0, <2>3
  <2>. QED
    BY <2>1, <2>2, <2>3
<1>8. client' \in [Threads -> Post]
  <2>. HIDE DEF x
  <2>. QED
    BY <1>3, <1>7
<1>. QED
  BY <1>1, <1>5, <1>6, <1>7, <1>8

-----------------------------------------------------------------------------
(* Every step keeps the invariant *)

\* A step of one request that is not a submission, before and after.
Elsewhere(c) ==
  /\ client[c].at \notin Questions!Submitting /\ client'[c].at \notin Questions!Submitting
  /\ \A d \in Threads : d # c => client'[d] = client[d]

\* It keeps what is said of submissions and scores.
LEMMA ElsewhereKeeps ==
  ASSUME RunsInv, NEW c \in Threads, Elsewhere(c), UNCHANGED <<runs, answers, crossed>>
  PROVE  Answering' /\ Questions!ScoreOfAnswers'
<1>1. \A d \in Threads : client'[d].at \in Questions!Submitting => d # c /\ client[d].at \in Questions!Submitting /\ client'[d] = client[d]
  BY DEF Elsewhere
<1>2. \A d \in Threads : client[d].at \in Questions!Submitting => client'[d] = client[d]
  BY DEF Elsewhere
<1>3. "write" \in Questions!Submitting
  BY DEF Questions!Submitting
<1>4. Answering'
  BY <1>1, <1>3 DEF RunsInv, Answering
<1>5. Questions!ScoreOfAnswers'
  BY <1>1, <1>2 DEF RunsInv, Questions!ScoreOfAnswers
<1>. QED
  BY <1>4, <1>5

\* A run that failed is the last one unless none did.
LEMMA LatestIs ==
  ASSUME RunsTyped, Alone, runs # <<>>
  PROVE  Questions!Latest = Len(runs) /\ Len(runs) \in DOMAIN runs
<1>1. Len(runs) \in Nat /\ Len(runs) # 0 /\ DOMAIN runs = 1 .. Len(runs)
  BY RunsAre, EmptySeq DEF RunsTyped
<1>2. \A r \in DOMAIN runs : runs[r].number = r
  BY DEF Alone
<1>3. ASSUME NEW r \in DOMAIN runs, \A s \in DOMAIN runs : runs[s].number <= runs[r].number
      PROVE  r = Len(runs)
  BY <1>1, <1>2, <1>3
<1>4. \A s \in DOMAIN runs : runs[s].number <= runs[Len(runs)].number
  BY <1>1, <1>2
<1>. QED
  BY <1>1, <1>3, <1>4 DEF Questions!Latest

\* start_validator: a start finds no run, or one that failed, or was forced.
LEMMA LookKeeps ==
  ASSUME Questions!ValidatorAssumption, RunsInv, NEW c \in Threads, NEW force \in BOOLEAN, Questions!Look(c, force)
  PROVE  RunsInv'
<1>. USE DEF RunsInv
<1>1. /\ client' \in [Threads -> Post]
      /\ client'[c] = PostWith("looked", client[c].run, client[c].number, client[c].questions, client[c].todo, client[c].score, client[c].stale)
      /\ \A d \in Threads : d # c => client'[d] = client[d]
  <2>1. client' = [client EXCEPT ![c].at = "looked"] /\ "looked" \in Stage
    BY DEF Questions!Look, Stage
  <2>. QED
    BY <2>1, AtIs
<1>2. client[c].at = "idle" /\ client'[c].at = "looked" /\ UNCHANGED <<runs, answers, jobs, crossed>>
  BY <1>1 DEF Questions!Look, PostWith
<1>3. Elsewhere(c)
  BY <1>1, <1>2 DEF Elsewhere, Questions!Submitting
<1>4. RunsTyped'
  BY <1>1, <1>2 DEF RunsTyped
<1>5. Owned' /\ Making'
  BY <1>1, <1>2 DEF Owned, Making, Launching
<1>6. ASSUME ~forked' PROVE Alone'
  <2>1. ~forked /\ ~force /\ \A d \in Threads : ~Starting(d)
    BY <1>6 DEF Questions!Look, Starting
  <2>2. \A r \in DOMAIN runs : runs[r].status = "failed"
    <3>1. CASE runs = <<>>
      BY <3>1, RunsAre, EmptySeq
    <3>2. CASE runs # <<>>
      <4>1. runs[Len(runs)].status = "failed"
        BY <2>1, <3>2, LatestIs DEF Questions!Look, Questions!get_existing_validator
      <4>. QED
        BY <2>1, <4>1 DEF Alone
    <3>. QED
      BY <3>1, <3>2
  <2>. QED
    BY <1>1, <1>2, <2>1, <2>2 DEF Alone, Starting
<1>. QED
  BY <1>2, <1>3, <1>4, <1>5, <1>6, ElsewhereKeeps

\* create_validator_run: the highest number and one.
LEMMA NumbersAre ==
  ASSUME RunsTyped
  PROVE  /\ Questions!Max({runs[r].number : r \in DOMAIN runs} \union {0}) \in Nat
         /\ (\A r \in DOMAIN runs : runs[r].number = r) => Questions!Max({runs[r].number : r \in DOMAIN runs} \union {0}) = Len(runs)
<1> DEFINE T == {runs[r].number : r \in DOMAIN runs}
           S == T \union {0}
<1>1. DOMAIN runs = 1 .. Len(runs) /\ Len(runs) \in Nat /\ \A r \in DOMAIN runs : runs[r].number \in Nat
  BY RunsAre DEF Run
<1>2. IsFiniteSet(DOMAIN runs)
  BY <1>1, FS_Interval
<1>3. IsFiniteSet(T)
  <2> DEFINE f == [r \in DOMAIN runs |-> runs[r].number]
  <2>1. f \in Surjection(DOMAIN runs, T)
    BY DEF Surjection
  <2>. HIDE DEF f, T
  <2>. QED
    BY <1>2, <2>1, FS_Surjection
<1>4. S \in SUBSET Nat /\ IsFiniteSet(S) /\ S # {}
  <2>1. S \in SUBSET Nat /\ S # {}
    BY <1>1
  <2>. HIDE DEF T
  <2>. QED
    BY <1>3, <2>1, FS_AddElement
<1>5. Questions!Max(S) \in S /\ \A y \in S : y <= Questions!Max(S)
  <2>. HIDE DEF S
  <2>. QED
    BY <1>4, GreatestIs
<1>6. ASSUME \A r \in DOMAIN runs : runs[r].number = r PROVE Questions!Max(S) = Len(runs)
  <2>1. S = 0 .. Len(runs)
    BY <1>1, <1>6
  <2>. HIDE DEF S
  <2>. QED
    BY <1>1, <1>5, <2>1
<1>. QED
  BY <1>4, <1>5, <1>6

\* The number taken is that of the next run unless another start overlaps.
LEMMA NumberKeeps ==
  ASSUME Questions!ValidatorAssumption, RunsInv, NEW c \in Threads, Questions!Number(c)
  PROVE  RunsInv'
<1>. USE DEF RunsInv
<1> DEFINE n == Questions!Max({runs[r].number : r \in DOMAIN runs} \union {0}) + 1
<1>0. n \in Nat
  BY NumbersAre
<1>1. /\ client' \in [Threads -> Post]
      /\ client'[c] = PostWith("numbered", client[c].run, n, client[c].questions, client[c].todo, client[c].score, client[c].stale)
      /\ \A d \in Threads : d # c => client'[d] = client[d]
  <2>1. client' = [client EXCEPT ![c].at = "numbered", ![c].number = n] /\ "numbered" \in Stage
    BY DEF Questions!Number, Stage
  <2>. HIDE DEF n
  <2>. QED
    BY <1>0, <2>1, NumberIs
<1>2. client[c].at = "looked" /\ client'[c].at = "numbered" /\ client'[c].number = n /\ UNCHANGED <<runs, answers, jobs, crossed, forked>>
  <2>1. client[c].at = "looked" /\ UNCHANGED <<runs, answers, jobs, crossed, forked>>
    BY DEF Questions!Number
  <2>. HIDE DEF n
  <2>2. client'[c].at = "numbered" /\ client'[c].number = n
    BY <1>1 DEF PostWith
  <2>. QED
    BY <2>1, <2>2
<1>3. Elsewhere(c)
  BY <1>1, <1>2 DEF Elsewhere, Questions!Submitting
<1>4. RunsTyped'
  BY <1>1, <1>2 DEF RunsTyped
<1>5. Owned' /\ Making'
  BY <1>1, <1>2 DEF Owned, Making, Launching
<1>6. ASSUME ~forked' PROVE Alone'
  <2>1. n = Len(runs) + 1
    BY <1>2, <1>6, NumbersAre DEF Alone
  <2>. HIDE DEF n
  <2>. QED
    BY <1>1, <1>2, <1>6, <2>1 DEF Alone, Starting
<1>. QED
  BY <1>2, <1>3, <1>4, <1>5, <1>6, ElsewhereKeeps

\* create_validator_run: a run without questions or answers, last of all.
LEMMA CreateIs ==
  ASSUME RunsTyped, NEW c \in Threads, Questions!create_validator_run(c)
  PROVE  /\ runs' \in Seq(Run) /\ Len(runs') = Len(runs) + 1 /\ DOMAIN runs' = DOMAIN runs \cup {Len(runs) + 1}
         /\ Len(runs) + 1 \notin DOMAIN runs /\ Len(runs) + 1 \in Nat
         /\ runs'[Len(runs) + 1] = RunWith(client[c].number, "generating", <<>>, None)
         /\ answers' \in Seq(Answers) /\ Len(answers') = Len(runs')
         /\ \A r \in DOMAIN runs : runs'[r] = runs[r] /\ answers'[r] = answers[r]
<1> DEFINE x == RunWith(client[c].number, "generating", <<>>, None)
<1>1. client[c] \in Post /\ Len(runs) \in Nat /\ DOMAIN runs = 1 .. Len(runs)
  BY PostIs, RunsAre
<1>2. x \in Run
  BY <1>1, EmptySeq DEF RunWith, Run, Post, Made, Scores, Status
<1>3. runs' = Append(runs, x) /\ answers' = Append(answers, <<>>)
  BY RunFresh, Zenon DEF Questions!create_validator_run
<1>4. <<>> \in Answers
  <2>1. <<>> \in Seq(Nat) /\ Len(<<>>) = 0
    BY EmptySeq
  <2>2. <<>> \in [1 .. 0 -> Nat]
    BY <2>1, LenProperties
  <2>3. 1 .. 0 \in SUBSET Nat
    OBVIOUS
  <2>. QED
    BY <2>2, <2>3 DEF Answers
<1>. HIDE DEF x
<1>5. /\ runs' \in Seq(Run) /\ Len(runs') = Len(runs) + 1 /\ runs'[Len(runs) + 1] = x
      /\ \A r \in 1 .. Len(runs) : runs'[r] = runs[r]
  BY <1>2, <1>3, AppendProperties DEF RunsTyped
<1>6. /\ answers' \in Seq(Answers) /\ Len(answers') = Len(answers) + 1
      /\ \A r \in 1 .. Len(answers) : answers'[r] = answers[r]
  BY <1>3, <1>4, AppendProperties DEF RunsTyped
<1>7. DOMAIN runs' = 1 .. Len(runs) + 1
  BY <1>5, LenProperties
<1>. QED
  BY <1>1, <1>5, <1>6, <1>7 DEF RunsTyped, x

\* The run that is created is the only one that is open.
LEMMA CreateKeeps ==
  ASSUME Questions!ValidatorAssumption, RunsInv, NEW c \in Threads, Questions!create_validator_run(c)
  PROVE  RunsInv'
<1>. USE DEF RunsInv
<1> DEFINE n == Len(runs) + 1
<1>1. /\ runs' \in Seq(Run) /\ Len(runs') = n /\ DOMAIN runs' = DOMAIN runs \cup {n} /\ n \notin DOMAIN runs /\ n \in Nat
      /\ answers' \in Seq(Answers) /\ Len(answers') = Len(runs')
      /\ \A r \in DOMAIN runs : runs'[r] = runs[r] /\ answers'[r] = answers[r]
  BY CreateIs
<1>2. runs'[n].number = client[c].number /\ runs'[n].status = "generating" /\ runs'[n].questions = <<>>
  <2>1. runs'[n] = RunWith(client[c].number, "generating", <<>>, None)
    BY CreateIs
  <2>. HIDE DEF n
  <2>. QED
    BY <2>1 DEF RunWith
<1>. HIDE DEF n
<1>3. /\ client' \in [Threads -> Post]
      /\ client'[c] = PostWith("launch", n, client[c].number, client[c].questions, client[c].todo, client[c].score, client[c].stale)
      /\ \A d \in Threads : d # c => client'[d] = client[d]
  <2>1. client' = [client EXCEPT ![c].at = "launch", ![c].run = n] /\ "launch" \in Stage
    BY DEF Questions!create_validator_run, Stage, n
  <2>2. n \in Nat /\ RunsTyped
    BY <1>1
  <2>. QED
    BY <2>1, <2>2, RunIs
<1>4. client[c].at = "numbered" /\ UNCHANGED <<jobs, crossed, forked>>
  BY DEF Questions!create_validator_run
<1>5. client'[c].at = "launch" /\ client'[c].run = n
  BY <1>3 DEF PostWith
<1>6. RunsTyped'
  BY <1>1, <1>3, <1>4 DEF RunsTyped
<1>7. Owned'
  BY <1>1, <1>3, <1>4, <1>5 DEF Owned, Launching
<1>8. Making'
  BY <1>1, <1>2, <1>3, <1>4, <1>5 DEF Owned, Making, Launching
<1>9. \A d \in Threads : client'[d].at \in Questions!Submitting => d # c /\ client'[d] = client[d] /\ client[d].at \in Questions!Submitting
  BY <1>3, <1>5 DEF Questions!Submitting
<1>10. Answering'
  <2>1. "write" \in Questions!Submitting
    BY DEF Questions!Submitting
  <2>. QED
    BY <1>1, <1>9, <2>1 DEF Answering
<1>11. Questions!ScoreOfAnswers'
  <2>1. ASSUME NEW r \in DOMAIN runs' \ crossed', runs'[r].status = "completed",
               \A d \in Threads : client'[d].run # r \/ client'[d].at \notin Questions!Submitting
        PROVE  runs'[r].score = Questions!compute_validator_score(runs'[r].questions, answers'[r])
    <3>1. r \in DOMAIN runs \ crossed /\ runs'[r] = runs[r] /\ answers'[r] = answers[r]
      BY <1>1, <1>2, <1>4, <2>1
    <3>2. \A d \in Threads : client[d].at \in Questions!Submitting => client'[d] = client[d]
      BY <1>3, <1>4 DEF Questions!Submitting
    <3>3. \A d \in Threads : client[d].run # r \/ client[d].at \notin Questions!Submitting
      BY <2>1, <3>2
    <3>. QED
      BY <2>1, <3>1, <3>3 DEF Questions!ScoreOfAnswers
  <2>. QED
    BY <2>1 DEF Questions!ScoreOfAnswers
<1>12. ASSUME ~forked' PROVE Alone'
  <2>1. client[c].number = n /\ \A r \in DOMAIN runs : runs[r].number = r /\ runs[r].status = "failed"
    BY <1>4, <1>12 DEF Alone, Starting, n
  <2>2. \A d \in Threads : ~Starting(d)'
    <3>1. \A d \in Threads : d # c => ~Starting(d)
      BY <1>4, <1>12 DEF Alone, Starting
    <3>. QED
      BY <1>3, <1>5, <3>1 DEF Starting
  <2>3. \A d \in Threads : client'[d].at # "numbered"
    BY <2>2 DEF Starting
  <2>. QED
    BY <1>1, <1>2, <2>1, <2>2, <2>3 DEF Alone
<1>. QED
  BY <1>6, <1>7, <1>8, <1>10, <1>11, <1>12

\* The job takes the run over from the request, or leaves it as it is.
LEMMA LaunchKeeps ==
  ASSUME Questions!ValidatorAssumption, RunsInv, NEW c \in Threads, Questions!Launch(c)
  PROVE  RunsInv'
<1>. USE DEF RunsInv
<1> DEFINE new == [run |-> client[c].run, at |-> "ask", questions |-> <<>>]
<1>1. client' \in [Threads -> Post] /\ client'[c].at = "idle" /\ \A d \in Threads : d # c => client'[d] = client[d]
  BY EndIs DEF Questions!Launch
<1>2. client[c].at = "launch" /\ UNCHANGED <<runs, answers, crossed, forked>>
  BY DEF Questions!Launch
<1>3. client[c].run \in DOMAIN runs /\ client[c].run \in Nat
  BY <1>2, RunsAre DEF Owned, Launching
<1>4. new \in Job /\ new.run = client[c].run /\ new.at = "ask"
  BY <1>3 DEF Job, Made
<1>. HIDE DEF new
<1>5. jobs' = jobs \cup {new} \/ jobs' = jobs
  BY DEF Questions!Launch, new
<1>6. Elsewhere(c)
  BY <1>1, <1>2 DEF Elsewhere, Questions!Submitting
<1>7. RunsTyped'
  BY <1>1, <1>2, <1>4, <1>5 DEF RunsTyped
<1>8. \A d \in Threads : Launching(d)' => d # c /\ Launching(d) /\ client'[d] = client[d]
  BY <1>1 DEF Launching
<1>9. Owned'
  <2>1. \A j \in jobs' : j \in jobs \/ j = new
    BY <1>5
  <2>2. \A j \in jobs : j.run # new.run
    BY <1>2, <1>4 DEF Owned, Launching
  <2>3. \A d \in Threads : Launching(d)' => client'[d].run # new.run
    BY <1>2, <1>4, <1>8 DEF Owned, Launching
  <2>. QED
    BY <1>2, <1>3, <1>4, <1>8, <2>1, <2>2, <2>3 DEF Owned
<1>10. Making'
  <2>1. \A j \in jobs' : j \in jobs \/ j = new
    BY <1>5
  <2>2. runs[new.run].status # "failed" /\ runs[new.run].questions = <<>>
    BY <1>2, <1>4 DEF Making, Launching
  <2>. QED
    BY <1>2, <1>4, <1>8, <2>1, <2>2 DEF Making
<1>11. ASSUME ~forked' PROVE Alone'
  BY <1>1, <1>2, <1>11 DEF Alone, Starting
<1>. QED
  BY <1>2, <1>6, <1>7, <1>9, <1>10, <1>11, ElsewhereKeeps

\* A step of a job leaves requests and answers alone, and of the runs changes
\* the status or the questions of its own.
LEMMA JobOf ==
  ASSUME RunsInv, NEW j \in jobs
  PROVE  j \in Job /\ j.run \in DOMAIN runs /\ j.questions \in Made
BY DEF RunsInv, RunsTyped, Owned, Job

\* The run of a job becomes another status, and the job ends or goes on.
Rewritten(j, s, qs) ==
  /\ DOMAIN runs' = DOMAIN runs /\ Len(runs') = Len(runs) /\ runs' \in Seq(Run)
  /\ \A r \in DOMAIN runs : runs'[r].number = runs[r].number /\ runs'[r].score = runs[r].score
  /\ \A r \in DOMAIN runs \ {j.run} : runs'[r] = runs[r]
  /\ runs'[j.run].status = s /\ runs'[j.run].questions = qs

\* The status of the run of a job changes.
LEMMA BecomesIs ==
  ASSUME RunsTyped, NEW j, j.run \in DOMAIN runs, NEW s \in Status, Questions!Becomes(j.run, s)
  PROVE  Rewritten(j, s, runs[j.run].questions)
<1> DEFINE r == j.run
<1>1. /\ runs' \in Seq(Run) /\ Len(runs') = Len(runs) /\ DOMAIN runs' = DOMAIN runs
      /\ runs'[r] = RunWith(runs[r].number, s, runs[r].questions, runs[r].score)
      /\ \A q \in DOMAIN runs \ {r} : runs'[q] = runs[q]
  BY StatusIs DEF Questions!Becomes
<1>2. runs'[r].number = runs[r].number /\ runs'[r].score = runs[r].score /\ runs'[r].status = s /\ runs'[r].questions = runs[r].questions
  BY <1>1 DEF RunWith
<1>. QED
  BY <1>1, <1>2 DEF Rewritten

\* Only the failing of a run, before which it has no questions, and what
\* keeps a run open, reach the rest of the invariant.
LEMMA RewrittenKeeps ==
  ASSUME RunsInv, NEW j \in jobs, NEW s \in Status \ {"completed"}, NEW qs \in Made, Rewritten(j, s, qs),
         s = runs[j.run].status \/ s \in {"failed", "generating", "ready"},
         qs = runs[j.run].questions \/ runs[j.run].questions = <<>>,
         UNCHANGED <<answers, client, crossed, forked>>, jobs' \subseteq Job
  PROVE  RunsTyped' /\ Answering' /\ Questions!ScoreOfAnswers' /\ (~forked' => Alone')
<1>. USE DEF RunsInv
<1>1. RunsTyped'
  BY DEF RunsTyped, Rewritten
<1>2. \A c \in Threads : client[c].at \in Questions!Submitting => client[c].run # j.run \/ qs = runs[j.run].questions
  BY DEF Answering
<1>3. Answering'
  BY <1>2 DEF Answering, Rewritten
<1>4. Questions!ScoreOfAnswers'
  BY JobOf DEF Questions!ScoreOfAnswers, Rewritten
<1>5. ASSUME ~forked' PROVE Alone'
  <2>1. j.run = Len(runs) /\ \A c \in Threads : ~Starting(c)
    BY <1>5, JobOf DEF Alone, Making
  <2>. QED
    BY <1>5, <2>1 DEF Alone, Rewritten, Starting
<1>. QED
  BY <1>1, <1>3, <1>4, <1>5

\* The job that goes on is the only one of its run.
LEMMA NextJob ==
  ASSUME RunsInv, NEW j \in jobs, NEW next, next = {} \/ \E k \in Job : next = {k} /\ k.run = j.run, Questions!Only(j, next),
         DOMAIN runs' = DOMAIN runs, client' = client
  PROVE  /\ jobs' \subseteq Job /\ Owned'
         /\ \A k \in jobs' : k \in next \/ (k \in jobs /\ k.run # j.run)
<1>. USE DEF RunsInv
<1>1. \A k \in jobs' : k \in next \/ (k \in jobs /\ k.run # j.run)
  BY DEF Questions!Only, Owned
<1>2. jobs' \subseteq Job
  BY DEF Questions!Only, RunsTyped
<1>3. \A k \in jobs' : k.run = j.run \/ k \in jobs
  BY <1>1
<1>4. \A k, l \in jobs' : k.run = l.run => k = l
  BY <1>1, <1>3 DEF Owned
<1>5. Owned'
  BY <1>3, <1>4 DEF Owned, Launching
<1>. QED
  BY <1>1, <1>2, <1>5

\* The job fails its run, or has whole questions in hand.
LEMMA AskKeeps ==
  ASSUME Questions!ValidatorAssumption, RunsInv, NEW j \in jobs, Questions!Ask(j)
  PROVE  RunsInv'
<1>. USE DEF RunsInv
<1>1. j \in Job /\ j.run \in DOMAIN runs /\ j.at = "ask" /\ UNCHANGED <<answers, client, submits, crashes, forked, crossed>>
  BY JobOf DEF Questions!Ask
<1>2. runs[j.run].questions = <<>> /\ <<>> \in Made
  BY <1>1 DEF Making, Made
<1>3. CASE Questions!Becomes(j.run, "failed") /\ Questions!Only(j, {})
  <2>1. Rewritten(j, "failed", <<>>)
    BY <1>1, <1>2, <1>3, BecomesIs DEF Status
  <2>2. DOMAIN runs' = DOMAIN runs
    BY <2>1 DEF Rewritten
  <2>3. /\ jobs' \subseteq Job /\ Owned'
        /\ \A k \in jobs' : k \in jobs /\ k.run # j.run
    BY <1>1, <1>3, <2>2, NextJob
  <2>4. RunsTyped' /\ Answering' /\ Questions!ScoreOfAnswers' /\ (~forked' => Alone')
    BY <1>1, <1>2, <2>1, <2>3, RewrittenKeeps DEF Status
  <2>5. \A c \in Threads : Launching(c) => client[c].run # j.run /\ client[c].run \in DOMAIN runs
    BY DEF Owned
  <2>6. \A k \in jobs : k.run \in DOMAIN runs
    BY DEF Owned
  <2>7. Making'
    BY <1>1, <2>1, <2>3, <2>5, <2>6 DEF Making, Rewritten, Launching
  <2>. QED
    BY <2>3, <2>4, <2>7
<1>4. ASSUME NEW reply \in Replies \ {Failed}, NEW qs \in Questions!normalize_and_filter_questions(reply),
             Questions!Only(j, {[j EXCEPT !.at = "insert", !.questions = qs]}), Questions!Becomes(j.run, "generating")
      PROVE  RunsInv'
  <2> DEFINE k == [run |-> j.run, at |-> "insert", questions |-> qs]
  <2>1. qs \in Whole /\ qs \in Made
    BY DEF Whole, Made
  <2>2. [j EXCEPT !.at = "insert", !.questions = qs] = k
    <3>1. [j EXCEPT !.at = "insert", !.questions = qs] = [[j EXCEPT !.at = "insert"] EXCEPT !.questions = qs]
      BY <1>1 DEF Job
    <3>2. [j EXCEPT !.at = "insert"] = [run |-> j.run, at |-> "insert", questions |-> j.questions]
      BY <1>1 DEF Job
    <3>3. [[run |-> j.run, at |-> "insert", questions |-> j.questions] EXCEPT !.questions = qs] = k
      OBVIOUS
    <3>. HIDE DEF k
    <3>. QED
      BY <3>1, <3>2, <3>3, Zenon
  <2>3. k \in Job /\ k.run = j.run /\ k.at = "insert" /\ k.questions = qs
    BY <1>1, <2>1 DEF Job
  <2>. HIDE DEF k
  <2>4. Rewritten(j, "generating", <<>>)
    BY <1>1, <1>2, <1>4, BecomesIs DEF Status
  <2>5. DOMAIN runs' = DOMAIN runs
    BY <2>4 DEF Rewritten
  <2>6. Questions!Only(j, {k})
    BY <1>4, <2>2, Zenon
  <2>7. /\ jobs' \subseteq Job /\ Owned'
        /\ \A l \in jobs' : l = k \/ (l \in jobs /\ l.run # j.run)
    BY <1>1, <2>3, <2>5, <2>6, NextJob
  <2>8. RunsTyped' /\ Answering' /\ Questions!ScoreOfAnswers' /\ (~forked' => Alone')
    BY <1>1, <1>2, <2>4, <2>7, RewrittenKeeps DEF Status
  <2>9. \A c \in Threads : Launching(c) => client[c].run # j.run /\ client[c].run \in DOMAIN runs
    BY DEF Owned
  <2>10. \A l \in jobs : l.run \in DOMAIN runs
    BY DEF Owned
  <2>11. Making'
    BY <1>1, <2>1, <2>3, <2>4, <2>7, <2>9, <2>10 DEF Making, Rewritten, Launching
  <2>. QED
    BY <2>7, <2>8, <2>11
<1>. QED
  BY <1>3, <1>4 DEF Questions!Ask

\* The questions are inserted once.
LEMMA InsertKeeps ==
  ASSUME Questions!ValidatorAssumption, RunsInv, NEW j \in jobs, Questions!InsertQuestions(j)
  PROVE  RunsInv'
<1>. USE DEF RunsInv
<1> DEFINE k == [run |-> j.run, at |-> "ready", questions |-> j.questions]
           r == j.run
<1>1. j \in Job /\ r \in DOMAIN runs /\ j.at = "insert" /\ j.questions \in Made /\ UNCHANGED <<answers, client, submits, crashes, forked, crossed>>
  BY JobOf DEF Questions!InsertQuestions
<1>2. runs[r].questions = <<>> /\ j.questions \in Whole /\ runs[r].status # "failed"
  BY <1>1 DEF Making
<1>3. /\ runs' \in Seq(Run) /\ Len(runs') = Len(runs) /\ DOMAIN runs' = DOMAIN runs
      /\ runs'[r] = RunWith(runs[r].number, runs[r].status, j.questions, runs[r].score)
      /\ \A q \in DOMAIN runs \ {r} : runs'[q] = runs[q]
  BY <1>1, QuestionsAre DEF Questions!InsertQuestions, Questions!insert_validator_questions
<1>4. runs'[r].number = runs[r].number /\ runs'[r].score = runs[r].score /\ runs'[r].status = runs[r].status /\ runs'[r].questions = j.questions
  BY <1>3 DEF RunWith
<1>5. Rewritten(j, runs[r].status, j.questions)
  BY <1>3, <1>4 DEF Rewritten
<1>6. runs[r].status \in Status \ {"completed", "ready"}
  <2>1. runs[r] \in Run
    BY <1>1, RunAt
  <2>2. <<>> \notin Whole
    BY WholeIs
  <2>. QED
    BY <1>1, <1>2, <2>1, <2>2 DEF Run, Making
<1>7. [j EXCEPT !.at = "ready"] = k /\ k \in Job /\ k.run = r /\ k.at = "ready" /\ k.questions = j.questions
  BY <1>1 DEF Job
<1>. HIDE DEF k
<1>8. Questions!Only(j, {k})
  BY <1>7, Zenon DEF Questions!InsertQuestions
<1>9. /\ jobs' \subseteq Job /\ Owned'
      /\ \A l \in jobs' : l = k \/ (l \in jobs /\ l.run # r)
  BY <1>1, <1>3, <1>7, <1>8, NextJob
<1>10. RunsTyped' /\ Answering' /\ Questions!ScoreOfAnswers' /\ (~forked' => Alone')
  BY <1>1, <1>2, <1>5, <1>6, <1>9, RewrittenKeeps
<1>11. \A c \in Threads : Launching(c) => client[c].run # r /\ client[c].run \in DOMAIN runs
  BY DEF Owned
<1>12. \A l \in jobs : l.run \in DOMAIN runs
  BY DEF Owned
<1>13. Making'
  BY <1>1, <1>2, <1>3, <1>4, <1>7, <1>9, <1>11, <1>12 DEF Making, Launching
<1>. QED
  BY <1>9, <1>10, <1>13

\* The run whose questions are inserted becomes ready.
LEMMA ReadyKeeps ==
  ASSUME Questions!ValidatorAssumption, RunsInv, NEW j \in jobs, Questions!Ready(j)
  PROVE  RunsInv'
<1>. USE DEF RunsInv
<1>1. j \in Job /\ j.run \in DOMAIN runs /\ j.at = "ready" /\ Questions!Only(j, {}) /\ UNCHANGED <<answers, client, submits, crashes, forked, crossed>>
  BY JobOf DEF Questions!Ready
<1>2. runs[j.run].questions \in Whole /\ runs[j.run].questions \in Made
  BY <1>1 DEF Making, Made
<1>3. Rewritten(j, "ready", runs[j.run].questions)
  BY <1>1, BecomesIs DEF Status, Questions!Ready
<1>4. DOMAIN runs' = DOMAIN runs
  BY <1>3 DEF Rewritten
<1>5. /\ jobs' \subseteq Job /\ Owned'
      /\ \A k \in jobs' : k \in jobs /\ k.run # j.run
  BY <1>1, <1>4, NextJob
<1>6. RunsTyped' /\ Answering' /\ Questions!ScoreOfAnswers' /\ (~forked' => Alone')
  BY <1>1, <1>2, <1>3, <1>5, RewrittenKeeps DEF Status
<1>7. \A c \in Threads : Launching(c) => client[c].run # j.run /\ client[c].run \in DOMAIN runs
  BY DEF Owned
<1>8. \A l \in jobs : l.run \in DOMAIN runs
  BY DEF Owned
<1>9. Making'
  BY <1>1, <1>2, <1>3, <1>5, <1>7, <1>8 DEF Making, Rewritten, Launching
<1>. QED
  BY <1>5, <1>6, <1>9

\* A job that cannot read the documents leaves its run alone.
LEMMA ContextFailsKeeps ==
  ASSUME Questions!ValidatorAssumption, RunsInv, NEW j \in jobs, Questions!ContextFails(j)
  PROVE  RunsInv'
<1>. USE DEF RunsInv
<1>1. Questions!Only(j, {}) /\ UNCHANGED <<runs, answers, client, submits, crashes, forked, crossed>>
  BY DEF Questions!ContextFails
<1>2. /\ jobs' \subseteq Job /\ Owned'
      /\ \A k \in jobs' : k \in jobs
  BY <1>1, NextJob
<1>3. RunsTyped'
  BY <1>1, <1>2 DEF RunsTyped
<1>4. Making'
  BY <1>1, <1>2 DEF Making, Launching
<1>5. Answering' /\ Questions!ScoreOfAnswers' /\ (~forked' => Alone')
  BY <1>1 DEF Answering, Questions!ScoreOfAnswers, Alone, Starting
<1>. QED
  BY <1>2, <1>3, <1>4, <1>5

\* A step of a request that changes neither runs nor jobs.
LEMMA SubmitKeeps ==
  ASSUME Questions!ValidatorAssumption, RunsInv, NEW c \in Threads, NEW r \in DOMAIN runs, NEW given \in Selections, Questions!Submit(c, r, given)
  PROVE  RunsInv'
<1>. USE DEF RunsInv
<1>1. given \in Seq(Nat \X Nat)
  BY DEF Questions!ValidatorAssumption
<1>2. /\ client' \in [Threads -> Post]
      /\ client'[c].at = "save" /\ client'[c].run = r /\ client'[c].questions = runs[r].questions
      /\ \A d \in Threads : d # c => client'[d] = client[d]
  BY <1>1, SubmitIs
<1>3. client[c].at = "idle" /\ runs[r].questions # <<>> /\ UNCHANGED <<runs, answers, jobs, crossed, forked>>
  BY DEF Questions!Submit
<1>4. RunsTyped'
  BY <1>2, <1>3 DEF RunsTyped
<1>5. Owned' /\ Making'
  BY <1>2, <1>3 DEF Owned, Making, Launching
<1>6. Answering'
  BY <1>2, <1>3 DEF Answering
<1>7. Questions!ScoreOfAnswers'
  <2>1. \A d \in Threads : client[d].at \in Questions!Submitting => d # c
    BY <1>3 DEF Questions!Submitting
  <2>. QED
    BY <1>2, <1>3, <2>1 DEF Questions!ScoreOfAnswers
<1>8. ASSUME ~forked' PROVE Alone'
  BY <1>2, <1>3, <1>8 DEF Alone, Starting
<1>. QED
  BY <1>4, <1>5, <1>6, <1>7, <1>8

\* An answer is saved while others may have counted.
LEMMA SaveKeeps ==
  ASSUME Questions!ValidatorAssumption, RunsInv, NEW c \in Threads, Questions!Save(c)
  PROVE  RunsInv'
<1>. USE DEF RunsInv
<1>1. client[c].at = "save" /\ UNCHANGED <<runs, jobs, forked, crossed>> /\ client[c].at \in Questions!Submitting
  BY DEF Questions!Save, Questions!Submitting
<1>2. client[c].run \in DOMAIN runs
  BY <1>1 DEF Answering
<1>3. /\ answers' \in Seq(Answers) /\ Len(answers') = Len(answers)
      /\ \A r \in DOMAIN runs : r # client[c].run => answers'[r] = answers[r]
      /\ client' \in [Threads -> Post]
  BY <1>2, SaveIs
<1>4. ASSUME NEW d \in Threads
      PROVE  /\ client'[d].at = client[d].at /\ client'[d].run = client[d].run
             /\ client'[d].number = client[d].number /\ client'[d].questions = client[d].questions
             /\ client'[d].score = client[d].score
  BY <1>2, SaveIs, Zenon
<1>5. ASSUME NEW d \in Threads, client[d].at = "write", ~client'[d].stale
      PROVE  client[d].run # client[c].run /\ ~client[d].stale
  BY <1>2, <1>5, SaveIs, Zenon
<1>6. RunsTyped'
  BY <1>1, <1>3 DEF RunsTyped
<1>7. Owned' /\ Making'
  BY <1>1, <1>4 DEF Owned, Making, Launching
<1>8. Answering'
  <2>1. ASSUME NEW d \in Threads, client'[d].at = "write", ~client'[d].stale
        PROVE  client'[d].score = Questions!compute_validator_score(client'[d].questions, answers'[client'[d].run])
    <3>1. client[d].at = "write"
      BY <1>4, <2>1
    <3>2. ~client[d].stale /\ client[d].run # client[c].run
      BY <1>5, <2>1, <3>1
    <3>3. client[d].run \in DOMAIN runs
      BY <3>1 DEF Answering, Questions!Submitting
    <3>4. client[d].score = Questions!compute_validator_score(client[d].questions, answers[client[d].run])
      BY <3>1, <3>2 DEF Answering
    <3>5. answers'[client[d].run] = answers[client[d].run]
      BY <1>3, <3>2, <3>3
    <3>. QED
      BY <1>4, <3>4, <3>5
  <2>2. ASSUME NEW d \in Threads, client'[d].at \in Questions!Submitting
        PROVE  client'[d].run \in DOMAIN runs' /\ client'[d].questions = runs'[client'[d].run].questions /\ client'[d].questions # <<>>
    <3>1. client[d].at \in Questions!Submitting
      BY <1>4, <2>2
    <3>. QED
      BY <1>1, <1>4, <3>1 DEF Answering
  <2>. QED
    BY <2>1, <2>2 DEF Answering
<1>9. Questions!ScoreOfAnswers'
  <2>1. ASSUME NEW r \in DOMAIN runs' \ crossed', runs'[r].status = "completed",
               \A d \in Threads : client'[d].run # r \/ client'[d].at \notin Questions!Submitting
        PROVE  runs'[r].score = Questions!compute_validator_score(runs'[r].questions, answers'[r])
    <3>1. \A d \in Threads : client[d].run # r \/ client[d].at \notin Questions!Submitting
      BY <1>4, <2>1
    <3>2. r # client[c].run /\ r \in DOMAIN runs \ crossed /\ runs'[r] = runs[r]
      BY <1>1, <2>1, <3>1
    <3>. QED
      BY <1>3, <2>1, <3>1, <3>2 DEF Questions!ScoreOfAnswers
  <2>. QED
    BY <2>1 DEF Questions!ScoreOfAnswers
<1>10. ASSUME ~forked' PROVE Alone'
  BY <1>1, <1>4, <1>10 DEF Alone, Starting
<1>. QED
  BY <1>6, <1>7, <1>8, <1>9, <1>10

\* The answers are counted.
LEMMA ScoreKeeps ==
  ASSUME Questions!ValidatorAssumption, RunsInv, NEW c \in Threads, Questions!Score(c)
  PROVE  RunsInv'
<1>. USE DEF RunsInv
<1> DEFINE k == Questions!compute_validator_score(client[c].questions, answers[client[c].run])
<1>1. client[c].at = "save" /\ UNCHANGED <<runs, answers, jobs, forked, crossed>> /\ client[c].at \in Questions!Submitting
  BY DEF Questions!Score, Questions!Submitting
<1>2. client[c].run \in DOMAIN runs /\ client[c].questions \in Made
  <2>1. client[c] \in Post
    BY PostIs
  <2>. QED
    BY <1>1, <2>1 DEF Answering, Post
<1>3. k \in Scores
  <2>1. answers[client[c].run] \in Answers
    BY <1>2, RunsAre
  <2>. QED
    BY <1>2, <2>1 DEF Scores
<1>4. client' = [client EXCEPT ![c].at = "write", ![c].score = k] /\ "write" \in Stage /\ "write" \in Questions!Submitting
  BY DEF Questions!Score, Stage, Questions!Submitting
<1>. HIDE DEF k
<1>5. /\ client' \in [Threads -> Post]
      /\ client'[c] = PostWith("write", client[c].run, client[c].number, client[c].questions, client[c].todo, k, client[c].stale)
      /\ \A d \in Threads : d # c => client'[d] = client[d]
  BY <1>3, <1>4, ScoreIs
<1>6. client'[c].at = "write" /\ client'[c].run = client[c].run /\ client'[c].questions = client[c].questions /\ client'[c].score = k
  BY <1>5 DEF PostWith
<1>7. RunsTyped'
  BY <1>1, <1>5 DEF RunsTyped
<1>8. Owned' /\ Making'
  BY <1>1, <1>5, <1>6 DEF Owned, Making, Launching
<1>9. Answering'
  BY <1>1, <1>5, <1>6 DEF Answering, k
<1>10. Questions!ScoreOfAnswers'
  <2>1. \A d \in Threads : client'[d].run = client[d].run /\ (client'[d].at \in Questions!Submitting <=> client[d].at \in Questions!Submitting)
    BY <1>1, <1>4, <1>5, <1>6
  <2>. QED
    BY <1>1, <2>1 DEF Questions!ScoreOfAnswers
<1>11. ASSUME ~forked' PROVE Alone'
  BY <1>1, <1>5, <1>6, <1>11 DEF Alone, Starting
<1>. QED
  BY <1>7, <1>8, <1>9, <1>10, <1>11

\* The score is written: of all the answers unless some were saved since.
LEMMA UpdateKeeps ==
  ASSUME Questions!ValidatorAssumption, RunsInv, NEW c \in Threads, Questions!update_validator_run_results(c)
  PROVE  RunsInv'
<1>. USE DEF RunsInv
<1> DEFINE r == client[c].run
           k == client[c].score
<1>1. client[c].at = "write" /\ UNCHANGED <<answers, jobs, forked>> /\ client[c].at \in Questions!Submitting
  BY DEF Questions!update_validator_run_results, Questions!Submitting
<1>2. r \in DOMAIN runs /\ k \in Scores /\ client[c].questions = runs[r].questions /\ runs[r].questions # <<>>
  <2>1. client[c] \in Post
    BY PostIs
  <2>. QED
    BY <1>1, <2>1 DEF Answering, Post
<1>3. /\ client' \in [Threads -> Post]
      /\ client'[c].at = "idle" /\ \A d \in Threads : d # c => client'[d] = client[d]
  BY EndIs DEF Questions!update_validator_run_results
<1>4. runs' = [runs EXCEPT ![r].status = "completed", ![r].score = k] /\ "completed" \in Status
  BY DEF Questions!update_validator_run_results, Questions!Result, Status
<1>5. crossed' = IF client[c].stale THEN crossed \union {r} ELSE crossed \ {r}
  BY DEF Questions!update_validator_run_results
<1>. HIDE DEF r, k
<1>6. /\ runs' \in Seq(Run) /\ Len(runs') = Len(runs) /\ DOMAIN runs' = DOMAIN runs
      /\ runs'[r] = RunWith(runs[r].number, "completed", runs[r].questions, k)
      /\ \A q \in DOMAIN runs \ {r} : runs'[q] = runs[q]
  BY <1>2, <1>4, ResultIs
<1>7. runs'[r].number = runs[r].number /\ runs'[r].status = "completed" /\ runs'[r].questions = runs[r].questions /\ runs'[r].score = k
  BY <1>6 DEF RunWith
<1>8. runs[r].questions \in Whole /\ runs[r].status # "failed"
  <2>1. runs[r] \in Run
    BY <1>2, RunAt
  <2>. QED
    BY <1>2, <2>1 DEF Run, Made, Making
<1>9. RunsTyped'
  BY <1>1, <1>3, <1>6 DEF RunsTyped
<1>10. Owned'
  BY <1>1, <1>3, <1>6 DEF Owned, Launching
<1>11. \A q \in DOMAIN runs : runs'[q].questions = runs[q].questions
  BY <1>6, <1>7
<1>12. Making'
  <2>1. \A d \in Threads : Launching(d)' => Launching(d) /\ client'[d].run = client[d].run /\ client[d].run \in DOMAIN runs
    BY <1>3 DEF Launching, Owned
  <2>2. \A j \in jobs : j.run \in DOMAIN runs
    BY DEF Owned
  <2>. QED
    BY <1>1, <1>2, <1>6, <1>7, <1>8, <1>11, <2>1, <2>2 DEF Making
<1>13. Answering'
  <2>1. \A d \in Threads : client'[d].at \in Questions!Submitting => d # c /\ client'[d] = client[d]
    BY <1>3 DEF Questions!Submitting
  <2>2. "write" \in Questions!Submitting
    BY DEF Questions!Submitting
  <2>. QED
    BY <1>1, <1>6, <1>11, <2>1, <2>2 DEF Answering
<1>14. Questions!ScoreOfAnswers'
  <2>1. ASSUME NEW q \in DOMAIN runs' \ crossed', runs'[q].status = "completed",
               \A d \in Threads : client'[d].run # q \/ client'[d].at \notin Questions!Submitting
        PROVE  runs'[q].score = Questions!compute_validator_score(runs'[q].questions, answers'[q])
    <3>1. CASE q = r
      <4>1. ~client[c].stale
        BY <1>5, <2>1, <3>1
      <4>2. k = Questions!compute_validator_score(client[c].questions, answers[r])
        BY <1>1, <4>1 DEF Answering, r, k
      <4>. QED
        BY <1>1, <1>2, <1>7, <3>1, <4>2
    <3>2. CASE q # r
      <4>1. q \in DOMAIN runs \ crossed /\ runs'[q] = runs[q]
        BY <1>5, <1>6, <2>1, <3>2
      <4>2. \A d \in Threads : client[d].run # q \/ client[d].at \notin Questions!Submitting
        BY <1>3, <2>1, <3>2 DEF r
      <4>. QED
        BY <1>1, <2>1, <4>1, <4>2 DEF Questions!ScoreOfAnswers
    <3>. QED
      BY <3>1, <3>2
  <2>. QED
    BY <2>1 DEF Questions!ScoreOfAnswers
<1>15. ASSUME ~forked' PROVE Alone'
  <2>1. r = Len(runs) /\ \A d \in Threads : ~Starting(d)
    BY <1>1, <1>2, <1>8, <1>15 DEF Alone
  <2>. QED
    BY <1>1, <1>3, <1>6, <1>7, <1>15, <2>1 DEF Alone, Starting
<1>. QED
  BY <1>9, <1>10, <1>12, <1>13, <1>14, <1>15

\* After a crash no request and no job goes on.
LEMMA CrashKeeps ==
  ASSUME Questions!ValidatorAssumption, RunsInv, Questions!Crash
  PROVE  RunsInv'
<1>. USE DEF RunsInv
<1>1. jobs' = {} /\ client' = [c \in Threads |-> Questions!Idle] /\ UNCHANGED <<runs, answers, forked>>
      /\ crossed' = crossed \union {client[c].run : c \in {d \in Threads : client[d].at \in Questions!Submitting}}
  BY DEF Questions!Crash
<1>2. client' \in [Threads -> Post] /\ \A c \in Threads : client'[c].at = "idle"
  BY <1>1, IdleIs DEF Questions!Idle
<1>3. RunsTyped'
  BY <1>1, <1>2 DEF RunsTyped
<1>4. Owned' /\ Making'
  BY <1>1, <1>2 DEF Owned, Making, Launching
<1>5. Answering'
  BY <1>2 DEF Answering, Questions!Submitting
<1>6. Questions!ScoreOfAnswers'
  BY <1>1 DEF Questions!ScoreOfAnswers
<1>7. ASSUME ~forked' PROVE Alone'
  BY <1>1, <1>2, <1>7 DEF Alone, Starting
<1>. QED
  BY <1>3, <1>4, <1>5, <1>6, <1>7

\* The invariant holds at first.
LEMMA RunsInit ==
  ASSUME Questions!Init
  PROVE  RunsInv
<1>1. runs = <<>> /\ answers = <<>> /\ client = [c \in Threads |-> Questions!Idle] /\ jobs = {}
  BY DEF Questions!Init
<1>2. client \in [Threads -> Post] /\ \A c \in Threads : client[c].at = "idle"
  BY <1>1, IdleIs DEF Questions!Idle
<1>3. runs \in Seq(Run) /\ answers \in Seq(Answers) /\ Len(runs) = 0 /\ Len(answers) = 0
  BY <1>1, EmptySeq
<1>4. RunsTyped
  BY <1>1, <1>2, <1>3 DEF RunsTyped
<1>5. DOMAIN runs = {}
  BY <1>3, LenProperties
<1>6. Owned /\ Making
  BY <1>1, <1>2, <1>5 DEF Owned, Making, Launching
<1>7. Answering /\ Questions!ScoreOfAnswers
  BY <1>2, <1>5 DEF Answering, Questions!ScoreOfAnswers, Questions!Submitting
<1>8. Alone
  BY <1>2, <1>5 DEF Alone, Starting
<1>. QED
  BY <1>4, <1>6, <1>7, <1>8 DEF RunsInv

\* A step keeps the invariant.
LEMMA RunsStep ==
  ASSUME Questions!ValidatorAssumption, RunsInv, [Questions!Next]_(Questions!vars)
  PROVE  RunsInv'
<1>1. CASE UNCHANGED Questions!vars
  BY <1>1 DEF Questions!vars, RunsInv, RunsTyped, Owned, Making, Answering, Questions!ScoreOfAnswers, Alone, Launching, Starting
<1>2. CASE Questions!Next
  BY <1>2, LookKeeps, NumberKeeps, CreateKeeps, LaunchKeeps, SubmitKeeps, SaveKeeps, ScoreKeeps, UpdateKeeps,
     AskKeeps, InsertKeeps, ReadyKeeps, ContextFailsKeeps, CrashKeeps DEF Questions!Next
<1>. QED
  BY <1>1, <1>2

\* The invariant holds throughout, whatever the replies, requests and submissions.
THEOREM RunsInvariant == Questions!Spec => []RunsInv
<1>1. Questions!Init => RunsInv
  BY QuestionsAssumption, RunsInit
<1>2. RunsInv /\ [Questions!Next]_(Questions!vars) => RunsInv'
  BY QuestionsAssumption, RunsStep
<1>. QED
  BY <1>1, <1>2, PTL DEF Questions!Spec

\* validator_worker.py: for any replies, orders of options and interleaving, what
\* can be answered has as many questions as promised, each with the option correct
\* that the model named.
THEOREM WholeAnswerable == Questions!Spec => []AnswerableWhole
<1>1. RunsInv => AnswerableWhole
  <2>1. SUFFICES ASSUME RunsInv, NEW r \in DOMAIN runs, runs[r].status \in {"ready", "completed"}
                 PROVE  /\ Len(runs[r].questions) \in MinQuestions .. MaxQuestions
                        /\ \A q \in Questions!ToSet(runs[r].questions) : Right(q)
    BY DEF AnswerableWhole, Questions!AnswerableWhole, Right
  <2>2. runs[r].questions \in Whole
    BY <2>1 DEF RunsInv, Making
  <2>. QED
    BY <2>2, QuestionsAssumption, WholeIs
<1>. QED
  BY <1>1, RunsInvariant, PTL

\* routes/validator.py: however many starts, jobs, answers and crashes, one run at
\* most is being made or waits for answers unless a start was forced or overlapped.
THEOREM OneRunOpen == Questions!Spec => []OneOpenRun
<1>1. RunsInv => OneOpenRun
  <2>1. SUFFICES ASSUME RunsInv, ~forked PROVE Cardinality(Questions!Open) <= 1
    BY SameSizes DEF OneOpenRun, Questions!OneOpenRun
  <2>2. Questions!Open \subseteq {Len(runs)}
    BY <2>1 DEF RunsInv, Alone, Questions!Open
  <2>3. IsFiniteSet({Len(runs)}) /\ Cardinality({Len(runs)}) = 1
    BY FS_Singleton
  <2>. QED
    BY <2>2, <2>3, FS_Subset, FS_CardinalityType
<1>. QED
  BY <1>1, RunsInvariant, PTL

\* submit_validator_answers: the score of a completed run is that of the answers it
\* has, unless one was saved between the counting and the writing, or a crash
\* interrupted.
THEOREM AnswersScored == Questions!Spec => []ScoreOfAnswers
<1>1. RunsInv => ScoreOfAnswers
  BY DEF RunsInv, ScoreOfAnswers
<1>. QED
  BY <1>1, RunsInvariant, PTL
=============================================================================
