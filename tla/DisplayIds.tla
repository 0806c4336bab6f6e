---- MODULE DisplayIds ----
(***************************************************************************)
(* Readable test case ids (store/steps_test_cases.py): a prefix per        *)
(* feature group, a counter per group, and what ensure_indexes does about  *)
(* the ids at every start: backfill, the unique index, the one-time        *)
(* renumbering and the repair of what a crash left.  Requests are served   *)
(* while it runs, so create_case interleaves with all of it.               *)
(*                                                                         *)
(* All groups share one base prefix ("NEA-LOG"), which is when prefixes    *)
(* need care: a prefix is the number of its suffix.                        *)
(***************************************************************************)
EXTENDS Naturals, FiniteSets

CONSTANTS
  Groups,       \* feature groups
  Cases,        \* test cases
  Clients,      \* requests and jobs that create cases
  Boot,         \* the thread that runs ensure_indexes
  Legacy,       \* cases that exist before this version first starts
  GroupOf,      \* the feature group of each case
  MaxCount,     \* bound: the numbers a group hands out
  MaxCrashes    \* bound: process crashes explored

(* What is assumed of the constants. *)
IdsAssumption ==
  /\ IsFiniteSet(Groups)
  /\ IsFiniteSet(Legacy)
  /\ Legacy \subseteq Cases
  /\ Cardinality(Legacy) <= MaxCount
  /\ GroupOf \in [Cases -> Groups]
  /\ Boot \notin Clients \cup Cases
  /\ MaxCount \in Nat
  /\ MaxCrashes \in Nat

VARIABLES
  id,         \* display_id of each case
  legacy,     \* display_id_legacy
  stored,     \* cases in the collection
  prefix,     \* the "caseprefix" row of each group, 0 if there is none
  counter,    \* the "testcase" counter of each group
  indexed,    \* the unique index on display_id exists
  done,       \* flag migration:renumber_per_feature_v1
  work,       \* what each thread is doing
  stage,      \* where ensure_indexes is
  todo,       \* cases it has still to handle in this stage
  listed,     \* cases the renumbering has read
  rank,       \* the sort key it read of each case
  crashes,
  original,   \* history: the ids before the first start
  raced       \* history: two threads picked prefixes at the same time

caseVars == <<id, legacy, stored>>
rowVars == <<prefix, counter, indexed, done>>
bootVars == <<stage, todo, listed, rank>>
hist == <<original, raced>>
vars == <<caseVars, rowVars, work, bootVars, crashes, hist>>

Threads == Clients \cup {Boot}
Number == 0 .. MaxCount
Suffix == 0 .. Cardinality(Groups)

Id == [is : {"missing", "parked", "real"}, prefix : Suffix, n : Number]
Missing == [is |-> "missing", prefix |-> 0, n |-> 0]
Parked == [is |-> "parked", prefix |-> 0, n |-> 0]     \* __mig_<own _id>
Real(p, n) == [is |-> "real", prefix |-> p, n |-> n]

Stage == {"down", "backfill", "index", "flag", "park", "assign", "mark", "repair", "final", "up"}
Work == [at : {"idle", "prefix", "claim", "count", "look", "write"},
         case : Cases \cup {Boot}, prefix : Suffix, n : Number]
Free == [at |-> "idle", case |-> Boot, prefix |-> 0, n |-> 0]

Taken(x) == \E c \in stored : id[c] = x
Stuck == {c \in stored : id[c] = Parked}

TypeOK ==
  /\ id \in [Cases -> Id]
  /\ legacy \in [Cases -> Id]
  /\ stored \subseteq Cases
  /\ prefix \in [Groups -> Suffix]
  /\ counter \in [Groups -> Number]
  /\ indexed \in BOOLEAN
  /\ done \in BOOLEAN
  /\ work \in [Threads -> Work]
  /\ stage \in Stage
  /\ todo \subseteq Cases
  /\ listed \subseteq Cases
  /\ rank \in [Cases -> Number]
  /\ crashes \in 0 .. MaxCrashes
  /\ original \in [Cases -> Id]
  /\ raced \in BOOLEAN
  /\ \A c \in Cases \ stored : id[c] = Missing

(* An upgrade: either no case has an id, or every case has one of the      *)
(* older numbering, which ran over several groups under one prefix.        *)
Init ==
  /\ stored = Legacy
  /\ \/ id = [c \in Cases |-> Missing] /\ indexed = FALSE
     \/ /\ \E f \in [Legacy -> 1 .. Cardinality(Legacy)] :
             /\ \A c, d \in Legacy : f[c] = f[d] => c = d
             /\ id = [c \in Cases |-> IF c \in Legacy THEN Real(1, f[c]) ELSE Missing]
        /\ indexed = TRUE
  /\ original = id
  /\ raced = FALSE
  /\ legacy = [c \in Cases |-> Missing]
  /\ prefix = [g \in Groups |-> 0]
  /\ counter = [g \in Groups |-> 0]
  /\ done = FALSE
  /\ work = [t \in Threads |-> Free]
  /\ stage = "down"
  /\ todo = {}
  /\ listed = {}
  /\ rank = [c \in Cases |-> 0]
  /\ crashes = 0

-----------------------------------------------------------------------------
(* Allocating an id: the steps _next_case_display_id and                   *)
(* _alloc_display_id share.                                                *)

At(t, point) == work[t].at = point
GroupAt(t) == GroupOf[work[t].case]

(* _assigned_prefix: the group's own row, or the first suffix no other     *)
(* group holds.                                                            *)
ReadPrefix(t) ==
  LET g == GroupAt(t)
      held == {prefix[h] : h \in Groups \ {g}}
      first == CHOOSE p \in Suffix \ {0} : p \notin held /\ \A q \in 1 .. p - 1 : q \in held
  IN
  /\ At(t, "prefix")
  /\ work' = IF prefix[g] # 0
               THEN [work EXCEPT ![t].at = "count", ![t].prefix = prefix[g]]
               ELSE [work EXCEPT ![t].at = "claim", ![t].prefix = first]
  /\ UNCHANGED <<caseVars, rowVars, bootVars, crashes, hist>>

(* The upsert of the group's row; nothing makes prefixes unique. *)
ClaimPrefix(t) ==
  /\ At(t, "claim")
  /\ prefix' = [prefix EXCEPT ![GroupAt(t)] = work[t].prefix]
  /\ work' = [work EXCEPT ![t].at = "count"]
  /\ raced' = (raced \/ prefix[GroupAt(t)] \notin {0, work[t].prefix}
                     \/ \E h \in Groups \ {GroupAt(t)} : prefix[h] = work[t].prefix)
  /\ UNCHANGED <<caseVars, counter, indexed, done, bootVars, crashes, original>>

(* Renumbering and repair look whether the id is free before using it;     *)
(* create_case and the backfill do not.                                    *)
Careful(t) == t = Boot /\ stage \in {"assign", "repair", "final"}

(* Mutant: the counter is read and written back in two steps, or cached.   *)
Count_Stale(t) ==
  LET g == GroupAt(t) IN
  /\ At(t, "count")
  /\ counter[g] < MaxCount
  /\ \E n \in 1 .. counter[g] + 1 :
       /\ counter' = [counter EXCEPT ![g] = n]
       /\ work' = [work EXCEPT ![t].at = IF Careful(t) THEN "look" ELSE "write", ![t].n = n]
  /\ UNCHANGED <<caseVars, prefix, indexed, done, bootVars, crashes, hist>>

(* find_one_and_update with $inc. *)
Count(t) ==
  LET g == GroupAt(t) IN
  /\ At(t, "count")
  /\ counter[g] < MaxCount
  /\ counter' = [counter EXCEPT ![g] = @ + 1]
  /\ work' = [work EXCEPT ![t].at = IF Careful(t) THEN "look" ELSE "write",
                          ![t].n = counter[g] + 1]
  /\ UNCHANGED <<caseVars, prefix, indexed, done, bootVars, crashes, hist>>

LookTaken(t) ==
  /\ At(t, "look")
  /\ work' = [work EXCEPT ![t].at =
                IF Taken(Real(work[t].prefix, work[t].n)) THEN "count" ELSE "write"]
  /\ UNCHANGED <<caseVars, rowVars, bootVars, crashes, hist>>

-----------------------------------------------------------------------------
(* create_case. *)

BeginCreate(t, c) ==
  /\ stage # "down"
  /\ t \in Clients
  /\ At(t, "idle")
  /\ c \in Cases \ (stored \cup Legacy)
  /\ \A u \in Threads : work[u].case # c
  /\ work' = [work EXCEPT ![t] = [Free EXCEPT !.at = "prefix", !.case = c]]
  /\ UNCHANGED <<caseVars, rowVars, bootVars, crashes, hist>>

(* The insert, which the unique index refuses if the id is taken: the      *)
(* request fails and the case is not stored.                               *)
InsertCase(t) ==
  LET c == work[t].case
      new == Real(work[t].prefix, work[t].n)
  IN
  /\ t \in Clients
  /\ At(t, "write")
  /\ IF indexed /\ Taken(new)
       THEN UNCHANGED <<id, stored>>
       ELSE id' = [id EXCEPT ![c] = new] /\ stored' = stored \cup {c}
  /\ work' = [work EXCEPT ![t] = Free]
  /\ UNCHANGED <<legacy, rowVars, bootVars, crashes, hist>>

(* A case is deleted. *)
DeleteCase(c) ==
  /\ stage # "down"
  /\ c \in stored
  /\ stored' = stored \ {c}
  /\ id' = [id EXCEPT ![c] = Missing]
  /\ legacy' = [legacy EXCEPT ![c] = Missing]
  /\ UNCHANGED <<rowVars, work, bootVars, crashes, hist>>

-----------------------------------------------------------------------------
(* ensure_indexes. *)

Enter(next, cases) == stage' = next /\ todo' = cases

Start ==
  /\ stage = "down"
  /\ Enter("backfill", {c \in stored : id[c] = Missing})
  /\ UNCHANGED <<caseVars, rowVars, work, listed, rank, crashes, hist>>

(* Any failure makes bootstrap() call ensure_indexes again from the top.   *)
Retry == Enter("backfill", {c \in stored : id[c] = Missing})

(* The group of the case the renumbering gave its id to last. *)
SameGroup(c) == work[Boot].case # Boot /\ GroupOf[work[Boot].case] = GroupOf[c]

InTurn(c) ==
  /\ (\E d \in todo : SameGroup(d)) => SameGroup(c)
  /\ \A d \in todo : GroupOf[d] = GroupOf[c] => rank[c] <= rank[d]

(* The next case to give an id.  The renumbering goes group by group, in   *)
(* the order of the old numbers, and keeps the group's prefix at hand.     *)
Pick(c) ==
  /\ stage \in {"backfill", "assign", "repair", "final"}
  /\ At(Boot, "idle")
  /\ c \in todo
  /\ stage = "assign" => InTurn(c)
  /\ todo' = todo \ {c}
  /\ work' = [work EXCEPT ![Boot] =
       IF stage = "assign" /\ SameGroup(c)
         THEN [@ EXCEPT !.at = "count", !.case = c]
         ELSE [Free EXCEPT !.at = "prefix", !.case = c]]
  /\ UNCHANGED <<caseVars, rowVars, stage, listed, rank, crashes, hist>>

(* update_one; the backfill's filter leaves a case alone that has an id.   *)
(* A taken id raises: the repair ignores it, the others start over.        *)
WriteId ==
  LET c == work[Boot].case
      new == Real(work[Boot].prefix, work[Boot].n)
      applies == c \in stored /\ (stage = "backfill" => id[c] = Missing)
      refused == applies /\ indexed /\ Taken(new) /\ id[c] # new
  IN
  /\ At(Boot, "write")
  /\ id' = IF applies /\ ~refused THEN [id EXCEPT ![c] = new] ELSE id
  /\ IF refused /\ stage \notin {"repair", "final"} THEN Retry ELSE UNCHANGED <<stage, todo>>
  /\ work' = [work EXCEPT ![Boot].at = "idle"]
  /\ UNCHANGED <<legacy, stored, rowVars, listed, rank, crashes, hist>>

Finished(s) == stage = s /\ todo = {} /\ At(Boot, "idle")

BackfillDone ==
  /\ Finished("backfill")
  /\ Enter("index", {})
  /\ UNCHANGED <<caseVars, rowVars, work, listed, rank, crashes, hist>>

Unique == \A c, d \in stored : id[c].is = "real" /\ id[c] = id[d] => c = d

(* create_index(unique, sparse) fails on duplicates. *)
BuildIndex ==
  /\ stage = "index"
  /\ IF indexed \/ Unique
       THEN indexed' = TRUE /\ Enter("flag", {})
       ELSE Retry /\ UNCHANGED indexed
  /\ UNCHANGED <<caseVars, prefix, counter, done, work, listed, rank, crashes, hist>>

(* Mutant: the one-time migration runs at every start. *)
CheckFlag_Ignored ==
  /\ stage = "flag"
  /\ Enter("park", stored)
  /\ listed' = stored
  /\ rank' = [c \in Cases |-> id[c].n]
  /\ UNCHANGED <<caseVars, rowVars, work, crashes, hist>>

(* _renumber_display_ids: once.  It reads every case with its number; of a *)
(* parked id it reads the digits the document id happens to end with.      *)
CheckFlag ==
  /\ stage = "flag"
  /\ IF done
       THEN Enter("final", Stuck) /\ UNCHANGED <<listed, rank>>
       ELSE /\ Enter("park", stored)
            /\ listed' = stored
            /\ rank' \in {r \in [Cases -> Number] :
                 \A c \in Cases : r[c] = id[c].n \/ (id[c] = Parked /\ r[c] = MaxCount)}
  /\ UNCHANGED <<caseVars, rowVars, work, crashes, hist>>

(* Phase 1: a pipeline update with $ifNull. *)
Park(c) ==
  /\ stage = "park"
  /\ c \in todo
  /\ IF c \in stored
       THEN /\ legacy' = [legacy EXCEPT ![c] = IF @ = Missing THEN id[c] ELSE @]
            /\ id' = [id EXCEPT ![c] = Parked]
       ELSE UNCHANGED <<id, legacy>>
  /\ todo' = todo \ {c}
  /\ UNCHANGED <<stored, rowVars, work, stage, listed, rank, crashes, hist>>

(* Phase 2 starts on the list phase 1 went through. *)
ParkDone ==
  /\ Finished("park")
  /\ Enter("assign", listed)
  /\ work' = [work EXCEPT ![Boot] = Free]
  /\ UNCHANGED <<caseVars, rowVars, listed, rank, crashes, hist>>

AssignDone ==
  /\ Finished("assign")
  /\ Enter("mark", {})
  /\ UNCHANGED <<caseVars, rowVars, work, listed, rank, crashes, hist>>

MarkDone ==
  /\ stage = "mark"
  /\ done' = TRUE
  /\ Enter("repair", Stuck)
  /\ UNCHANGED <<caseVars, prefix, counter, indexed, work, listed, rank, crashes, hist>>

(* ensure_indexes repairs once more than _renumber_display_ids did. *)
RepairDone ==
  /\ \/ Finished("repair") /\ Enter("final", Stuck)
     \/ Finished("final") /\ Enter("up", {})
  /\ UNCHANGED <<caseVars, rowVars, work, listed, rank, crashes, hist>>

-----------------------------------------------------------------------------

Crash ==
  /\ stage # "down"
  /\ crashes < MaxCrashes
  /\ crashes' = crashes + 1
  /\ work' = [t \in Threads |-> Free]
  /\ Enter("down", {})
  /\ listed' = {}
  /\ rank' = [c \in Cases |-> 0]
  /\ UNCHANGED <<caseVars, rowVars, hist>>

Allocate ==
  \E t \in Threads : ReadPrefix(t) \/ ClaimPrefix(t) \/ Count(t) \/ LookTaken(t)

EnsureIndexes ==
  \/ Start \/ BackfillDone \/ BuildIndex \/ CheckFlag
  \/ \E c \in Cases : Pick(c) \/ Park(c)
  \/ WriteId \/ ParkDone \/ AssignDone \/ MarkDone \/ RepairDone

Next ==
  \/ Allocate
  \/ EnsureIndexes
  \/ \E t \in Clients : (\E c \in Cases : BeginCreate(t, c)) \/ InsertCase(t)
  \/ \E c \in Cases : DeleteCase(c)
  \/ Crash

Spec == Init /\ [][Next]_vars

-----------------------------------------------------------------------------
(* Properties.  Two threads that pick prefixes at once may share one       *)
(* (raced), and then ids of two groups collide; the rest assumes they did  *)
(* not.                                                                    *)

(* Once the renumbering is done, an id handed out to a new case is free:   *)
(* the counter of a group is ahead of every id of its prefix, however the  *)
(* renumbering was interrupted and whatever was created meanwhile, so      *)
(* create_case is never refused by the unique index.                       *)
IdsFree ==
  done /\ ~raced =>
    \A t \in Clients : At(t, "write") => ~Taken(Real(work[t].prefix, work[t].n))

(* "The previous id is preserved in display_id_legacy - nothing is lost"   *)
(* (_renumber_display_ids), also when a crash makes it run again.          *)
LegacyKept ==
  done => \A c \in Legacy \cap stored :
            original[c].is = "real" => legacy[c] = original[c]

(* "assign contiguous ids per group (original order preserved)": within a  *)
(* group the new numbers keep the order of the old ones, unless a crash    *)
(* interrupted the renumbering.                                            *)
OrderKept ==
  done /\ crashes = 0 /\ ~raced =>
    \A c, d \in Legacy \cap stored :
      GroupOf[c] = GroupOf[d] /\ original[c].n < original[d].n => id[c].n < id[d].n

(* Once ensure_indexes is through, no case is left on a parking id.        *)
NoneParked == stage = "up" /\ ~raced => Stuck = {}

(* All of it: no id is handed out twice, ids given before stay, the         *)
(* renumbering keeps the order, and it leaves no temporary id behind.      *)
IdsSound == TypeOK /\ IdsFree /\ LegacyKept /\ OrderKept /\ NoneParked

(* "one-time": an id that a case has after the renumbering never changes,  *)
(* whatever restarts.                                                      *)
IdsStable ==
  [][\A c \in stored \cap stored' : done /\ id[c].is = "real" => id'[c] = id[c]]_vars
====
