---- MODULE MigrationLock ----
(***************************************************************************)
(* What admission control promises, with no threads, clocks or restarts:   *)
(* a lock over job rows that a migration takes exclusively and every other *)
(* job shares.  `override_busy` waives only the shared part.  JobRegistry  *)
(* implements it with the set of rows whose status is "running".           *)
(***************************************************************************)
CONSTANTS
  Jobs,         \* every job the installation will ever launch
  Migrations,   \* the jobs of type "migrate"
  Overriding    \* the migrations launched with override_busy

VARIABLES
  holders,      \* jobs that hold the lock
  used          \* jobs that were ever admitted: a row is created once

lockVars == <<holders, used>>

LockInit == holders = {} /\ used = {}

(* workers.registry._admit_and_create_job, the branch of a migration. *)
AcquireExclusive(m) ==
  /\ m \in Migrations \ used
  /\ holders \cap Migrations = {}
  /\ m \in Overriding \/ holders = {}
  /\ holders' = holders \cup {m}
  /\ used' = used \cup {m}

(* The branch of every other job. *)
AcquireShared(j) ==
  /\ j \in Jobs \ (Migrations \cup used)
  /\ holders \cap Migrations = {}
  /\ holders' = holders \cup {j}
  /\ used' = used \cup {j}

(* A row leaves "running": its worker ended, or a sweep gave it up. *)
Release(j) ==
  /\ j \in holders
  /\ holders' = holders \ {j}
  /\ UNCHANGED used

LockNext == \E j \in Jobs : AcquireExclusive(j) \/ AcquireShared(j) \/ Release(j)

LockSpec == LockInit /\ [][LockNext]_lockVars

(* A migration without override_busy holds the lock alone, and no two      *)
(* migrations ever hold it together.                                       *)
LockExclusion ==
  \A m \in holders \cap Migrations :
    /\ holders \cap Migrations = {m}
    /\ m \notin Overriding => holders = {m}
====
