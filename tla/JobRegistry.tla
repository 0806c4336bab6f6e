---- MODULE JobRegistry ----
(***************************************************************************)
(* The life of wardenIQ's background jobs: admission (workers/registry),   *)
(* the worker thread with its heartbeat, the stale-job sweeper, recovery   *)
(* of orphaned rows at bootstrap, the poller's SYNC flag, crashes and      *)
(* restarts, and the one effect of a job that outlives the process: a      *)
(* migration points .env at another database.                              *)
(*                                                                         *)
(* Time is counted in units of the heartbeat period.  A job is launched at *)
(* most once: a retry is a new row.                                        *)
(***************************************************************************)
EXTENDS Naturals

CONSTANTS
  Jobs,         \* job rows, one per launch
  Migrations,   \* those of type "migrate"
  Overriding,   \* migrations launched with override_busy
  HB,           \* HEARTBEAT_SECONDS
  TTL,          \* STALE_JOB_TTL_SECONDS
  MaxCrashes,   \* bound: process crashes explored
  NoJob         \* .env still names the database the process runs on

ASSUME RegistryAssumption ==
  /\ Migrations \subseteq Jobs
  /\ Overriding \subseteq Migrations
  /\ HB \in Nat \ {0}
  /\ TTL \in Nat
  /\ HB < TTL
  /\ MaxCrashes \in Nat
  /\ NoJob \notin Jobs

VARIABLES
  row,        \* status of each job row; "absent" before create_job, "gone"
              \* once it was deleted with its feature or project
  age,        \* time since updated_at of a running row, at most TTL + 1
  pc,         \* where each job's thread is
  sync,       \* SYNC["running"]
  found,      \* rows sweep_stale_jobs has read and not yet updated
  orphans,    \* rows fail_orphaned_jobs has read and not yet updated
  boot,       \* what bootstrap() has reached
  env,        \* the migration whose target MONGO_URI names, or NoJob
  crashes,    \* process crashes so far
  disturbed   \* history: a sweep could have met a live job, or a status
              \* write was lost

rowVars == <<row, age>>
procVars == <<sync, found, orphans, boot, crashes>>
vars == <<row, age, pc, sync, found, orphans, boot, env, crashes, disturbed>>

Status == {"absent", "running", "succeeded", "failed", "gone"}
Terminal == {"succeeded", "failed"}

(* "work": the worker of an ordinary job.  "copy": a migration up to the   *)
(* end of verify_migration.  "switch": about to write .env.  "report": the *)
(* writes after it.  "read", "done", "error": the wrapper around the       *)
(* worker, after the heartbeat has stopped.                                *)
BodyPhase == {"work", "copy", "switch", "report"}
WrapPhase == {"read", "done", "error"}
Phase == {"none"} \cup BodyPhase \cup WrapPhase

BootStage == {"down", "connecting", "recovering", "ready", "error", "moved"}

Running == {j \in Jobs : row[j] = "running"}
Live == {j \in Jobs : pc[j] # "none"}
Body == {j \in Jobs : pc[j] \in BodyPhase}
Copying == {m \in Migrations : pc[m] \in {"copy", "switch"}}

(* The HTTP server and the webhooks answer from the moment the process is  *)
(* up, whatever bootstrap() has reached.                                   *)
Serving == boot \notin {"down", "moved"}

TypeOK ==
  /\ row \in [Jobs -> Status]
  /\ age \in [Jobs -> 0 .. TTL + 1]
  /\ pc \in [Jobs -> Phase]
  /\ sync \in BOOLEAN
  /\ found \subseteq Jobs
  /\ orphans \subseteq Jobs
  /\ boot \in BootStage
  /\ env \in Migrations \cup {NoJob}
  /\ crashes \in 0 .. MaxCrashes
  /\ disturbed \in BOOLEAN

Init ==
  /\ row = [j \in Jobs |-> "absent"]
  /\ age = [j \in Jobs |-> 0]
  /\ pc = [j \in Jobs |-> "none"]
  /\ sync = FALSE
  /\ found = {}
  /\ orphans = {}
  /\ boot = "connecting"
  /\ env = NoJob
  /\ crashes = 0
  /\ disturbed = FALSE

-----------------------------------------------------------------------------
(* Admission.  _LAUNCH_LOCK makes "may it start?" and create_job one step. *)

MigrationRunning == Running \cap Migrations # {}

(* launch_job starts the thread right after the row exists; a crash in     *)
(* between leaves what a crash in the first phase leaves.                  *)
Launch(j, phase) ==
  /\ Serving
  /\ row[j] = "absent"
  /\ row' = [row EXCEPT ![j] = "running"]
  /\ age' = [age EXCEPT ![j] = 0]
  /\ pc' = [pc EXCEPT ![j] = phase]
  /\ UNCHANGED <<procVars, env, disturbed>>

(* Mutant: override_busy waives the one-migration rule too. *)
AdmitMigration_OverrideAll(m) ==
  /\ m \in Overriding \/ (~sync /\ Running = {})
  /\ Launch(m, "copy")

(* migration_blocker() is clear. *)
AdmitMigration(m) ==
  /\ ~MigrationRunning
  /\ m \in Overriding \/ (~sync /\ Running = {})
  /\ Launch(m, "copy")

(* Mutant: a launch path that skips the migration check. *)
AdmitJob_Unchecked(j) ==
  /\ j \notin Migrations
  /\ Launch(j, "work")

(* Every other job, by launch_job() or run_tracked(). *)
AdmitJob(j) ==
  /\ j \notin Migrations
  /\ ~MigrationRunning
  /\ Launch(j, "work")

-----------------------------------------------------------------------------
(* The worker thread. *)

SetPhase(j, phase) == pc' = [pc EXCEPT ![j] = phase]

(* update_job: unconditional, whatever the row says by now, and without    *)
(* effect on a row that was deleted; it also sets updated_at.              *)
UpdateJob(j, status) ==
  IF row[j] = "gone"
    THEN UNCHANGED rowVars
    ELSE /\ row' = [row EXCEPT ![j] = status]
         /\ age' = [age EXCEPT ![j] = 0]

(* update_one with {"status": "running"} in its filter. *)
UpdateIfRunning(j, status) ==
  IF row[j] = "running" THEN UpdateJob(j, status) ELSE UNCHANGED rowVars

(* The heartbeat thread's tick, and every update_job_progress of a worker. *)
(* Both rewrite updated_at; the heartbeat stops at a row that has ended.   *)
Beat(j) ==
  /\ j \in Body
  /\ row[j] = "running"
  /\ age' = [age EXCEPT ![j] = 0]
  /\ UNCHANGED <<row, pc, procVars, env, disturbed>>

(* Mutant: .env is written before the copy is verified. *)
CopyVerified_EnvFirst(m) ==
  /\ pc[m] = "copy"
  /\ SetPhase(m, "switch")
  /\ env' = m
  /\ UNCHANGED <<rowVars, procVars, disturbed>>

(* A migration's copy passes verify_migration. *)
CopyVerified(m) ==
  /\ pc[m] = "copy"
  /\ SetPhase(m, "switch")
  /\ UNCHANGED <<rowVars, procVars, env, disturbed>>

(* _write_env_var succeeds. *)
WriteEnv(m) ==
  /\ pc[m] = "switch"
  /\ SetPhase(m, "report")
  /\ env' = m
  /\ UNCHANGED <<rowVars, procVars, disturbed>>

(* The worker returns. *)
WorkReturns(j) ==
  /\ pc[j] \in {"work", "report"}
  /\ SetPhase(j, "read")
  /\ UNCHANGED <<rowVars, procVars, env, disturbed>>

(* The worker raises: an LLM or archive error, a failed copy or            *)
(* verification, a config file that cannot be written.                     *)
WorkRaises(j) ==
  /\ pc[j] \in {"work", "copy", "switch"}
  /\ SetPhase(j, "error")
  /\ UNCHANGED <<rowVars, procVars, env, disturbed>>

(* A worker that writes status "failed" itself, and then returns           *)
(* (_ingest_worker, _code_coverage_worker) or raises (_gen_worker).        *)
WorkFailsItself(j) ==
  /\ pc[j] = "work"
  /\ UpdateJob(j, "failed")
  /\ \E phase \in {"read", "error"} : SetPhase(j, phase)
  /\ UNCHANGED <<procVars, env, disturbed>>

(* Mutant: the wrapper closes the row without looking at it. *)
ReadRow_Unchecked(j) ==
  /\ pc[j] = "read"
  /\ SetPhase(j, "done")
  /\ UNCHANGED <<rowVars, procVars, env, disturbed>>

(* The wrapper's get_job: only a row still running is to be closed. *)
ReadRow(j) ==
  /\ pc[j] = "read"
  /\ SetPhase(j, IF row[j] = "running" THEN "done" ELSE "none")
  /\ UNCHANGED <<rowVars, procVars, env, disturbed>>

WriteSucceeded(j) ==
  /\ pc[j] = "done"
  /\ UpdateJob(j, "succeeded")
  /\ SetPhase(j, "none")
  /\ UNCHANGED <<procVars, env, disturbed>>

WriteFailed(j) ==
  /\ pc[j] = "error"
  /\ UpdateJob(j, "failed")
  /\ SetPhase(j, "none")
  /\ UNCHANGED <<procVars, env, disturbed>>

(* The database refuses one of the writes above: the wrapper's handler     *)
(* takes over, and when the handler's own write fails the thread dies and  *)
(* leaves its row running.                                                 *)
WriteLost(j) ==
  /\ pc[j] \in {"report", "read", "done", "error"}
  /\ SetPhase(j, IF pc[j] = "error" THEN "none" ELSE "error")
  /\ disturbed' = TRUE
  /\ UNCHANGED <<rowVars, procVars, env>>

-----------------------------------------------------------------------------
(* Time, the sweeper, the poller's flag. *)

(* The host runs and the database answers: a heartbeat is never late, and  *)
(* the wrapper's read and write end within TTL of the last one.            *)
Timely(j) ==
  /\ j \in Body => age[j] < HB
  /\ age[j] < TTL

Tick ==
  /\ age' = [j \in Jobs |-> IF row[j] = "running" /\ age[j] <= TTL
                              THEN age[j] + 1 ELSE age[j]]
  /\ disturbed' = (disturbed \/ \E j \in Live \cap Running : ~Timely(j))
  /\ UNCHANGED <<row, pc, procVars, env>>

(* Mutant: the sweeper's cutoff is the heartbeat period. *)
SweepFind_Impatient ==
  /\ boot = "ready"
  /\ found = {}
  /\ found' = {j \in Running : age[j] >= HB}
  /\ UNCHANGED <<rowVars, pc, sync, orphans, boot, env, crashes, disturbed>>

(* Mutant: migrations are spared, as jobs that take long. *)
SweepFind_SparesMigrations ==
  /\ boot = "ready"
  /\ found = {}
  /\ found' = {j \in Running \ Migrations : age[j] > TTL}
  /\ UNCHANGED <<rowVars, pc, sync, orphans, boot, env, crashes, disturbed>>

(* sweep_stale_jobs, its find. *)
SweepFind ==
  /\ boot = "ready"
  /\ found = {}
  /\ found' = {j \in Running : age[j] > TTL}
  /\ UNCHANGED <<rowVars, pc, sync, orphans, boot, env, crashes, disturbed>>

(* ... and one of its updates, guarded by the status and not by            *)
(* updated_at: a beat since the find does not save the row.                *)
SweepFail(j) ==
  /\ j \in found
  /\ found' = found \ {j}
  /\ UpdateIfRunning(j, "failed")
  /\ UNCHANGED <<pc, sync, orphans, boot, env, crashes, disturbed>>

(* poller(): SYNC["running"], set and cleared without _LAUNCH_LOCK. *)
SyncBegin ==
  /\ Serving
  /\ ~sync
  /\ sync' = TRUE
  /\ UNCHANGED <<rowVars, pc, found, orphans, boot, env, crashes, disturbed>>

SyncEnd ==
  /\ sync
  /\ sync' = FALSE
  /\ UNCHANGED <<rowVars, pc, found, orphans, boot, env, crashes, disturbed>>

(* Mutant: every row can be deleted, a migration's too. *)
DeleteRow_Any(j) ==
  /\ Serving
  /\ row[j] \in {"running"} \cup Terminal
  /\ row' = [row EXCEPT ![j] = "gone"]
  /\ UNCHANGED <<age, pc, procVars, env, disturbed>>

(* delete_feature and delete_project delete the job rows of what they      *)
(* delete, whatever their status.  A worker is not told and goes on.  A    *)
(* migration belongs to no feature and no project.                         *)
DeleteRow(j) ==
  /\ Serving
  /\ j \notin Migrations
  /\ row[j] \in {"running"} \cup Terminal
  /\ row' = [row EXCEPT ![j] = "gone"]
  /\ UNCHANGED <<age, pc, procVars, env, disturbed>>

-----------------------------------------------------------------------------
(* The process. *)

Crash ==
  /\ Serving
  /\ crashes < MaxCrashes
  /\ crashes' = crashes + 1
  /\ pc' = [j \in Jobs |-> "none"]
  /\ sync' = FALSE
  /\ found' = {}
  /\ orphans' = {}
  /\ boot' = "down"
  /\ UNCHANGED <<rowVars, env, disturbed>>

(* A restart opens the database .env names.  Once that is another one, the *)
(* rows of this one are left as they are.                                  *)
Restart ==
  /\ boot = "down"
  /\ boot' = IF env = NoJob THEN "connecting" ELSE "moved"
  /\ UNCHANGED <<rowVars, pc, sync, found, orphans, env, crashes, disturbed>>

(* bootstrap() runs on its own thread: fail_orphaned_jobs's find takes     *)
(* every running row, including one launched since the process came up.    *)
RecoverFind ==
  /\ boot = "connecting"
  /\ orphans' = Running
  /\ boot' = "recovering"
  /\ disturbed' = (disturbed \/ Live \cap Running # {})
  /\ UNCHANGED <<rowVars, pc, sync, found, env, crashes>>

RecoverFail(j) ==
  /\ j \in orphans
  /\ orphans' = orphans \ {j}
  /\ UpdateIfRunning(j, "failed")
  /\ UNCHANGED <<pc, sync, found, boot, env, crashes, disturbed>>

(* The rest of bootstrap(): ready, or an error stage (search indexes       *)
(* missing) in which requests are served all the same.                     *)
RecoverDone ==
  /\ boot = "recovering"
  /\ orphans = {}
  /\ boot' \in {"ready", "error"}
  /\ UNCHANGED <<rowVars, pc, sync, found, orphans, env, crashes, disturbed>>

(* A rejected secret ends bootstrap() before recovery; a database error in *)
(* fail_orphaned_jobs is noted and skipped.                                *)
RecoverSkipped ==
  \/ /\ boot = "connecting"
     /\ boot' \in {"ready", "error"}
     /\ UNCHANGED <<rowVars, pc, sync, found, orphans, env, crashes, disturbed>>
  \/ /\ boot = "recovering"
     /\ orphans # {}
     /\ orphans' = {}
     /\ boot' \in {"ready", "error"}
     /\ UNCHANGED <<rowVars, pc, sync, found, env, crashes, disturbed>>

-----------------------------------------------------------------------------
Thread(j) ==
  \/ Beat(j)
  \/ CopyVerified(j)
  \/ WriteEnv(j)
  \/ WorkReturns(j)
  \/ WorkRaises(j)
  \/ WorkFailsItself(j)
  \/ ReadRow(j)
  \/ WriteSucceeded(j)
  \/ WriteFailed(j)
  \/ WriteLost(j)

Process ==
  \/ Tick
  \/ SweepFind
  \/ SyncBegin
  \/ SyncEnd
  \/ Crash
  \/ Restart
  \/ RecoverFind
  \/ RecoverDone
  \/ RecoverSkipped

Next ==
  \/ \E m \in Migrations : AdmitMigration(m)
  \/ \E j \in Jobs : AdmitJob(j)
  \/ \E j \in Jobs : Thread(j)
  \/ \E j \in Jobs : SweepFail(j) \/ RecoverFail(j) \/ DeleteRow(j)
  \/ Process

Spec == Init /\ [][Next]_vars

-----------------------------------------------------------------------------
(* Fairness.  Threads are scheduled and the host's clock runs; sweeper and *)
(* bootstrap loop until the process dies.  Nothing is promised about       *)
(* requests, crashes or lost writes.                                       *)

BodyEnds(j) ==
  CopyVerified(j) \/ WriteEnv(j) \/ WorkReturns(j) \/ WorkRaises(j) \/ WorkFailsItself(j)

WrapperEnds(j) == ReadRow(j) \/ WriteSucceeded(j) \/ WriteFailed(j)

BootSteps == RecoverFind \/ RecoverDone \/ RecoverSkipped \/ Restart

Scheduling ==
  /\ \A j \in Jobs : WF_vars(Beat(j)) /\ WF_vars(WrapperEnds(j))
  /\ \A j \in Jobs : WF_vars(SweepFail(j)) /\ WF_vars(RecoverFail(j))
  /\ WF_vars(Tick) /\ WF_vars(SweepFind) /\ WF_vars(BootSteps)

(* A worker may hang: no promise that its body ever ends. *)
HangSpec == Spec /\ Scheduling

(* Every worker's calls have timeouts, so its body ends. *)
FairSpec == HangSpec /\ \A j \in Jobs : WF_vars(BodyEnds(j))

-----------------------------------------------------------------------------
Lock == INSTANCE MigrationLock
          WITH holders <- Running, used <- {j \in Jobs : row[j] # "absent"}

(* Admission, completion, sweeps, recovery and crashes together keep the   *)
(* promise of _LAUNCH_LOCK: the running rows form a lock that a migration  *)
(* takes exclusively, in every behaviour, disturbed or not.                *)
ImplementsLock == Lock!LockSpec

(* The rows themselves: a migration's running row is the only running one  *)
(* unless override_busy was given, and there are never two of them.        *)
RowExclusion == Lock!LockExclusion

(* The threads, which are what touches the data: while one migration       *)
(* copies, no other one does and, without override_busy, no other worker   *)
(* runs at all, but for one whose row was deleted under it.                *)
Deleted == {j \in Jobs : row[j] = "gone"}

MigrationRunsAlone ==
  ~disturbed => \A m \in Copying :
    /\ Copying = {m}
    /\ m \notin Overriding => Body \subseteq {m} \cup Deleted

(* No worker starts while a migration copies, override_busy or not. *)
NoStartDuringCopy ==
  [][~disturbed' /\ Copying # {} =>
       \A j \in Jobs : pc[j] = "none" => pc'[j] = "none"]_vars

(* A worker that is still running is never shown as ended, by the sweeper  *)
(* or by recovery.                                                         *)
LiveJobsShowRunning ==
  ~disturbed => \A j \in Body : row[j] \notin Terminal

(* The status a client saw end a job (job_stream stops there) is never     *)
(* replaced by another one: the row keeps it or is deleted.                *)
FinalStatusStays ==
  [][~disturbed' => \A j \in Jobs :
       row[j] \in Terminal => row'[j] \in {row[j], "gone"}]_vars

(* A migration reported as failed has not moved .env to its target. *)
FailedNotSwitched ==
  ~disturbed => \A m \in Migrations : row[m] = "failed" => env # m

(* As long as bootstrap gets through, a migration's row leaves "running",  *)
(* so the app is not blocked for ever: its worker ends it or, when the     *)
(* worker died or could not write, recovery or the sweeper does.           *)
BlockReleased ==
  []<>(boot = "ready") =>
    \A m \in Migrations : row[m] = "running" ~> row[m] # "running"

-----------------------------------------------------------------------------
(* The strengthening that makes the properties above inductive.            *)

(* A row that does not exist has no thread and is on nobody's list; only a *)
(* migration is in a migration's phases, and its row is never deleted; a   *)
(* dead process has no threads.                                            *)
ThreadShape ==
  /\ \A j \in Jobs : row[j] = "absent" =>
       pc[j] = "none" /\ j \notin found /\ j \notin orphans
  /\ \A j \in Jobs : pc[j] \in {"copy", "switch", "report"} => j \in Migrations
  /\ \A m \in Migrations : row[m] # "gone"
  /\ ~Serving => found = {} /\ orphans = {} /\ \A j \in Jobs : pc[j] = "none"

(* Undisturbed, a thread's row is running, was deleted or was failed by    *)
(* the thread.                                                             *)
LiveRow ==
  \A j \in Jobs :
    /\ pc[j] \in BodyPhase \cup {"done"} => row[j] \in {"running", "gone"}
    /\ pc[j] \in {"read", "error"} => row[j] \in {"running", "failed", "gone"}

(* Undisturbed, a live row is fresh, so the sweeper cannot have found it,  *)
(* and recovery only ever saw rows of an earlier process.                  *)
LiveFresh ==
  \A j \in Live :
    /\ pc[j] \in BodyPhase => age[j] <= HB
    /\ age[j] <= TTL
    /\ j \notin found /\ j \notin orphans

(* Undisturbed, the migration .env names is being reported, was, or died   *)
(* with the process, whose successor runs on the target.                   *)
SwitchedRow ==
  env # NoJob =>
    \/ row[env] = "succeeded"
    \/ row[env] = "running" /\ pc[env] \in {"report", "read", "done"}
    \/ row[env] = "running" /\ ~Serving

IInv ==
  /\ TypeOK
  /\ RowExclusion
  /\ ThreadShape
  /\ ~disturbed => LiveRow /\ LiveFresh /\ SwitchedRow
====
