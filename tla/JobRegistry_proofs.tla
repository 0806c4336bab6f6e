---- MODULE JobRegistry_proofs ----
(***************************************************************************)
(* The safety of JobRegistry for every set of jobs, every heartbeat period *)
(* shorter than the sweeper's TTL and any number of crashes.  All of it    *)
(* rests on one inductive invariant, IInv.                                 *)
(***************************************************************************)
EXTENDS JobRegistry, TLAPS

(* A fresh database, a process that has just come up.                      *)
LEMMA InitIInv == Init => IInv
<1> SUFFICES ASSUME Init PROVE IInv
  OBVIOUS
<1>1. TypeOK
  <2>1. 0 \in 0 .. TTL + 1 /\ 0 \in 0 .. MaxCrashes
    BY RegistryAssumption
  <2>. QED
    BY <2>1 DEF Init, TypeOK, Status, Phase, BootStage
<1>2. RowExclusion
  BY DEF Init, RowExclusion, Lock!LockExclusion, Running
<1>3. ThreadShape /\ LiveRow /\ LiveFresh /\ SwitchedRow
  BY RegistryAssumption DEF Init, ThreadShape, LiveRow, LiveFresh, SwitchedRow, Live, Serving, BodyPhase
<1>. QED
  BY <1>1, <1>2, <1>3 DEF IInv

(* Every step of every thread, of the sweeper, of bootstrap and of the     *)
(* clock keeps the invariant.                                              *)
LEMMA StepIInv == IInv /\ [Next]_vars => IInv'
<1> SUFFICES ASSUME IInv, [Next]_vars PROVE IInv'
  OBVIOUS
<1> USE RegistryAssumption DEF IInv, TypeOK, RowExclusion, Lock!LockExclusion, ThreadShape,
      LiveRow, LiveFresh, SwitchedRow, Running, Live, Body, Serving,
      Status, Phase, BodyPhase, WrapPhase, BootStage, rowVars, procVars
<1>1. ASSUME NEW m \in Migrations, AdmitMigration(m) PROVE IInv'
  BY <1>1 DEF AdmitMigration, Launch, MigrationRunning
<1>2. ASSUME NEW j \in Jobs, AdmitJob(j) PROVE IInv'
  BY <1>2 DEF AdmitJob, Launch, MigrationRunning
<1>3. ASSUME NEW j \in Jobs, Beat(j) PROVE IInv'
  BY <1>3 DEF Beat
<1>4. ASSUME NEW j \in Jobs, CopyVerified(j) PROVE IInv'
  BY <1>4 DEF CopyVerified, SetPhase
<1>5. ASSUME NEW j \in Jobs, WriteEnv(j) PROVE IInv'
  BY <1>5 DEF WriteEnv, SetPhase
<1>6. ASSUME NEW j \in Jobs, WorkReturns(j) PROVE IInv'
  BY <1>6 DEF WorkReturns, SetPhase
<1>7. ASSUME NEW j \in Jobs, WorkRaises(j) PROVE IInv'
  BY <1>7 DEF WorkRaises, SetPhase
<1>8. ASSUME NEW j \in Jobs, WorkFailsItself(j) PROVE IInv'
  BY <1>8 DEF WorkFailsItself, SetPhase, UpdateJob
<1>9. ASSUME NEW j \in Jobs, ReadRow(j) PROVE IInv'
  BY <1>9 DEF ReadRow, SetPhase
<1>10. ASSUME NEW j \in Jobs, WriteSucceeded(j) PROVE IInv'
  BY <1>10 DEF WriteSucceeded, SetPhase, UpdateJob
<1>11. ASSUME NEW j \in Jobs, WriteFailed(j) PROVE IInv'
  BY <1>11 DEF WriteFailed, SetPhase, UpdateJob
<1>12. ASSUME NEW j \in Jobs, WriteLost(j) PROVE IInv'
  BY <1>12 DEF WriteLost, SetPhase
<1>13. ASSUME NEW j \in Jobs, SweepFail(j) PROVE IInv'
  BY <1>13 DEF SweepFail, UpdateIfRunning, UpdateJob
<1>14. ASSUME NEW j \in Jobs, RecoverFail(j) PROVE IInv'
  BY <1>14 DEF RecoverFail, UpdateIfRunning, UpdateJob
<1>15. ASSUME NEW j \in Jobs, DeleteRow(j) PROVE IInv'
  <2>1. TypeOK' /\ RowExclusion' /\ ThreadShape'
    BY <1>15 DEF DeleteRow, Terminal
  <2>2. ASSUME ~disturbed' PROVE LiveRow' /\ LiveFresh' /\ SwitchedRow'
    BY <1>15, <2>2 DEF DeleteRow, Terminal
  <2>. QED
    BY <2>1, <2>2
<1>16. ASSUME Tick PROVE IInv'
  <2>1. TypeOK' /\ RowExclusion' /\ ThreadShape'
    BY <1>16 DEF Tick
  <2>2. ASSUME ~disturbed' PROVE ~disturbed /\ \A j \in Live \cap Running : Timely(j)
    BY <1>16, <2>2 DEF Tick
  <2>3. ASSUME ~disturbed' PROVE LiveRow' /\ SwitchedRow'
    BY <1>16, <2>2, <2>3 DEF Tick
  <2>4. ASSUME ~disturbed', NEW j \in Live'
        PROVE  /\ pc'[j] \in BodyPhase => age'[j] <= HB
               /\ age'[j] <= TTL
               /\ j \notin found' /\ j \notin orphans'
    BY <1>16, <2>2, <2>4 DEF Tick, Timely
  <2>. QED
    BY <2>1, <2>3, <2>4
<1>17. ASSUME SweepFind PROVE IInv'
  BY <1>17 DEF SweepFind
<1>18. ASSUME SyncBegin PROVE IInv'
  <2>1. TypeOK'
    BY <1>18 DEF SyncBegin
  <2>2. RowExclusion' /\ ThreadShape'
    BY <1>18 DEF SyncBegin
  <2>3. ASSUME ~disturbed' PROVE LiveRow' /\ LiveFresh' /\ SwitchedRow'
    BY <1>18, <2>3 DEF SyncBegin
  <2>. QED
    BY <2>1, <2>2, <2>3
<1>19. ASSUME SyncEnd PROVE IInv'
  <2>1. TypeOK'
    BY <1>19 DEF SyncEnd
  <2>2. RowExclusion' /\ ThreadShape'
    BY <1>19 DEF SyncEnd
  <2>3. ASSUME ~disturbed' PROVE LiveRow' /\ LiveFresh' /\ SwitchedRow'
    BY <1>19, <2>3 DEF SyncEnd
  <2>. QED
    BY <2>1, <2>2, <2>3
<1>20. ASSUME Crash PROVE IInv'
  <2>1. TypeOK'
    <3>1. crashes' \in 0 .. MaxCrashes
      BY <1>20 DEF Crash
    <3>. QED
      BY <1>20, <3>1 DEF Crash
  <2>2. RowExclusion' /\ ThreadShape'
    BY <1>20 DEF Crash
  <2>3. LiveRow' /\ LiveFresh'
    BY <1>20 DEF Crash
  <2>4. ASSUME ~disturbed' PROVE SwitchedRow'
    BY <1>20, <2>4 DEF Crash
  <2>. QED
    BY <2>1, <2>2, <2>3, <2>4
<1>21. ASSUME Restart PROVE IInv'
  BY <1>21 DEF Restart
<1>22. ASSUME RecoverFind PROVE IInv'
  <2>1. TypeOK' /\ RowExclusion' /\ ThreadShape'
    BY <1>22 DEF RecoverFind
  <2>2. ASSUME ~disturbed' PROVE LiveRow' /\ LiveFresh' /\ SwitchedRow'
    BY <1>22, <2>2 DEF RecoverFind
  <2>. QED
    BY <2>1, <2>2
<1>23. ASSUME RecoverDone PROVE IInv'
  BY <1>23 DEF RecoverDone
<1>24. ASSUME RecoverSkipped PROVE IInv'
  BY <1>24 DEF RecoverSkipped
<1>25. ASSUME UNCHANGED vars PROVE IInv'
  BY <1>25 DEF vars
<1>. QED
  BY <1>1, <1>2, <1>3, <1>4, <1>5, <1>6, <1>7, <1>8, <1>9, <1>10, <1>11, <1>12, <1>13,
     <1>14, <1>15, <1>16, <1>17, <1>18, <1>19, <1>20, <1>21, <1>22, <1>23, <1>24, <1>25
     DEF Next, Thread, Process

LEMMA SpecIInv == Spec => []IInv
  BY InitIInv, StepIInv, PTL DEF Spec

-----------------------------------------------------------------------------
(* Every variable keeps its type.                                          *)
THEOREM TypeCorrect == Spec => []TypeOK
<1>1. IInv => TypeOK
  BY DEF IInv
<1>. QED
  BY <1>1, SpecIInv, PTL

(* The running rows are a shared/exclusive lock, whatever is disturbed.    *)
THEOREM RowsExclude == Spec => []RowExclusion
<1>1. IInv => RowExclusion
  BY DEF IInv
<1>. QED
  BY <1>1, SpecIInv, PTL

(* While heartbeats are on time and recovery meets no live job, the        *)
(* sweeper and recovery only ever fail jobs whose thread is gone.          *)
THEOREM LiveShown == Spec => []LiveJobsShowRunning
<1>1. IInv => LiveJobsShowRunning
  BY DEF IInv, LiveRow, LiveJobsShowRunning, Body, Terminal
<1>. QED
  BY <1>1, SpecIInv, PTL

(* Under the same condition exclusion carries over from rows to threads: a *)
(* migration copies alone.                                                 *)
THEOREM RunsAlone == Spec => []MigrationRunsAlone
<1>1. IInv => MigrationRunsAlone
  <2> SUFFICES ASSUME IInv, ~disturbed, NEW m \in Copying
               PROVE  Copying = {m} /\ (m \notin Overriding => Body \subseteq {m} \cup Deleted)
    BY DEF MigrationRunsAlone
  <2>1. Copying \subseteq Body /\ Copying \subseteq Migrations
    BY RegistryAssumption DEF Copying, Body, BodyPhase
  <2>2. Body \subseteq Running \cup Deleted /\ Copying \subseteq Running
    BY <2>1 DEF IInv, LiveRow, ThreadShape, Body, Running, Deleted
  <2>3. /\ Running \cap Migrations = {m}
        /\ m \notin Overriding => Running = {m}
    BY <2>1, <2>2 DEF IInv, RowExclusion, Lock!LockExclusion
  <2>. QED
    BY <2>1, <2>2, <2>3
<1>. QED
  BY <1>1, SpecIInv, PTL

(* A migration that is shown as failed has not moved .env.                 *)
THEOREM FailedKeepsEnv == Spec => []FailedNotSwitched
<1>1. IInv => FailedNotSwitched
  BY RegistryAssumption DEF IInv, SwitchedRow, FailedNotSwitched
<1>. QED
  BY <1>1, SpecIInv, PTL

(* No thread starts while a migration copies: its row is still running, so *)
(* admission refuses.                                                      *)
THEOREM NoStart == Spec => NoStartDuringCopy
<1> DEFINE A == ~disturbed' /\ Copying # {} =>
                  \A j \in Jobs : pc[j] = "none" => pc'[j] = "none"
<1>1. IInv /\ [Next]_vars => [A]_vars
  <2> SUFFICES ASSUME IInv, [Next]_vars, ~disturbed', Copying # {},
                      NEW j \in Jobs, pc[j] = "none", pc'[j] # "none"
               PROVE  FALSE
    OBVIOUS
  <2>1. ~disturbed
    BY DEF IInv, TypeOK, Next, Thread, Process, vars, AdmitMigration, AdmitJob, Launch, Beat,
           CopyVerified, WriteEnv, WorkReturns, WorkRaises, WorkFailsItself, ReadRow,
           WriteSucceeded, WriteFailed, WriteLost, Tick, SweepFind, SweepFail, DeleteRow, SyncBegin,
           SyncEnd, Crash, Restart, RecoverFind, RecoverFail, RecoverDone, RecoverSkipped
  <2>2. MigrationRunning
    <3> PICK m \in Migrations : pc[m] \in {"copy", "switch"}
      BY DEF Copying
    <3>1. row[m] = "running"
      BY <2>1, RegistryAssumption DEF IInv, LiveRow, ThreadShape, BodyPhase
    <3>. QED
      BY <3>1, RegistryAssumption DEF MigrationRunning, Running
  <2>. QED
    BY <2>2 DEF IInv, TypeOK, Next, Thread, Process, vars, AdmitMigration, AdmitJob, SetPhase,
           Beat, Body, BodyPhase, CopyVerified, WriteEnv, WorkReturns, WorkRaises,
           WorkFailsItself, ReadRow, WriteSucceeded, WriteFailed, WriteLost, Tick, SweepFind,
           DeleteRow, SweepFail, SyncBegin, SyncEnd, Crash, Restart, RecoverFind, RecoverFail,
           RecoverDone, RecoverSkipped
<1>. QED
  BY <1>1, SpecIInv, PTL DEF Spec, NoStartDuringCopy

(* A status that ended a job is final.                                     *)
THEOREM FinalStatus == Spec => FinalStatusStays
<1> DEFINE A == ~disturbed' => \A j \in Jobs : row[j] \in Terminal => row'[j] \in {row[j], "gone"}
<1>1. IInv /\ [Next]_vars => [A]_vars
  <2> SUFFICES ASSUME IInv, [Next]_vars, ~disturbed',
                      NEW j \in Jobs, row[j] \in Terminal
               PROVE  row'[j] \in {row[j], "gone"}
    OBVIOUS
  <2>1. ~disturbed
    BY DEF IInv, TypeOK, Next, Thread, Process, vars, AdmitMigration, AdmitJob, Launch, Beat,
           CopyVerified, WriteEnv, WorkReturns, WorkRaises, WorkFailsItself, ReadRow,
           WriteSucceeded, WriteFailed, WriteLost, Tick, SweepFind, SweepFail, DeleteRow, SyncBegin,
           SyncEnd, Crash, Restart, RecoverFind, RecoverFail, RecoverDone, RecoverSkipped
  <2>. QED
    BY <2>1 DEF IInv, TypeOK, LiveRow, BodyPhase, Terminal, Next, Thread, Process, vars,
           rowVars, AdmitMigration, AdmitJob, Launch, UpdateJob, UpdateIfRunning, Beat,
           CopyVerified, WriteEnv, WorkReturns, WorkRaises, WorkFailsItself, ReadRow,
           WriteSucceeded, WriteFailed, WriteLost, Tick, SweepFind, SweepFail, DeleteRow, SyncBegin,
           SyncEnd, Crash, Restart, RecoverFind, RecoverFail, RecoverDone, RecoverSkipped
<1>. QED
  BY <1>1, SpecIInv, PTL DEF Spec, FinalStatusStays

-----------------------------------------------------------------------------
(* Registry, sweeper, recovery and crashes implement the abstract lock.    *)
THEOREM RegistryImplementsLock == Spec => ImplementsLock
<1> DEFINE Used == {j \in Jobs : row[j] # "absent"}
<1>1. Init => Lock!LockInit
  BY DEF Init, Lock!LockInit, Running
<1>2. IInv /\ [Next]_vars => [Lock!LockNext]_(Lock!lockVars)
  <2> SUFFICES ASSUME IInv, [Next]_vars
               PROVE  Lock!LockNext \/ (Running' = Running /\ Used' = Used)
    BY DEF Lock!lockVars
  <2> USE DEF IInv, TypeOK, Running
  <2>1. ASSUME NEW m \in Migrations, AdmitMigration(m) PROVE Lock!LockNext
    <3>1. Lock!AcquireExclusive(m)
      BY <2>1, RegistryAssumption DEF AdmitMigration, Launch, MigrationRunning, Lock!AcquireExclusive
    <3>. QED
      BY <3>1, RegistryAssumption DEF Lock!LockNext
  <2>2. ASSUME NEW j \in Jobs, AdmitJob(j) PROVE Lock!LockNext
    <3>1. Lock!AcquireShared(j)
      BY <2>2 DEF AdmitJob, Launch, MigrationRunning, Lock!AcquireShared
    <3>. QED
      BY <3>1 DEF Lock!LockNext
  <2>3. ASSUME NEW j \in Jobs, row[j] # "absent", NEW st \in Terminal \cup {"gone"},
               row' = [row EXCEPT ![j] = st]
        PROVE  Lock!LockNext \/ (Running' = Running /\ Used' = Used)
    <3>1. CASE row[j] = "running"
      <4>1. Lock!Release(j)
        BY <2>3, <3>1 DEF Lock!Release, Terminal
      <4>. QED
        BY <4>1 DEF Lock!LockNext
    <3>2. CASE row[j] # "running"
      BY <2>3, <3>2 DEF Terminal
    <3>. QED
      BY <3>1, <3>2
  <2>4. ASSUME NEW j \in Jobs,
               WorkFailsItself(j) \/ WriteSucceeded(j) \/ WriteFailed(j) \/ DeleteRow(j)
        PROVE  Lock!LockNext \/ (Running' = Running /\ Used' = Used)
    BY <2>3, <2>4 DEF WorkFailsItself, WriteSucceeded, WriteFailed, DeleteRow, UpdateJob,
                      rowVars, ThreadShape, Terminal
  <2>5. ASSUME NEW j \in Jobs, SweepFail(j) \/ RecoverFail(j)
        PROVE  Lock!LockNext \/ (Running' = Running /\ Used' = Used)
    BY <2>3, <2>5 DEF SweepFail, RecoverFail, UpdateIfRunning, UpdateJob, rowVars, ThreadShape, Terminal
  <2>6. ASSUME UNCHANGED row PROVE Running' = Running /\ Used' = Used
    BY <2>6
  <2>7. ASSUME NEW j \in Jobs,
               \/ Beat(j) \/ CopyVerified(j) \/ WriteEnv(j) \/ WorkReturns(j)
               \/ WorkRaises(j) \/ ReadRow(j) \/ WriteLost(j)
        PROVE  UNCHANGED row
    BY <2>7 DEF rowVars, Beat, CopyVerified, WriteEnv, WorkReturns, WorkRaises, ReadRow, WriteLost
  <2>8. ASSUME Process \/ UNCHANGED vars PROVE UNCHANGED row
    BY <2>8 DEF vars, rowVars, Process, Tick, SweepFind, SyncBegin, SyncEnd, Crash, Restart,
                RecoverFind, RecoverDone, RecoverSkipped
  <2>. QED
    BY <2>1, <2>2, <2>4, <2>5, <2>6, <2>7, <2>8 DEF Next, Thread
<1>. QED
  BY <1>1, <1>2, SpecIInv, PTL DEF Spec, ImplementsLock, Lock!LockSpec
====
