CONSTANTS
  m1 = m1
  m2 = m2
  j1 = j1
  Jobs = {m1, m2, j1}
  Migrations = {m1, m2}
  Overriding = {m2}
  HB = 1
  TTL = 2
  MaxCrashes = 1
  NoJob = NoJob
SPECIFICATION Spec
INVARIANTS
  MigrationRunsAlone
  LiveJobsShowRunning
  FailedNotSwitched
PROPERTIES
  NoStartDuringCopy
  FinalStatusStays
  ImplementsLock
