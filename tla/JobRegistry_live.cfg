CONSTANTS
  m1 = m1
  j1 = j1
  Jobs = {m1, j1}
  Migrations = {m1}
  Overriding = {}
  HB = 1
  TTL = 2
  MaxCrashes = 2
  NoJob = NoJob
SPECIFICATION FairSpec
PROPERTIES
  BlockReleased
