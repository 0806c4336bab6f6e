SPECIFICATION OutsideSpec
CONSTANTS
  Features = {"f", "g"}
  Identities = {1, 2}
  Content <- MCContent
  Matches <- MCMatches
  Backed <- MCBacked
  Sweep = Sweep
  MaxImports = 2
  MaxRows = 2
  MaxCases = 2
  MaxEvents = 2
  None = None
  t1 = t1
  t2 = t2
  MaxFiles = 2
  Threshold = 18
  FastPath = 65
  TopK = 3
  BatchSize = 20
  Sure = 60
  Repos = {"r", "q"}
  Threads = {t1, t2}
  CasesOf <- MCCasesOf
  Archives <- MCArchives
  MaxScans = 2
  MaxScanEvents = 2
SYMMETRY Interchange
INVARIANTS ImportComplete ScansSound
PROPERTY MatchedStays
CHECK_DEADLOCK FALSE
