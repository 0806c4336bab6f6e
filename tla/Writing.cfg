SPECIFICATION WritingSpec
CONSTANTS
  t1 = t1
  f1 = f1
  c1 = c1
  s1 = s1
  Threads = {t1}
  Features = {f1}
  Seeded = {f1}
  Cases = {c1}
  Steps = {s1}
  MaxSteps = 1
  MaxCrashes = 1
  None = None
  Failed = Failed
  IdSegments = {"7", "8"}
  Param = "{id}"
  ReuseApi = 35
  ReuseGeneral = 65
  PrdLimit = 3
  MaxRules = 2
  ThinDoc = 1
  MaxGaps = 2
  MaxComponents = 2
  Numbers = {"10", "20"}
  Stem <- MCStem
  Exemplars = {"logs in"}
  ExemplarWords = {"otp", "login"}
  Docs <- MCDocs
  Replies <- MCReplies
  Focuses <- MCFocuses
  Risky <- MCRisky
  Baseline <- MCBaseline
  Old <- MCOld
  Legacy = {1}
  Alike <- MCAlike
  ApiChunk = 2
  MinKept = 2
  MinJourneys = 2
  ManyApis = 1
  BusinessMin = 1
  MaxRuns = 2
  Vocabulary = {"10", "20", "users", "user", "days", "of"}
  Lines <- MCLines
  MaxWords = 5
  MaxLines = 2
  ChunkSizes = {2, 3, 4}
  Surfaces <- MCSurfaces
INVARIANTS
  
  ApiTestsDiscovered
  
  EvidenceSound
PROPERTY EmptyIsEarned
CHECK_DEADLOCK FALSE
