SPECIFICATION SuggestingSpec
CONSTANTS
  None = None
  PageLen = 2
  Floor = 2
  Margin = 1
  MaxScan = 3
  CountsSemantic = FALSE
  Numbers = {"p1", "p2"}
  Threads = {t1, t2}

  Features <- MCFeatures
  WithCases <- MCWithCases
  Picked <- MCPicked
  Issues <- MCIssues
  Text <- MCText
  Page = 2
  MaxPushes = 2
  MaxTime = 2
  MaxWork = 2
  MaxMigrations = 1
  Deleted = {"gone"}
  Scores <- MCScores
  MaxChunks = 5
ACTION_CONSTRAINT CalmAfterBroken
SYMMETRY Perms
INVARIANTS WatermarkCovers AtRest SuggestionClear
PROPERTIES ManualKept
CHECK_DEADLOCK FALSE
