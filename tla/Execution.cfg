SPECIFICATION ExecutionSpec
CONSTANTS
  c1 = c1
  c2 = c2
  t1 = t1
  t2 = t2
  Cases = {c1, c2}
  Titles = {1, 2}
  Threads = {t1, t2}
  Planned <- MCPlanned
  MaxEdits = 1
  MaxRequests = 3
  Results = {"passed"}
  Replies <- MCReplies
  Lower <- MCLower
  Orders <- MCOrders
  Selections <- MCSelections
  Failed = Failed
  None = None
  MinQuestions = 2
  MaxSeen = 3
  MaxQuestions = 2
  Options = 2
  MaxRuns = 2
  MaxSubmits = 2
  MaxCrashes = 1
SYMMETRY Interchange
INVARIANTS
  LogAgrees
  CycleSound
  AnswerableWhole
  OneOpenRun
  ScoreOfAnswers
CHECK_DEADLOCK FALSE
