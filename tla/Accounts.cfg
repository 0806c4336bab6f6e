SPECIFICATION AccessSpec
CONSTANTS
  None = None
  Gone = Gone
  Accts = {"admin", "b"}
  Local = "admin"
  Threads = {t1, t2}
  MaxTries = 1
  MaxIssues = 1
  MaxFailures = 2
  MaxWork = 4
  MaxTokenFailures = 2
  World <- MCWorld
  Projects = {"P", "Q"}
  Wanted = {"P", "gone"}
  Members <- MCMembers
  Paths <- MCPaths
  Bodies <- MCBodies
SYMMETRY Perms
INVARIANTS AdminRemains SessionsCurrent GuessesBounded ScopeHolds
CHECK_DEADLOCK FALSE
