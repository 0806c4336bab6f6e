SPECIFICATION Spec
CONSTANTS
  None = None
  MaxRows = 4
  MaxColumns = 4
INVARIANTS
    CoverageSound
CHECK_DEADLOCK FALSE
