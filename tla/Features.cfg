SPECIFICATION Spec
CONSTANTS
  q1 = q1
  q2 = q2
  d1 = d1
  d2 = d2
  Requests = {q1, q2}
  Keys = {"E", "F", " E "}
  Strip <- MCStrip
  Tags = {"T"}
  Texts = {d1, d2}
  None = None
  MaxRows = 3
  MaxServed = 3
  MaxCrashes = 1
INVARIANTS
  EpicOneGroup
  IndexedAtRest
  TagShared
SYMMETRY Symmetry
CHECK_DEADLOCK FALSE
