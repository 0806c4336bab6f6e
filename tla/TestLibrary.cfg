CONSTANTS
  t1 = t1
  t2 = t2
  f1 = f1
  f2 = f2
  c1 = c1
  c2 = c2
  s1 = s1
  Threads = {t1, t2}
  Features = {f1, f2}
  Seeded = {f1}
  Cases = {c1, c2}
  Steps = {s1}
  MaxSteps = 1
  MaxCrashes = 1
  None = None
SPECIFICATION Spec
SYMMETRY Interchange
CONSTRAINTS UpToClash SerialAfterCrash
CHECK_DEADLOCK FALSE

  
PROPERTIES
  SharedCasesKept
