SPECIFICATION MaintenanceSpec
CONSTANTS
  home = home
  away = away
  c1 = c1
  c2 = c2
  d1 = d1
  d2 = d2
  g1 = g1
  g2 = g2
  k1 = k1
  k2 = k2
  k3 = k3
  u1 = u1
  Dbs = {home, away}
  Home = home
  Colls = {c1, c2}
  Docs = {d1, d2}
  MaxVer = 2
  MaxWrites = 2
  MaxForeign = 1
  MaxRestarts = 1
  NoColl = NoColl
  Groups = {g1, g2}
  Cases = {k1, k2, k3}
  Clients = {u1}
  Boot = Boot
  Legacy = {k1, k2}
  GroupOf <- MCGroupOf
  MaxCount = 5
  MaxCrashes = 1
CONSTRAINT UpToRace
SYMMETRY Interchange
INVARIANTS
  CopySound
  
PROPERTIES
  MigrationSteps
  IdsStable
CHECK_DEADLOCK FALSE
