CONSTANTS
  c1 = c1
  c2 = c2
  s1 = s1
  s2 = s2
  Clients = {c1, c2}
  Ids = {s1, s2}
  QueueCap = 1
  MaxLives = 2
  MaxWrites = 2
  MaxOps = 3
  MaxStalls = 1
SPECIFICATION Spec
SYMMETRY Symmetry
INVARIANTS
  AttachedSeesEverything
  ControllersTracked
  NobodyStuck
CHECK_DEADLOCK FALSE
