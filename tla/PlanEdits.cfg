SPECIFICATION EditSpec
CONSTANTS
  s1 = s1
  s2 = s2
  m = m
  f = f
  d1 = d1
  d2 = d2
  h1 = h1
  nobody = nobody
  Subs = {s1}
  Master = m
  Foreign = {}
  Drivers = {d1}
  Humans = {h1}
  Nobody = nobody
  Steps = 1
  Threshold = 1
  MaxFails = 1
  MaxEdits = 0
  MaxAsks = 4
  MaxCrashes = 1
  MaxRawEdits = 1
CHECK_DEADLOCK FALSE
INVARIANTS EditsSurface
PROPERTIES EditedHoldsStand
