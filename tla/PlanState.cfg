SPECIFICATION FairSpec
CONSTANTS
  s1 = s1
  s2 = s2
  m = m
  f = f
  d1 = d1
  d2 = d2
  h1 = h1
  nobody = nobody
  Subs = {s1}
  Master = m
  Foreign = {}
  Drivers = {d1, d2}
  Humans = {h1}
  Nobody = nobody
  Steps = 1
  Threshold = 2
  MaxFails = 2
  MaxEdits = 1
  MaxAsks = 4
  MaxCrashes = 1
CHECK_DEADLOCK FALSE
INVARIANTS TypeOK OnePending JournalExplainsFiles ChecksStillHold AuditExplains
PROPERTIES CompareAndSet HoldsStand TransitionsAreAtomic Answered
