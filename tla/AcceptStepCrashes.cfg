SPECIFICATION FairSpec
CONSTANTS
  Sub = sub
  Master = master
  Trees = {t0, t1, t2}
  BaseTree = t0
  Steps = 2
  MaxIters = 2
  Budgets <- Crashing
INVARIANTS
  RecoveryFinishes
PROPERTIES
  Resolved
