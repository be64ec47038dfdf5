SPECIFICATION Spec
CONSTANTS
  Sub = sub
  Master = master
  Trees = {t0, t1, t2}
  BaseTree = t0
  Steps = 2
  MaxIters = 2
  Budgets <- Disturbed
INVARIANTS
  TypeOK
  ChangesOnce
  ProofIsEarned
  NothingHalfDone
  OneUnfinished
PROPERTIES
  AdvanceIsGated
