SPECIFICATION Spec
CONSTANTS
  t1 = t1
  t2 = t2
  hand = hand
  Trains = {t1, t2}
  Hands = {hand}
  NoTrain = NoTrain
  HostCount = 2
  MaxLandings = 1
  MaxPermits = 1
  MaxCrashes = 1
  MaxDisturbances = 3
CHECK_DEADLOCK FALSE
SYMMETRY TrainsAlike
INVARIANTS OneTrain CanaryFirst
PROPERTIES ReleasedEverywhere RollbackLeaves
