SPECIFICATION Spec
CONSTANTS
  l1 = l1
  l2 = l2
  d1 = d1
  none = none
  Launches = {l1, l2}
  Directs = {d1}
  NoRun = none
  Budgets <- Troubled
  MaxWorkers = 1
CHECK_DEADLOCK FALSE
SYMMETRY LaunchesAlike
INVARIANTS TypeOK OneRunner StrangersSpared OneSuccessor
PROPERTIES RecordOutlivesWorker StopsAreTrue
