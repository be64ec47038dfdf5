SPECIFICATION Spec
CONSTANTS
  o1 = o1
  o2 = o2
  Others = {}
  Threshold = 3
  MaxCommits = 1
  MaxLaunches = 2
  MaxFaults = 1
CHECK_DEADLOCK FALSE
INVARIANTS RedStaysOut
