SPECIFICATION FairSpec
CONSTANTS
  o1 = o1
  o2 = o2
  Others = {o1, o2}
  Threshold = 3
  MaxCommits = 2
  MaxLaunches = 3
  MaxFaults = 2
CHECK_DEADLOCK FALSE
INVARIANTS NothingLost OutOfClone
 
