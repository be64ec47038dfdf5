SPECIFICATION Spec
CONSTANTS
  a = a
  b = b
  runner = runner
  session = session
  none = none
  Subs = {a, b}
  Runner = runner
  Sessions = {session}
  NoSub = none
  MaxFaults = 1
INVARIANTS TypeOK ShippedIsMarked
PROPERTIES UncutRevertStands
SYMMETRY SubPlans
