SPECIFICATION FairSpec
CONSTANTS
  a = a
  b = b
  runner = runner
  session = session
  none = none
  Subs = {a, b}
  Runner = runner
  Sessions = {}
  NoSub = none
  MaxFaults = 2
CHECK_DEADLOCK FALSE
PROPERTIES ReadableConverges
