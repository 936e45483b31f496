SPECIFICATION Spec
CONSTANTS
  c1 = c1
  c2 = c2
  Calls <- MCCalls
  Menu <- MCMenu
  RecvWindow = 1
  RetryTimes = 2
  Resends = 1
  RetryAfter = 1
INVARIANT PlacedOnce
CHECK_DEADLOCK FALSE
