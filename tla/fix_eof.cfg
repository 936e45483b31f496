SPECIFICATION FairSpec
CONSTANTS
  App = app
  Receivers = {r1, r2}
  Monitors = {m1, m2}
  Reports = {1}
  TestRequests = {}
  Messages = 1
  MaxConnects = 2
  MaxSends = 1
  MaxFaults = 1
  MaxTears = 0
PROPERTIES KeepsReceiving
CHECK_DEADLOCK FALSE
