SPECIFICATION Spec
CONSTANTS
  App = app
  Receivers = {r1, r2}
  Monitors = {m1, m2}
  Reports = {2, 3}
  TestRequests = {1}
  Messages = 3
  MaxConnects = 2
  MaxSends = 1
  MaxFaults = 1
  MaxTears = 2
SYMMETRY MCSymmetry
CONSTRAINT MCBound
INVARIANTS TypeOK NumbersInStep Faithful
CHECK_DEADLOCK FALSE
