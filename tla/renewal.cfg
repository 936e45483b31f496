SPECIFICATION Spec
CONSTANTS
  None = None
  spot = spot
  other = other
  perp = perp
  Managers <- MCManagers
  Perp <- MCPerp
  KeyLife = 60
  ws_ping_sleep = 30
  reconnection_time_sleep = 180
  ws_listen_key_sleep = 1
  RecursionLimit = 2
  MaxFaults = 2
SYMMETRY MCSymmetry
INVARIANTS TypeOK Uninterrupted DarkIsBounded OwnEvents
CHECK_DEADLOCK FALSE
