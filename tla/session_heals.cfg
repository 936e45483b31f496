SPECIFICATION FairSpec
CONSTANTS
  None = None
  Threads = {t1, t2}
  Events = {e1}
  RECONNECT_BASE_DELAY_S = 1
  RECONNECT_MAX_DELAY_S = 3
  Shadow = FALSE
  Preemptive = FALSE
  MaxStarts = 2
  MaxDrops = 2
  MaxRejections = 2
INVARIANTS TypeOK HealthIsTrue CopiesAreBounded
PROPERTIES Heals Stops
CHECK_DEADLOCK FALSE
