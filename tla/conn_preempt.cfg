SPECIFICATION Spec
CONSTANTS
  None = None
  Apps = {a1}
  Streams = {}
  nMonitors = 2
  nConns = 2
  Monitors <- MCMonitors
  Conns <- MCConns
  MaxFaults = 1
  MayClose = TRUE
  MayRebind = TRUE
  Preemptive = TRUE
INVARIANT RecoveryHasOwner
CHECK_DEADLOCK FALSE
