SPECIFICATION FairSpec
CONSTANTS
  None = None
  Apps = {a1}
  Streams = {s1}
  nMonitors = 4
  nConns = 4
  Monitors <- MCMonitors
  Conns <- MCConns
  MaxFaults = 2
  MayClose = FALSE
  MayRebind = FALSE
  Preemptive = FALSE
INVARIANTS TypeOK NeverUnattended NoLostSubscription AssertionHolds
PROPERTIES Heals
