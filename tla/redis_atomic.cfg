SPECIFICATION FairSpec
CONSTANTS
  None = None
  Clients = {c1, c2}
  Items <- MCItems
  Args <- MCArgs
  Methods = {"set_portfolios", "set_orders", "get_orders_and_delete",
             "set_publish_trades", "get_trades"}
  MaxCalls = 3
  MaxFaults = 1
  MaxSlow = 0
INVARIANTS TypeOK ReadCoversStore AtMostOnce MirrorAgrees
PROPERTIES SnapshotAccumulates CallsFinish Atomic
CHECK_DEADLOCK FALSE
