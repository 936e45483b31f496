SPECIFICATION Spec
CONSTANTS
  c1 = c1
  c2 = c2
  Clients <- MCClients
  k1 = k1
  k2 = k2
  Keys <- MCKeys
  Repeated <- MCRepeated
  Menu <- MCMenu
  MaxCalls = 3
  MaxFaults = 1
  MaxCloses = 1
INVARIANTS TypeOK IndexesFirst FundingUnique DepositsOnce
PROPERTIES UpdatesStay
CHECK_DEADLOCK FALSE
