SPECIFICATION FairSpec
CONSTANTS
  s1 = s1
  s2 = s2
  SymbolList <- MCSymbolList
  Trades = 4
  MaxTime = 4
  Page = 3
  MaxFaults = 1
  MaxFills = 1
INVARIANTS TypeOK Complete OnlyTiesTwice
PROPERTIES Ends
CHECK_DEADLOCK FALSE
