SPECIFICATION FairSpec
CONSTANTS
  Kinds = {"huobi", "okx", "bybit", "kucoin", "bitfinex", "huobiPublic", "okxPublic"}
  MaxLosses = 3
  MaxLoops = 3
PROPERTIES Recovers
CHECK_DEADLOCK FALSE
