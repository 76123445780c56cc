SPECIFICATION Spec
CONSTANTS
  BPS_DENOMINATOR = 10000
  MAX_I128 = 100000000
  Terms <- MCTerms
  Fills <- MCFills
  Prices <- MCPrices
  PriceUnit = 5
  TxCost = 1
  MinProfit = 1
  MaxTime = 2
INVARIANT
  OverDeliveryNeverTripsTolerance
CHECK_DEADLOCK FALSE
