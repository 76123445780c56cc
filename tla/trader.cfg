SPECIFICATION Spec
CONSTANTS
  Trader = Trader
  Sell = Sell
  Buy = Buy
  NotInteger = NotInteger
  MAX_I128 = 100
  MAX_U64 = 7
  MAX_SAFE_INTEGER = 4
  BPS_DENOMINATOR = 2
  Strkeys = {Trader, Sell, Buy}
  DEFAULT_INTENT_TTL_SECONDS = 2
  MsPerSecond = 2
  Traders = {Trader}
  Pairs <- MCPairs
  AmountInputs <- MCAmounts
  SlippageInputs = {1, 3}
  FeeInputs = {1, 3}
  NonceInputs = {1, 8}
  TtlInputs = {4}
  TimestampInputs = {3}
  MaxMs = 2
  MaxBuilt = 2
  TTL_THRESHOLD = 1
  TTL_EXTEND_TO = 2
  MinTtl = 0
  MaxLedger = 4
  MaxKeys = 1
INVARIANTS
  TypeOK
  FeedReturnsWhatWasBuilt
  SharedNonceSameInstant
  AmountsBelongTogether
  BuiltIsFillable
  KeySettledOnce
  ToldIsFinal
  SettlementOutlivesThreshold
CHECK_DEADLOCK FALSE
