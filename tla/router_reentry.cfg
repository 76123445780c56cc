SPECIFICATION Spec
CONSTANTS
  T = T
  S = S
  S2 = S2
  R = R
  A = A
  B = B
  H = H
  h1 = h1
  h2 = h2
  h3 = h3
  None = None
  BPS_DENOMINATOR = 10000
  MAX_I128 = 100000000
  Intents <- MCIntents
  Hashes = {h1, h2, h3}
  Hash <- MCHash
  Addresses = {T, S, S2, R}
  Solvers = {S}
  RouterAddress = R
  Nonces = {1, 2}
  HonestTokens = {A, B}
  HostileTokens = {H}
  InitialBalance <- MCBalance
  Amounts = {2}
  HostAllowsReentry = TRUE
  NoReceipt = None
  MaxTime = 1
  MaxDepth = 3
  MaxSigned = 6
INVARIANTS
  TypeOK
  NonceSettlesOnce
  NoDoubleFillInFlight
  ReceiptsMatchStatus
  EventsMatchStatus
  BalancesFollowReceipts
PROPERTIES
  ImplementsLifecycle
