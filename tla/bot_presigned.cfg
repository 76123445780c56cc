SPECIFICATION Spec
CONSTANTS
  Good = Good
  Other = Other
  Poison = Poison
  NotYet = NotYet
  Intents = {Good}
  Contended = {Good}
  Retention = 2
  TxLifetime = 2
  Excuses = {FALSE}
  EventLimit = 1
  NoCursor = NotYet
  Verdict <- MCVerdict
  PreSigned = {Good}
  Environments <- MCPlain
  NETWORKS <- MCNetworks
  Undefined = Undefined
  NaN = NaN
  MaxFeed = 1
  MaxRuns = 0
INVARIANTS
  PreSignedFillsSucceed
