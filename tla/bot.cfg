SPECIFICATION Spec
CONSTANTS
  Good = Good
  Other = Other
  Poison = Poison
  NotYet = NotYet
  Intents = {Good, Other, Poison}
  Contended = {Good}
  Retention = 2
  TxLifetime = 2
  Excuses = {TRUE, FALSE}
  EventLimit = 1
  NoCursor = NotYet
  Verdict <- MCVerdict
  PreSigned = {Good, Other}
  Environments <- MCEnvironments
  NETWORKS <- MCNetworks
  Undefined = Undefined
  NaN = NaN
  MaxFeed = 2
  MaxRuns = 1
INVARIANTS
  TypeOK
  EventsLoggedOnce
  SentOncePerRun
  OneFillCanApply
  SignalStopsSubmissions
  NeverSpendsUnasked
PROPERTIES
  StopsOnSignal
