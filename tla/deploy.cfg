SPECIFICATION Spec
CONSTANTS
  Operator = Operator
  Other = Other
  SacA = SacA
  SacB = SacB
  None = None
  Absent = Absent
  Cut = Cut
  Fresh = 6
  SellSac = SacA
  BuySac = SacB
  Accounts = {Operator, Other}
  Signers = {Operator}
  Unset = None
  NoFile = Absent
  Partial = Cut
  MaxRuns = 2
INVARIANTS
  TypeOK
  RecordedIsConfigured
PROPERTIES
  DryRunTouchesNothing
CHECK_DEADLOCK FALSE
