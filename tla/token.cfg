SPECIFICATION Spec
CONSTANTS
  Owner = Owner
  Other = Other
  Nobody = Nobody
  MAX_I128 = 2
  Addresses = {Owner, Other}
  Grants <- MCGrants
  Amounts <- MCAmounts
  Uninitialized = Nobody
  MaxSequence = 2
INVARIANTS
  TypeOK
  SupplyIsIssued
  DrawnWithinGrant
PROPERTIES
  OnlyOwnerOrGrantTakes
