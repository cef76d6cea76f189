SPECIFICATION SubSpec
CONSTANTS
  Payment = {p1}
  Request = {r1}
  Abroad = {p1}
  MaxCrashes = 0
  None = None
  App = {a}
  PaidApp = {a}
  Member = {owner}
  Owner = owner
  RoleOf <- MCRoleOf
  Handler = {h1}
  TrialDays = 1
  Period = 1
  DueDays = 0
  MaxTime = 1
  MaxInvoices = 1
  MaxCount = 2
  LoadedRelationWins = TRUE
CHECK_DEADLOCK FALSE
INVARIANT PurchaseIsStored
