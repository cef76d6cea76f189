SPECIFICATION SubSpec
CONSTANTS
  Payment = {p1}
  Request = {r1}
  Abroad = {p1}
  MaxCrashes = 0
  None = None
  App = {a}
  PaidApp = {a}
  Member = {owner}
  Owner = owner
  RoleOf <- MCRoleOf
  Handler = {h1, h2}
  TrialDays = 0
  Period = 1
  DueDays = 0
  MaxTime = 1
  MaxInvoices = 1
  MaxCount = 2
  LoadedRelationWins = TRUE
SYMMETRY MCSymmetry
CHECK_DEADLOCK FALSE
INVARIANTS PaidAppNeedsMoney ShownPurchaseIsLinked
PROPERTY ImplementsPayments
