SPECIFICATION SubSpec
CONSTANTS
  Payment = {p1, p2}
  Request = {r1}
  Abroad = {p1, p2}
  MaxCrashes = 0
  None = None
  App = {a}
  PaidApp = {a}
  Member = {owner}
  Owner = owner
  RoleOf <- MCRoleOf
  Handler = {h1}
  TrialDays = 0
  Period = 1
  DueDays = 0
  MaxTime = 1
  MaxInvoices = 2
  MaxCount = 2
  LoadedRelationWins = TRUE
SYMMETRY MCSymmetry
CHECK_DEADLOCK FALSE
INVARIANTS BillingFollowsPeriod PaidAppNeedsMoney
