SPECIFICATION SubFairSpec
CONSTANTS
  Payment = {p1}
  Request = {r1}
  Abroad = {p1}
  MaxCrashes = 1
  None = None
  App = {a}
  PaidApp = {}
  Member = {owner}
  Owner = owner
  RoleOf <- MCRoleOf
  Handler = {h1}
  TrialDays = 1
  Period = 1
  DueDays = 3
  MaxTime = 2
  MaxInvoices = 1
  MaxCount = 2
  LoadedRelationWins = TRUE
CHECK_DEADLOCK FALSE
INVARIANT SubTypeOK
PROPERTIES TrialsEnd PeriodsEnd
