SPECIFICATION Spec
CONSTANTS
  free = free
  basic = basic
  platinum = platinum
  moreUsers = moreUsers
  anyUsers = anyUsers
  anyRoles = anyRoles
  chat = chat
  Package = {free, basic}
  Freemium = free
  Top = {}
  Offered = {free}
  Tier <- MCTier
  Base <- MCBase
  Feature = {anyUsers}
  Bundled = {}
  Raises <- MCRaises
  Value <- MCValue
  Call = {c1}
  Period = 1
  MaxLimit = 2
  MaxTime = 1
  MaxUsage = 2
  None = None
CHECK_DEADLOCK FALSE
INVARIANT RefusedIsNotCancelled
