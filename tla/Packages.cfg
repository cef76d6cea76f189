SPECIFICATION FairSpec
CONSTANTS
  free = free
  basic = basic
  platinum = platinum
  moreUsers = moreUsers
  anyUsers = anyUsers
  anyRoles = anyRoles
  chat = chat
  Package = {free, basic, platinum}
  Freemium = free
  Top = {platinum}
  Offered = {free, basic}
  Tier <- MCTier
  Base <- MCBase
  Feature = {anyUsers, chat}
  Bundled = {chat}
  Raises <- MCRaises
  Value <- MCValue
  Call = {c1}
  Period = 1
  MaxLimit = 2
  MaxTime = 2
  MaxUsage = 2
  None = None
CHECK_DEADLOCK FALSE
INVARIANTS PackagesTypeOK RowIsConsistent
PROPERTY PackageEnds
