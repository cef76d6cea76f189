SPECIFICATION FairSpec
CONSTANTS
  Payment = {p1, p2, p3}
  Request = {r1}
  Abroad = {p2, p3}
  MaxCrashes = 0
  None = None
CHECK_DEADLOCK FALSE
PROPERTY ImplementsFairSettlement
