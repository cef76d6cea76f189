SPECIFICATION FairSpec
CONSTANTS
  Payment = {p1, p2}
  Request = {r1, r2}
  Abroad = {p1, p2}
  MaxCrashes = 1
  None = None
CHECK_DEADLOCK FALSE
INVARIANTS TypeOK CompletedIsFunded OrdersPayOnce DeliveriesBounded
PROPERTIES SettledIsFinal SuccessIsDelivered
