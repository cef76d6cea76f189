SPECIFICATION Spec
CONSTANTS
  Payment = {p1}
  Request = {r1, r2}
  Abroad = {}
  MaxCrashes = 0
  None = None
CHECK_DEADLOCK FALSE
INVARIANT AppliedIsCompleted
