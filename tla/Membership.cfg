SPECIFICATION Spec
CONSTANTS
  User = {owner, u1}
  Owner = owner
  Custom = {}
  Level <- MCLevel
  Manager <- MCManager
  Call = {c1, c2}
  SeatLimit = 2
  InviteDays = 1
  MaxTime = 2
  MaxInvites = 2
  MaxRows = 1
  None = None
SYMMETRY MCCalls
CHECK_DEADLOCK FALSE
INVARIANTS MembershipTypeOK OwnerStays PendingBounded
