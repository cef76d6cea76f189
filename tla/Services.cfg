SPECIFICATION MCSpec
CONSTANTS
  Call = {c1, c2}
  None = None
  Password = {p, q}
  PerSet = 1
  MaxSets = 2
  MaxMails = 3
  MaxTemps = 1
  MaxMade = 1
  MaxStale = 1
  Schedule = {s1}
  First = 2
  Gap <- MCGap
  Ends <- MCEnds
  MaxDay = 5
  MaxLost = 1
  Person = {o, u}
  Opener = o
  MaxMessages = 2
  Guest = {g}
  MaxInvited = 2
  MaxMishaps = 1
  Cost = 5
  Salvage = 2
  Months = 2
  RateN = 1
  RateQ = 2
  FairValues = {4}
  MaxRuns = 2
  MaxClashes = 1
  Payment = {pay1, pay2}
  Paid = {1, 2}
  Total = 2
  ByHand = {"paid"}
  MaxUpsets = 1
SYMMETRY MCRows
INVARIANTS
  SecondFactorIsWhole CodesAreSpent MailsActOnce TempLoginsBounded
  NoneSkipped CreatedOnce
  BadgeCounts
  GrantsBounded AcceptedIsGranted
  LogsAgree WorthIsLeft DisposedOnce
  StatusFollowsPayments SentIsBooked
CHECK_DEADLOCK FALSE
