SPECIFICATION MCSpec
CONSTANTS
  Invoice = {i1, i2}
  Price = {2}
  Amount = {1}
  Rests <- MCRests
  Call = {c1, c2}
  MaxEntries = 2
  MaxOwed = 2
  None = None
SYMMETRY MCRows
CHECK_DEADLOCK FALSE
INVARIANTS BooksAgree ReceiptsAgree PaidInFull ClosingIsExact
