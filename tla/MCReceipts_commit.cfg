SPECIFICATION ReceiptsSpec
CONSTANTS
  u1 = u1
  u2 = u2
  k1 = k1
  m1 = m1
  c1 = c1
  Uploads = {u1, u2}
  MediaKeys = {k1}
  Files = {m1}
  Pdfs = {}
  Checkers = {c1}
  PayKeys = {k1}
  PayAmounts = {1}
  SaleTotal = 1
  Undeletable = {}
  PurgeSize = 1
  MaxBatches = 1
  MaxLosses = 1
  MaxAttempts = 2
  Cashier = Cashier
  Nothing = Nothing
INVARIANT AnsweredIsStored
CHECK_DEADLOCK FALSE
