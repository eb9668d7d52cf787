SPECIFICATION AfterSaleSpec
CONSTANTS
  p1 = p1
  p2 = p2
  k1 = k1
  k2 = k2
  t1 = t1
  t2 = t2
  t3 = t3
  t4 = t4
  Procs = {p1, p2}
  Keys = {k1, k2}
  Tokens = {t1, t2, t3, t4}
  Bodies <- SomeBodies
  Amounts = {3}
  NoKey = NoKey
  NoBody = NoBody
  NoToken = NoToken
  u1 = u1
  u2 = u2
  m1 = m1
  Uploads = {u1, u2}
  MediaKeys = {k1, k2}
  Files = {m1}
  Pdfs = {m1}
  Checkers = {p1}
  PayKeys = {k1}
  PayAmounts = {1}
  SaleTotal = 1
  Undeletable = {u1}
  PurgeSize = 1
  MaxBatches = 1
  MaxLosses = 1
  MaxAttempts = 2
  Cashier = Cashier
  Nothing = Nothing
INVARIANTS
  OnePaymentPerKey
  StoredUntilDue
PROPERTIES
  SettledAsPromised
  NoStrandedKey
  DueIsPurged
