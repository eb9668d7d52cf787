SPECIFICATION WatchedSpec
CONSTANTS
  u1 = u1
  u2 = u2
  r1 = r1
  r2 = r2
  s1 = s1
  s2 = s2
  h1 = h1
  h2 = h2
  m1 = m1
  p1 = p1
  x1 = x1
  f1 = f1
  k3 = k3
  z1 = z1
  Users = {u1, u2}
  Registers = {r1, r2}
  Sessions = {s1, s2}
  Handovers = {h1, h2}
  Manuals = {m1}
  Payments = {p1}
  Sales = {x1}
  Refunds = {f1}
  MaxCents = 1
  MaxMovements = 1
  None = None
  Handlers = {u1, u2}
  AskKeys = {r1, r2, k3}
  Questions <- SomeQuestions
  Zips = {z1}
  Reviewers = {p1}
  ReviewKeys = {p1}
  Sayings = {s1, s2}
  Evidences <- SomeEvidences
  Window <- OneTick
  MaxValidations = 2
  MaxRequests = 5
  MaxClock = 1
  Absent = Absent
  Promos = {r1, r2}
  PromoSales = {s1, s2}
  Editors = {h1, h2}
  Caps = {2, 5}
  MaxUnits = 2
  IntMax = 5
  MaxEdits = 2
  NoCap = NoCap
  Keep = Keep
  Uploads = {r1, r2}
  MediaKeys = {m1}
  Files = {m1, x1}
  Pdfs = {m1}
  Checkers = {u1, u2}
  PayKeys = {s1, s2}
  PayAmounts = {1, 2}
  SaleTotal = 3
  Undeletable = {}
  PurgeSize = 1
  MaxBatches = 1
  MaxLosses = 1
  MaxAttempts = 2
  Cashier = Cashier
  Nothing = Nothing
SYMMETRY Symmetric
CONSTRAINT Connected
INVARIANTS
  DrawersAreExclusive
  ExpectedIsLedger
  CountedIsHandedOver
  CutIsBacked
  OneLiveDecisionPerChain
  NobodyWaitsInVain
  AnswersTellTheRow
  WithinCap
  LedgerExact
  AnsweredWithOwnFile
  PaidOncePerReceipt
CHECK_DEADLOCK FALSE
