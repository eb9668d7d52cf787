SPECIFICATION StockSpec
CONSTANTS
  s1 = s1
  a1 = a1
  Lots = {1}
  Variants = {3}
  StockSales = {s1}
  Adjusters = {a1}
  MaxOnHand = 1
  Thresholds = {0}
  MaxDay = 0
CHECK_DEADLOCK FALSE
INVARIANT CancellationRestores
