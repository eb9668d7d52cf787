SPECIFICATION ExpirySpec
CONSTANTS
  Ends = {1, 2}
  Starts = {1}
  None = None
  Keep = Keep
  n1 = n1
  n2 = n2
  o1 = o1
  o2 = o2
  Promos = {1}
  Servers = {n1}
  Operators = {o1, o2}
  Poison = {}
  ScanBatch = 1
  Window = 2
  MaxTime = 1
  MaxDate = 2
  MaxEdits = 2
  MaxScanFaults = 0
SYMMETRY Symmetric
PROPERTIES
  EndedUntilActivated
CHECK_DEADLOCK FALSE
