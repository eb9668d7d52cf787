SPECIFICATION JobsSpec
CONSTANTS
  p1 = p1
  p2 = p2
  Polls = {p1, p2}
  MaxEvents = 2
  Lanes = {"generic", "alert", "fenced"}
  BatchSize = 2
  MaxRetries = 2
  MaxFaults = 2
  Nobody = Nobody
  Ends = {2}
  Starts = {}
  None = None
  Keep = Keep
  n1 = n1
  n2 = n2
  o1 = o1
  o2 = o2
  Promos = {1, 2}
  Servers = {n1, n2}
  Operators = {o1}
  Poison = {1}
  ScanBatch = 1
  Window = 1
  MaxTime = 1
  MaxDate = 2
  MaxEdits = 2
  MaxScanFaults = 1
CHECK_DEADLOCK FALSE
INVARIANTS
  PublishedWasDelivered
  AlertedOnce
PROPERTIES
  DeliveredAsPromised
  EveryEventSettles
  AlertIsCurrent
  DueIsAlerted
