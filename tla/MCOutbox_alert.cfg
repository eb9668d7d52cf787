SPECIFICATION Spec
CONSTANTS
  p1 = p1
  p2 = p2
  Polls = {p1, p2}
  MaxEvents = 1
  Lanes = {"alert"}
  BatchSize = 1
  MaxRetries = 2
  MaxFaults = 1
  Nobody = Nobody
CHECK_DEADLOCK FALSE
PROPERTIES
  AlertPublishedOnce
