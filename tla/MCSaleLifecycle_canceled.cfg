SPECIFICATION Spec
CONSTANTS
  p1 = p1
  p2 = p2
  k1 = k1
  k2 = k2
  r1 = r1
  r2 = r2
  Procs <- TwoProcs
  Keys <- TwoKeys
  Quantities <- SomeQuantities
  Charges <- SomeCharges
  Collections <- SomeCollections
  Reasons = {r1, r2}
  StaleWriters = {"meta"}
SYMMETRY Symmetric
CHECK_DEADLOCK FALSE
PROPERTIES
  CanceledIsFrozen
