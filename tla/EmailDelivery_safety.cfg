SPECIFICATION Spec
CONSTANTS
  Recipients = {1}
  Extras = {x1}
  Workers = {w1, w2}
  MaxTries = 2
  MaxRows = 2
  Batch = 1
  MaxCrashes = 2
  MaxFaults = 2
SYMMETRY Symmetry
INVARIANTS TypeOK AtMostOnce
PROPERTIES CanceledStays SentIsFinal
CHECK_DEADLOCK FALSE
