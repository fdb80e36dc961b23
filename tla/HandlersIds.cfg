SPECIFICATION Spec
CONSTANTS
  w1 = w1
  w2 = w2
  Workers = {w1, w2}
  InterfaceOf <- MCShips
  Bodies <- MCSound
  KeyIsEmpty = TRUE
  MaxRequests = 2
INVARIANT RequestIdsDiffer
CHECK_DEADLOCK FALSE
