SPECIFICATION FairSpec
CONSTANTS
  w1 = w1
  w2 = w2
  Workers = {w1, w2}
  InterfaceOf <- MCInterfaceOf
  Bodies <- MCBodies
  KeyIsEmpty = TRUE
  MaxRequests = 2
INVARIANTS CodeTellsTheTruth SameIdOnlyAfterARace
PROPERTY AnsweredOrEnded
CHECK_DEADLOCK FALSE
