SPECIFICATION FairSpec
CONSTANTS
  Producers = {p1, p2}
  Consumers = {c1, c2}
  Items = {m1, m2}
  Capacity = 3
  MaxPushes = 4
  NoItem = NoItem
INVARIANT NoLostWakeup
PROPERTIES ImplementsBoundedFifo BothSidesMove
CHECK_DEADLOCK FALSE
