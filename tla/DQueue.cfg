SPECIFICATION FairSpec
CONSTANTS
  Workers = {w1, w2, w3}
  Items = {m1, m2}
  MaxPushes = 5
  NoItem = NoItem
INVARIANT NoLostWakeup
PROPERTIES ImplementsTaskQueue MessagesAreTaken ShutdownReturns
