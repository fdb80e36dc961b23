SPECIFICATION FairSpec
CONSTANTS
  c1 = c1
  c2 = c2
  r1 = r1
  r2 = r2
  r3 = r3
  r4 = r4
  w1 = w1
  w2 = w2
  w3 = w3
  NoRequest = NoRequest
  Clients <- MCClients
  Requests <- FewRequests
  Owner <- FewOwner
  Body <- FewBody
  Workers <- FewWorkers
  Serves <- FewServes
  FlagValues = {0}
  MaxFaults = 2
INVARIANTS NoLostFrame RepliesPaired OneWorkerKeepsOrder
PROPERTY RecoversService
CHECK_DEADLOCK FALSE
