SPECIFICATION FairSpec
CONSTANTS
  c1 = c1
  c2 = c2
  k1 = k1
  NoVal = NoVal
  Clients = {c1, c2}
  Keys = {k1}
  Ops = {"set", "get"}
  Replicas = 2
  MaxOps = 1
  Window = 1
  CanFail = {}
  CanClose = {}
INVARIANTS TypeOK ClosedLoop AckedEverywhere ChainOrder
PROPERTIES EveryRequestAnswered
CHECK_DEADLOCK FALSE
