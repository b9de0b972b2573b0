SPECIFICATION FairSpec
CONSTANTS
  c1 = c1
  c2 = c2
  k1 = k1
  NoVal = NoVal
  Clients = {c1}
  Keys = {k1}
  Ops = {"set"}
  Replicas = 1
  MaxOps = 2
  Window = 2
  CanFail = {}
  CanClose = {}
PROPERTIES EveryRequestAnswered
CHECK_DEADLOCK FALSE
