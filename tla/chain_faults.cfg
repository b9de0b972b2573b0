SPECIFICATION Spec
CONSTANTS
  c1 = c1
  k1 = k1
  NoVal = NoVal
  Clients = {c1}
  Keys = {k1}
  Ops = {"set", "get"}
  Replicas = 2
  MaxOps = 2
  Window = 2
  CanFail = {0, 1, 2}
  CanClose = {c1}
INVARIANTS NoLostWakeup AppliedIsLogged 
CHECK_DEADLOCK FALSE
