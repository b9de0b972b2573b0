SPECIFICATION Spec
CONSTANTS
  n1 = n1
  n2 = n2
  c1 = c1
  c2 = c2
  NoVal = NoVal
  Master = n1
  Nodes = {n1, n2}
  Topology = "aa"
  Model <- AllEventual
  Clients = {c1}
  Home <- Spread
  Keys = {a}
  Ops = {"set"}
  MaxOps = 3
  CanCrash = {n1, n2}
INVARIANT SingleWriterConverges
CHECK_DEADLOCK FALSE
