SPECIFICATION Spec
CONSTANTS
  n1 = n1
  n2 = n2
  c1 = c1
  c2 = c2
  NoVal = NoVal
  Master = n1
  Nodes = {n1, n2}
  Topology = "ms"
  Model <- AllEventual
  Clients = {c1}
  Home <- AtFirst
  Keys = {a}
  Ops = {"set"}
  MaxOps = 2
  CanCrash = {n1}
INVARIANT SingleWriterConverges
CHECK_DEADLOCK FALSE
