SPECIFICATION FairSpec
CONSTANTS
  n1 = n1
  n2 = n2
  c1 = c1
  c2 = c2
  NoVal = NoVal
  Master = n1
  Nodes = {n1, n2}
  Topology = "ms"
  Model <- AllEventual
  Clients = {c1, c2}
  Home <- AtFirst
  Keys = {a, b}
  Ops = {"set"}
  MaxOps = 2
  CanCrash = {n2}
INVARIANT TypeOK
INVARIANT SlavesFollowLog
INVARIANT SingleWriterConverges
PROPERTY ImplementsReplicatedLog
PROPERTY EveryAckReplicated
CHECK_DEADLOCK FALSE
