SPECIFICATION FairSpec
CONSTANTS
  n1 = n1
  n2 = n2
  c1 = c1
  c2 = c2
  NoVal = NoVal
  Free = Free
  Nodes = {n1, n2}
  Clients = {c1, c2}
  Home <- Spread
  Keys = {a, b}
  Ops = {"set", "get"}
  MaxOps <- Quota
INVARIANT TypeOK
INVARIANT HoldsLock
INVARIANT OneAtATime
INVARIANT SingleWriterAgreement
 
INVARIANT AppliedIsLogged
PROPERTY EveryAckReplicated
CHECK_DEADLOCK FALSE
