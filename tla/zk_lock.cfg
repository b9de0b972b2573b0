CONSTANTS
  p1 = p1
  p2 = p2
  p3 = p3
  Procs = {p1, p2, p3}
  Uses <- MCUses
  CanCrash = {p2}
  CanLapse = {p3}
  MaxCalls <- Quota
  None = None
CHECK_DEADLOCK FALSE
SPECIFICATION FairSpec
INVARIANTS TypeOK Exclusive 
PROPERTY EveryLockReturns
