CONSTANTS
  N = 2
  GetFrom <- Any
  SetTo <- Any
  Wrap = 16
  MaxItems = 2
  MaxCalls = 3
  MaxFaults = 2
SPECIFICATION FairSpec
INVARIANTS TypeOK OkIsAnswered QuietBetweenCalls OwnReplies
PROPERTY EveryCallReturns
CHECK_DEADLOCK FALSE
