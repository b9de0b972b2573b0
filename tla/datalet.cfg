CONSTANTS
  T = 2
  F = 2
  MaxConns = 3
  MaxReqs = 2
SPECIFICATION FairSpec
INVARIANTS TypeOK QueueNotEmpty HeldIsOpen
PROPERTY EveryRequestAnswered
CHECK_DEADLOCK FALSE
