CONSTANTS
  c1 = c1
  c2 = c2
  Clients = {c1, c2}
  Continuing = {c2}
  N = 3
  Ttl = 2
  Drift = 0
  Second = 1
  Retries = 2
  MaxCalls <- MCMaxCalls
  NoVal = NoVal
SPECIFICATION Spec
INVARIANTS TypeOK MutualExclusion HeldOnServers
