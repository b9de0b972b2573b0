SPECIFICATION Spec
CONSTANTS
  c1 = c1
  c2 = c2
  k1 = k1
  NoVal = NoVal
  Clients = {c1, c2}
  Keys = {k1}
  Ops = {"set", "get", "del"}
  Replicas = 1
  MaxOps = 2
  Window = 1
  CanFail = {}
  CanClose = {}
INVARIANTS SingleWriterAgreement
PROPERTIES ImplementsAtomicKV
SYMMETRY ClientSymmetry
CHECK_DEADLOCK FALSE
