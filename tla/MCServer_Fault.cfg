CONSTANTS
  t1 = t1
  t2 = t2
  k1 = k1
  v1 = v1
  Clients <- MCClients
  Keys <- MCOneKey
  Values <- MCValues
  Garbage = Garbage
  NoValue = NoValue
  MaxOps <- MCMaxOps
  MaxTs = 2
  Backends = {"OCCStore"}
  LoadKeys <- MCLoadKeys

SPECIFICATION Spec
SYMMETRY Symmetry
CHECK_DEADLOCK FALSE

INVARIANT NoFault
