CONSTANTS
  a = a
  b = b
  c = c
  d = d
  Key = {a, b, c, d}
  Caller = Caller
  MaxRefs = 2
  MayFail = {b, c, d}
  Workloads <- AllLoads
SPECIFICATION Spec
INVARIANTS
  GraphAcyclic
  ResultTells
  QuietAtReturn
  NeighborsKept
PROPERTIES
  StatesAdvance
  Terminates
