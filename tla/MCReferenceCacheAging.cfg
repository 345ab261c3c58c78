CONSTANTS
  d1 = d1
  t1 = t1
  t2 = t2
  m = m
  n = n
  x = x
  y = y
  NoProc = NoProc
  NoRef = NoRef
  NoDesc = NoDesc
  Proc = {p1, p2, p3}
  Ref = {d1}
  Digest = {d1}
  Namespace = {m}
  NS <- Repositories
  Desc = {x}
  Policies = {"IfNotPresent"}
  MaxEntries = 1
  RequestedTTL = 1
  DefaultTTL = 1
  MaxTime = 3
  MaxRestarts = 2
  Start <- Everything
SPECIFICATION Spec
INVARIANTS
  AgeBounded
PROPERTIES
  CallsReturn
