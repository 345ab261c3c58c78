CONSTANTS
  d1 = d1
  t1 = t1
  t2 = t2
  m = m
  n = n
  x = x
  y = y
  NoProc = NoProc
  NoRef = NoRef
  NoDesc = NoDesc
  Proc = {p1, p2}
  Ref = {d1, t2}
  Digest = {d1}
  Namespace = {m, n}
  NS <- Repositories
  Desc = {x}
  Policies = {"IfNotPresent", "Always"}
  MaxEntries = 1
  RequestedTTL = 1
  DefaultTTL = 1
  MaxTime = 0
  MaxRestarts = 1
  Start <- Everything
SPECIFICATION Spec
INVARIANTS
  TypeOK
  SnapshotCurrent
  NoNeedlessRoundTrip
  UntagForgets
  TagsComeFromRegistry
  AnswersCurrent
