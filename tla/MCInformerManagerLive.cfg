CONSTANTS
  d = d
  e = e
  c1 = c1
  c2 = c2
  g1 = g1
  g2 = g2
  Deployer = {d}
  Worker = {w1, w2}
  Child = {c1}
  GVK = {g1}
  Kind <- Shared
  Deploys <- All
  Deleted = {d}
  BufferSize = 1
  MaxFailures = 1
  MaxHandlers = 2
SPECIFICATION Spec
CHECK_DEADLOCK FALSE
INVARIANTS
  TypeOK
  ReadyMeansWatched
PROPERTIES
  DeletionCompletes
  BecomesReady
