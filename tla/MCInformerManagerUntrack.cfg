CONSTANTS
  d = d
  e = e
  c1 = c1
  c2 = c2
  g1 = g1
  g2 = g2
  Deployer = {d, e}
  Worker = {w1}
  Child = {c1, c2}
  GVK = {g1, g2}
  Kind <- Apart
  Deploys <- OneEach
  Deleted = {d}
  BufferSize = 1
  MaxFailures = 0
  MaxHandlers = 3
SPECIFICATION Spec
CHECK_DEADLOCK FALSE
INVARIANTS
  ReadyMeansWatched
