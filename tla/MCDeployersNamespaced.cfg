CONSTANTS
  d = d
  e = e
  a = a
  b = b
  c = c
  Cluster = Cluster
  Deployer = {d}
  Namespaced = TRUE
  Policies = {"Orphan", "Delete"}
  Home <- AtHome
  Object = {a, b, c}
  GK <- KindOf
  NS <- PlaceOf
  Manifests <- Single
  Lingering = {b}
  Warm = {a, b}
  Upsets = {"manifest", "delete", "suspend", "fault", "account", "namespace", "restart"}
  MaxUpsets = 3
SPECIFICATION Spec
CHECK_DEADLOCK FALSE
INVARIANTS
  ScopeCoversMembers
  GoneLeavesNothing
  OrphansSurvive
PROPERTIES
  DeletionEnds
