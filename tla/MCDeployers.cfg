CONSTANTS
  d = d
  e = e
  a = a
  b = b
  c = c
  Cluster = Cluster
  Deployer = {d, e}
  Namespaced = FALSE
  Policies = {"Delete"}
  Home <- AtHome
  Object = {a, b}
  GK <- KindOf
  NS <- PlaceOf
  Manifests <- Handover
  Lingering = {b}
  Warm = {a, b}
  Upsets = {"manifest", "delete", "fault", "drift"}
  MaxUpsets = 2
SPECIFICATION Spec
CHECK_DEADLOCK FALSE
PROPERTIES
  Converges
