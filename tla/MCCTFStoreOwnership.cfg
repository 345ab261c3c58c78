CONSTANTS
  A = A
  B = B
  p1 = p1
  p2 = p2
  img = img
  sig = sig
  ownA = ownA
  ownB = ownB
  a1 = a1
  a2 = a2
  a3 = a3
  b1 = b1
  b2 = b2
  ix = ix
  la = la
  lb = lb
  latest = latest
  Repo = {A, B}
  Process = {p1}
  Manifest <- MCManifest
  Subject <- MCSubject
  NoSubject = NoSubject
  Layers <- MCLayers
  Versions <- MCVersions
  VersionOf <- MCVersionOf
  Locals <- MCLocals
  Images = {img}
  Attached <- MCAttached
  Ownership <- MCOwnership
  Index = ix
  Alias = {latest}
  MaxCalls = 2
  MaxFaults = 0
SPECIFICATION Spec
SYMMETRY Processes
CHECK_DEADLOCK FALSE
INVARIANT
  OwnershipAttached
