CONSTANTS
  p = p
  q = q
  r = r
  x = x
  y = y
  Component = {p, q, r, x, y}
  Specs <- Specifications
  Published <- Outside
  Local <- Resources
  Policies = {"replace", "fail", "skip"}
  Others <- Foreign
  MaxCalls = 3
  MaxOthers = 1
SPECIFICATION Spec
CHECK_DEADLOCK FALSE
INVARIANTS
  TargetClosed
  DigestsMatch
  OkMeansAdded
PROPERTIES
  OnlyUnseenOverwritten
  CallReturns
