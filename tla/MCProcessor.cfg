CONSTANTS
  Key = {1, 2, 3, 4}
  NoNode = NoNode
  Limit = 2
  MayFail = {1, 3}
  Graphs <- AllGraphs
SPECIFICATION Spec
INVARIANTS
  DoneHasRoom
  ErrorTellsCause
  OneLateStart
PROPERTIES
  Implements
  Terminates
