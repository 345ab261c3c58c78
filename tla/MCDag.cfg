CONSTANTS
  Key = {1, 2, 3, 4}
  MaxDeletions = 2
SPECIFICATION BoundedSpec
INVARIANTS
  Acyclic
  BookkeepingExact
  WalksAnswerEdges
CHECK_DEADLOCK FALSE
