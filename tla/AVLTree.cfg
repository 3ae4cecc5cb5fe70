SPECIFICATION TreeSpec
CONSTANTS
  Key = {1, 2, 3, 4, 5, 6, 7}
  Nil = Nil
  Diff <- Exact
INVARIANTS TreeConsistent IterationIsExact
PROPERTY OperationsEnd
