SPECIFICATION Spec
CONSTANTS
  Item = {i1, i2, i3, i4, i5}
  Inner = {n1, n2, n3, n4}
  Nil = Nil
  Cell <- Line
  Box <- FewPlaces
  Expand <- MCExpand
  Oversized <- MCOversized
  SameBody <- AllOneBody
  Searches = TRUE
  BodyAABB = FALSE
SYMMETRY Symmetry
INVARIANTS Consistent
PROPERTY IsBroadphase
