SPECIFICATION Spec
CONSTANTS
  Item = {i1, i2, i3, i4}
  Inner = {n1, n2, n3}
  Nil = Nil
  Cell <- Line
  Box <- FewPlaces
  Expand <- MCExpand
  Oversized <- MCOversized
  SameBody <- AllOneBody
  Searches = FALSE
  BodyAABB = TRUE
SYMMETRY Symmetry
INVARIANT IsValid
