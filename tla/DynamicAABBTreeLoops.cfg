SPECIFICATION Spec
CONSTANTS
  Item = {i1, i2, i3, i4}
  Inner = {n1, n2, n3}
  Nil = Nil
  Cell <- Line
  Box <- OnePlace
  Expand <- MCExpand
  Oversized <- MCOversized
  SameBody <- AllOneBody
  Searches = TRUE
  BodyAABB = TRUE
INVARIANTS Linked
PROPERTIES LoopsEnd
