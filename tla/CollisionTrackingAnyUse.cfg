SPECIFICATION Spec
CONSTANTS
  b1 = b1
  b2 = b2
  i1 = i1
  i2 = i2
  i3 = i3
  Body = {b1, b2}
  Item = {i1, i2, i3}
  BodyOf <- MCBodyOf
  Cell <- MCCell
  Box <- MCNarrow
  Expand <- MCExpand
  Oversized <- MCOversized
  Bounds <- MCBounds
  Bounded = TRUE
  Usage = {"addInCallback", "switchTracking", "bodyAABB"}
SYMMETRY MCSymmetry
INVARIANTS
  LeavesMatchMembership
  ContactsAreTracked
