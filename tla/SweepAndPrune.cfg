SPECIFICATION Spec
CONSTANTS
  Item = {1, 2, 3}
  None = None
  Box <- Boxes
  Expand <- MCExpand
  Oversized <- MCOversized
  Allowed <- AnyOther
  Hash <- SharedHash
  Strangers = TRUE
INVARIANTS Consistent PairsAreFound
PROPERTY IsBroadphase
