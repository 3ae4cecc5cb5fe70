SPECIFICATION Spec
CONSTANTS
  b1 = b1
  b2 = b2
  b3 = b3
  b4 = b4
  e12 = e12
  e23 = e23
  e34 = e34
  e24 = e24
  None = None
  Body <- Bodies
  Contact <- Contacts
  Joint <- Joints
  Ends <- Connects
  MayBeInfinite <- InfiniteBodies
  MayBeDisabled <- DisabledBodies
  MayBeRestless <- RestlessBodies
INVARIANTS TypeOK NothingTwice IslandsExact RestIsShared
PROPERTIES SolveEnds
