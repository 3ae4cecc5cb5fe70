SPECIFICATION Spec
CONSTANTS
  b1 = b1
  b2 = b2
  b3 = b3
  j1 = j1
  none = none
  Body <- Trio
  Joint = {j1}
  Members <- PairJoint
  Solid <- TrioContacts
  None = none
  MaxListed = 3
  Usage <- NoUse
INVARIANTS Consistent ContactsTracked ToldExactlyOnce LosersAreAwake
