SPECIFICATION Spec
CONSTANTS
  t1 = t1  t2 = t2  t3 = t3  None = None
  Tid = {t1, t2, t3}
  Root = t1
  Scenario <- Scenarios
INVARIANTS HoldIsStill Consistent NoSpuriousFailure StopLeavesNobody
PROPERTY Ends
