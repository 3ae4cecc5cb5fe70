SPECIFICATION Spec
CONSTANTS
  p1 = p1  p2 = p2  p3 = p3  None = None
  Pid = {p1, p2, p3}
  Root = p1
  Scenario <- Scenarios
INVARIANTS CompleteMeansGone TouchesOwnOnly
PROPERTY Ends
