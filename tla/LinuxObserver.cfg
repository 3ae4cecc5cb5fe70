SPECIFICATION Spec
CONSTANTS
  p1 = p1  p2 = p2  p3 = p3  launcher = launcher  java = java  core = core  None = None
  Proc = {p1, p2, p3}
  Root = p1
  Image = {launcher, java, core}
  Initial = launcher
  Build = java
  Scenario <- Scenarios
INVARIANTS Sound Consistent NoSurvivor OrderNeverFails TerminalRowsFit
PROPERTY Terminates
