SPECIFICATION Spec
CONSTANTS
  Device = {phone}
  MaxTaps = 2
  MaxScreens = 1
  MaxEdits = 0
  MaxRejects = 0
  MaxFaults = 0
  Patient = FALSE
INVARIANTS SettledAgrees
CHECK_DEADLOCK FALSE
