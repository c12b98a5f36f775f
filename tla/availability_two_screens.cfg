SPECIFICATION Spec
CONSTANTS
  Device = {phone}
  MaxTaps = 2
  MaxScreens = 2
  MaxEdits = 0
  MaxRejects = 0
  MaxFaults = 0
  Patient = TRUE
PROPERTIES StoredFollowsSwitch
CHECK_DEADLOCK FALSE
