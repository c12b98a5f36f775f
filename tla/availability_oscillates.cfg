SPECIFICATION FairSpec
CONSTANTS
  Device = {phone}
  MaxTaps = 2
  MaxScreens = 1
  MaxEdits = 1
  MaxRejects = 0
  MaxFaults = 0
  Patient = FALSE
PROPERTIES Settles
CHECK_DEADLOCK FALSE
