SPECIFICATION FairSpec
CONSTANTS
  Device = {phone}
  MaxTaps = 2
  MaxScreens = 1
  MaxEdits = 1
  MaxRejects = 1
  MaxFaults = 2
  Patient = TRUE
INVARIANTS TypeOK InFlightInOrder CopiesAgree
PROPERTIES StoredFollowsSwitch Settles TapIsStored
CHECK_DEADLOCK FALSE
