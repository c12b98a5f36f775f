SPECIFICATION Spec
CONSTANTS
  Player = {ann, bob}
  Owner = ann
  Absent = Absent
  MaxLists = 1
  MaxMaps = 0
  MaxEdits = 0
  MaxRestarts = 0
PROPERTIES TapSelectsShown
CHECK_DEADLOCK FALSE
