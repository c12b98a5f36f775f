SPECIFICATION FairSpec
CONSTANTS
  Player = {ann, bob}
  Owner = ann
  Absent = Absent
  MaxLists = 1
  MaxMaps = 1
  MaxEdits = 1
  MaxRestarts = 1
INVARIANTS TypeOK QuietTableIsCurrent OnlyRefusalCrashes LocationNamesItsPlayer
PROPERTIES QuietTapSelectsShown ListsCatchUp
CHECK_DEADLOCK FALSE
