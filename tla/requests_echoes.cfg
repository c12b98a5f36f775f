SPECIFICATION FairSpec
CONSTANTS
  Player = {ann}
  MaxSends = 2
  MaxEdits = 1
  MaxRejects = 2
  MaxFaults = 2
PROPERTIES EchoReachesReceiver EchoesSettle
CHECK_DEADLOCK FALSE
