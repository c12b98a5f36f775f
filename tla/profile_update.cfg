SPECIFICATION FairSpec
CONSTANTS
  MaxUpdates = 2
  MaxEdits = 1
  MaxRejects = 1
  MaxFaults = 2
  MaxBacklog = 2
INVARIANTS TypeOK InFlightInOrder QuietProfileIsOurs QuietScreenIsCurrent
PROPERTIES NeverBackForGood PromisedIsStored
CHECK_DEADLOCK FALSE
