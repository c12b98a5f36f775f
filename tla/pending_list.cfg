SPECIFICATION FairSpec
CONSTANTS
  Sender = {ann, bob}
  NoSender = NoSender
  MaxRequests = 3
  MaxEdits = 1
  MaxRestarts = 1
INVARIANTS TypeOK InFlightInOrder SettledListIsComplete
PROPERTIES OnlyOldListenersForget EveryRequestIsListed
CHECK_DEADLOCK FALSE
