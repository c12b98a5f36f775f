SPECIFICATION Spec
CONSTANTS
  Sender = {ann, bob}
  NoSender = NoSender
  MaxRequests = 2
  MaxEdits = 1
  MaxRestarts = 0
INVARIANTS ListIsComplete
CHECK_DEADLOCK FALSE
