SPECIFICATION Spec
CONSTANTS
  Player = {ann, bob}
  MaxSends = 1
  MaxEdits = 0
  MaxRejects = 1
  MaxFaults = 2
SYMMETRY PlayerSymmetry
INVARIANTS TypeOK PendingHasRequest SuccessIsStored FailureIsFinal InFlightInOrder
PROPERTIES NobodyVanishes ImplementsBoard
CHECK_DEADLOCK FALSE
