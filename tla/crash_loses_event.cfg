\* The architect-agent dies after its ack.
SPECIFICATION Spec
CONSTANTS
  Conv = {c1}
  MaxTurns = 2
  MaxUpdates = 1
  MaxOpens = 0
  MaxFaults = 1
  Intents = {"plan"}
  Faults = {"crash"}
  Patient = TRUE
  Leaves = FALSE
INVARIANTS
  NoEventIsLost
CHECK_DEADLOCK FALSE
