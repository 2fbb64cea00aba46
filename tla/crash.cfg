\* One process dies or loses its consumer, anywhere.
SPECIFICATION Spec
CONSTANTS
  Conv = {c1}
  MaxTurns = 2
  MaxUpdates = 1
  MaxOpens = 0
  MaxFaults = 1
  Intents = {"plan", "accept"}
  Faults = {"crash"}
  Patient = TRUE
  Leaves = FALSE
INVARIANTS
  AsksInOrder
PROPERTIES
  AcceptEventsAreKept
CHECK_DEADLOCK FALSE
