\* A stop whose read and delete a continue gets between.
SPECIFICATION Spec
CONSTANTS
  Conv = {c1}
  MaxTurns = 2
  MaxUpdates = 1
  MaxOpens = 0
  MaxFaults = 0
  Intents = {"plan"}
  Faults = {}
  Patient = FALSE
  Leaves = FALSE
PROPERTIES
  StopPersistsAll
CHECK_DEADLOCK FALSE
