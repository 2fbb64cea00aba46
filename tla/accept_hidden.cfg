\* The ticket-agent answers, then the architect-agent saves over it.
SPECIFICATION Spec
CONSTANTS
  Conv = {c1}
  MaxTurns = 2
  MaxUpdates = 1
  MaxOpens = 0
  MaxFaults = 0
  Intents = {"plan", "accept"}
  Faults = {}
  Patient = TRUE
  Leaves = FALSE
INVARIANTS
  AcceptOfPlanIsAnswered
CHECK_DEADLOCK FALSE
