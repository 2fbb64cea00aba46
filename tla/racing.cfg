\* The next message races the stop of the turn before; a key may expire.
SPECIFICATION Spec
CONSTANTS
  Conv = {c1}
  MaxTurns = 3
  MaxUpdates = 1
  MaxOpens = 0
  MaxFaults = 1
  Intents = {"plan", "accept"}
  Faults = {"expiry"}
  Patient = FALSE
  Leaves = FALSE
INVARIANTS
  OneReplyPerTurn
  EpicsWereShown
  TurnsStayTogether
PROPERTIES
  KeepsPromise
  NoSetGoesBack
CHECK_DEADLOCK FALSE
