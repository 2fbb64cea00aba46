\* An impatient user and every fault but a crash.
SPECIFICATION FairSpec
CONSTANTS
  Conv = {c1}
  MaxTurns = 2
  MaxUpdates = 1
  MaxOpens = 1
  MaxFaults = 1
  Intents = {"plan", "accept"}
  Faults = {"store", "broker", "confirm", "llm", "expiry"}
  Patient = FALSE
  Leaves = TRUE
INVARIANTS
  TypeOK
  KeyHasRow
  RepliedEndsInReply
  AsksInOrder
PROPERTIES
  EventsAreProcessed
CHECK_DEADLOCK FALSE
