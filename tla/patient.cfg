\* Two users who let every request finish; fair processes; an LLM call may fail.
SPECIFICATION FairSpec
CONSTANTS
  Conv = {c1, c2}
  MaxTurns = 2
  MaxUpdates = 1
  MaxOpens = 1
  MaxFaults = 1
  Intents = {"undefined", "refine"}
  Faults = {"llm"}
  Patient = TRUE
  Leaves = FALSE
INVARIANTS
  FullTranscript
PROPERTIES
  KeepsFairPromise
  TurnsAreAnswered
CHECK_DEADLOCK FALSE
