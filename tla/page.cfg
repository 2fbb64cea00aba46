\* Two conversations; four messages, navigations and failures; the gateway polls twice and gives up.
SPECIFICATION FairSpec
CONSTANTS
  Conv = {c1, c2}
  None = None
  MaxTurns = 3
  MaxActs = 4
  MaxPolls = 2
INVARIANTS
  PageTypeOK
  WaitIsCovered
  OneTurnAtATime
  AddresseeIsShown
  NothingShownTwice
  TurnsShowTheirOwn
PROPERTIES
  WaitEnds
CHECK_DEADLOCK FALSE
