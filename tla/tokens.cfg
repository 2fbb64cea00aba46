\* Three callers over more than two lifetimes, with each implementation.
SPECIFICATION TokenFairSpec
CONSTANTS
  Callers = {a, b, c}
  Lifetime = 4
  Buffer = 2
  Delay = 2
  MaxTime = 9
INVARIANTS
  TokenTypeOK
  CachedTokensAreLive
PROPERTIES
  TermIsUsed
  CallersReturn
CHECK_DEADLOCK FALSE
