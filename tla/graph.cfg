\* Up to twelve nodes: each loop can reject several times.
SPECIFICATION GraphFairSpec
CONSTANTS
  Remarks = {m1, m2}
  HasPlan = TRUE
  Limit = 12
INVARIANTS
  GraphTypeOK
  OnlyApprovedReplies
  CommentsAreCurrent
PROPERTIES
  RunEnds
  IsUpdateStream
CHECK_DEADLOCK FALSE
