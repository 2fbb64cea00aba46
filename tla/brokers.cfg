\* A broker that fails twice; three attempts; room for a leaked connection per outage.
SPECIFICATION FairSpec
CONSTANTS
  Link = {l1, l2, l3, l4}
  Loop = {k1, k2}
  Task = {t1, t2}
  None = None
  MaxAttempts = 3
  MaxOutages = 2
INVARIANTS
  BrokerTypeOK
  NeverStranded
  LeaksAreStrayCloses
PROPERTIES
  MissingOnlyWhileOpening
  Recovers
CHECK_DEADLOCK FALSE
