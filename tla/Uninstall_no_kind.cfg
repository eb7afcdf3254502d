SPECIFICATION FairSpec
CONSTANTS
  Components = {c1}
  Footprint <- JustComponents
  Leftovers = {}
  MaxInstalls = 1
  MaxFaults = 0
  MaxOverdue = 0
PROPERTY DeletionCompletesWithoutKind
CHECK_DEADLOCK FALSE
