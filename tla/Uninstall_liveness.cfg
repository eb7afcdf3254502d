SPECIFICATION FairSpec
CONSTANTS
  Components = {c1}
  Footprint <- ConsoleHub
  Leftovers <- Maestro
  MaxInstalls = 1
  MaxFaults = 1
  MaxOverdue = 0
PROPERTY DeletionCompletes
CHECK_DEADLOCK FALSE
