SPECIFICATION Spec
CONSTANTS
  Components = {c1}
  Footprint <- SelfManagedHub
  Leftovers <- Kinds
  MaxInstalls = 2
  MaxFaults = 1
  MaxOverdue = 0
INVARIANT TypeOK
INVARIANT FinalizerGuards
PROPERTY TeardownInOrder
CHECK_DEADLOCK FALSE
