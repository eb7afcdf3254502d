SPECIFICATION StuckSpec
CONSTANTS
  Components = {}
  Footprint <- WholeHub
  Leftovers = {}
  MaxInstalls = 1
  MaxFaults = 0
  MaxOverdue = 2
PROPERTY StallsReported
CHECK_DEADLOCK FALSE
