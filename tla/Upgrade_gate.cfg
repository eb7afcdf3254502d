SPECIFICATION FairSpec
CONSTANTS
  Pods = {p1, p2}
  Deployments = {d1}
  MaxVersion = 3
  Minor <- EachMinor
  OLMs = {"v0", "v1"}
  MaxInstalls = 1
  MaxFaults = 1
INVARIANT TypeOK
INVARIANT NoMinorSkipped
PROPERTY UpgradeSettles
CHECK_DEADLOCK FALSE
