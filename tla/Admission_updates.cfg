SPECIFICATION FairSpec
CONSTANTS
  Names = {n1, n2}
  Requests <- SomeRequests
  Editable <- SomeComponents
  MaxEdits = 3
  MaxConfigs = 1
  MaxTampers = 1
  MaxFaults = 1
INVARIANT TypeOK
INVARIANT InstallsGuarded
INVARIANT FamiliesExclusive
PROPERTY DeletionEnds
PROPERTY Installs
CHECK_DEADLOCK FALSE
