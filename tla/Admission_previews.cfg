SPECIFICATION FairSpec
CONSTANTS
  Names = {n1}
  Requests <- PreviewRequests
  Editable <- SomeComponents
  MaxEdits = 1
  MaxConfigs = 0
  MaxTampers = 0
  MaxFaults = 0
PROPERTY PreviewsPruned
CHECK_DEADLOCK FALSE
