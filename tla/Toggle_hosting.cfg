SPECIFICATION FairSpec
CONSTANTS
  Managed <- HostingCharts
  Specs <- HostingSpecs
  Editable <- HostingEdits
  Batches <- AllTogether
  KindsFirst = FALSE
  Broken = {}
  FaultKinds = {"iec", "apply", "delete"}
  MaxEdits = 2
  MaxFaults = 1
INVARIANT TypeOK
INVARIANT ManagerOutlivesAddon
PROPERTY Converges
PROPERTY ReturnsToAvailable
