SPECIFICATION FairSpec
CONSTANTS
  Managed <- Charts
  Specs <- AllOrNothing
  Editable = {}
  Batches <- AllTogether
  KindsFirst = FALSE
  Broken = {}
  FaultKinds = {}
  MaxEdits = 0
  MaxFaults = 0
PROPERTY Converges
