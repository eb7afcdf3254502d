SPECIFICATION FairSpec
CONSTANTS
  Managed <- RefusedAndConsole
  Specs <- ConsoleSpecs
  Editable <- RefusedAndConsole
  Batches <- OneByOne
  KindsFirst = TRUE
  Broken <- RefusedCharts
  FaultKinds = {"condition", "iec", "render", "apply", "delete", "console"}
  MaxEdits = 2
  MaxFaults = 2
INVARIANT PluginServed
PROPERTY Converges
PROPERTY FailureReported
PROPERTY AvailableMeansRunning
PROPERTY ReturnsToAvailable
