SPECIFICATION SolveSpec
CONSTANTS
  Rows = 3
  Cols = 4
  DoubleSided = TRUE
  Footprint <- Registry
  EdgeMounted <- Connectors
  ByName <- Parts
  Listed <- Document
  FootprintId <- PartFootprint
  Nets <- NetOrder
  Net <- NetData
  Weight <- Weights
  InitialLayouts <- Layouts
  OptionSets <- OptionChoices
  PresetBudget <- Presets
  DefaultBudget <- Defaults
  Jobs <- JobChoices
  NoNet = NoNet
  NoRef = NoRef
  NoBest = NoBest
CHECK_DEADLOCK FALSE
INVARIANTS
  PerfTypeOK CandidatesDiffer RoutedMeansJoined WinnerNotWorse PerfStoppedInTime
