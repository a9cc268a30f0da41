SPECIFICATION SolveSpec
CONSTANTS
  Holes <- Board
  RailHoles <- Rail
  Groups <- Strips
  RailLine <- Line
  Disabled = {}
  RowY <- BoardRowY
  Gap <- BoardGap
  NearEdge <- AtEdge
  Footprint <- Registry
  ByName <- Parts
  Listed <- Document
  FootprintId <- PartFootprint
  PartPins <- PinsOfParts
  JoinedPins <- PinsJoined
  Nets <- NetOrder
  Net <- NetData
  Weight <- Weights
  AllowCritical = TRUE
  OwnPinCounts = FALSE
  InitialLayouts <- Layouts
  OptionSets <- OptionChoices
  Jobs <- JobChoices
  WireCost = 57
  UnroutedCost = 50000
  NoNet = NoNet
  NoRef = NoRef
  NoBest = NoBest
CHECK_DEADLOCK FALSE
INVARIANTS
  SolveTypeOK EveryPartAccounted LoneLockedStay
  CleanMeansBuilt StoppedInTime OptimizeKeepsLocked
PROPERTY OnlyClusterMovesBreak
