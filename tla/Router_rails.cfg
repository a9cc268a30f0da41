CONSTANTS
  c1 = c1
  c2 = c2
  g1 = g1
  g2 = g2
  s1 = s1
  s2 = s2
  s3 = s3
  v1 = v1
  v2 = v2
  Holes <- Fourteen
  Groups <- Board
  Rails <- TwoRails
  X <- AtX
  Y <- AtY
  Column <- InColumn
  Net <- FourNets
  Pins = {c1, c2, g1, g2, s1, s2, s3, v1, v2}
  Internal <- Switch
  Placements <- SomePlacements
  Documents <- SomeDocuments
  Drawn <- SomeWires
  Unplaced = Unplaced
  NoNet = NoNet
  NoResult = NoResult
  Ripups <- NoneOrTwo
  MaxCalls = 1
  MaxEdits = 0
SPECIFICATION Spec
INVARIANT RailsOwned
CHECK_DEADLOCK FALSE
