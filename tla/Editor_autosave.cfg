CONSTANTS
  bread = bread
  perf = perf
  a = a
  b = b
  Projects <- TwoProjects
  Perfboards = {perf}
  Parts <- PartsOfTwo
  Spots = {1}
  Notes = {n1}
  o1 = o1
  OtherNotes <- SharedBread
  Home = bread
  NoDocument = NoDocument
  NoLayout = NoLayout
  NoSave = NoSave
  NoJob = NoJob
  STACK_CAP = 2
  Slots = {1, 2}
  MaxActs = 3
  FaultKinds = {"save", "load"}
SPECIFICATION FairSpec
INVARIANT TypeOK
INVARIANT ElsewhereKept
INVARIANT OwnDocumentSaved
INVARIANT NothingUnsavedWhenQuiet
PROPERTY ImplementsHistory
PROPERTY EditsSettle
CHECK_DEADLOCK FALSE
