CONSTANTS
  j1 = j1
  j2 = j2
  t1 = t1
  t2 = t2
  Jobs = {j1}
  Targets = {t1}
  Target <- AloneTarget
  NoJob = NoJob
  Interactive = {j1}
  LayoutJobs = {j1}
  Cancels = {j1}
  MaxTries = 3
  MaxJobs = 1
  MaxBuffer = 2
  FaultKinds = {"enqueue", "api", "db", "redis", "stall", "interrupt", "crash", "delete"}
  MaxFaults = 3
SPECIFICATION FairSpec
INVARIANT TypeOK
INVARIANT SucceededNamesNewestLayout
INVARIANT CancelledWasAsked
PROPERTY OnlyApiReopens
PROPERTY ImplementsLifecycle
PROPERTY EnqueuedJobFinishes
CHECK_DEADLOCK FALSE
