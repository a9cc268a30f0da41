CONSTANTS
  j1 = j1
  j2 = j2
  t1 = t1
  t2 = t2
  Jobs <- TwoJobs
  Targets = {t1}
  Target <- SharedTarget
  NoJob = NoJob
  Interactive = {}
  LayoutJobs <- TwoJobs
  Cancels = {}
  MaxTries = 3
  MaxJobs = 2
  MaxBuffer = 0
  FaultKinds = {}
  MaxFaults = 0
SPECIFICATION FairSpec
PROPERTY EnqueuedJobFinishes
CHECK_DEADLOCK FALSE
