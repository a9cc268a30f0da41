CONSTANTS
  j1 = j1
  j2 = j2
  t1 = t1
  t2 = t2
  Jobs <- TwoJobs
  Targets = {t1}
  Target <- SharedTarget
  NoJob = NoJob
  Interactive = {}
  LayoutJobs <- TwoJobs
  Cancels = {}
  MaxTries = 2
  MaxJobs = 2
  MaxBuffer = 1
  FaultKinds = {"redis", "stall", "interrupt", "crash", "db"}
  MaxFaults = 2
SPECIFICATION Spec
INVARIANT LockExclusion
SYMMETRY JobSymmetry
CHECK_DEADLOCK FALSE
