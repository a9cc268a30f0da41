CONSTANTS
  e1 = e1
  e2 = e2
  Exports <- TwoExports
  None = None
  MaxTries = 2
  MaxEdits = 1
  FaultKinds = {"enqueue", "db", "s3", "crash", "timeout", "shutdown", "delete"}
  MaxFaults = 1
SPECIFICATION FairSpec
INVARIANT TypeOK
INVARIANT SucceededHasObject
INVARIANT ChecksumMatchesObject
INVARIANT BrokenDownloadExpired
PROPERTY ExportSettles
PROPERTY ExpiredArePurged
CHECK_DEADLOCK FALSE
