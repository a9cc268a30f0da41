CONSTANTS
  w1 = w1
  w2 = w2
  r1 = r1
  r2 = r2
  r3 = r3
  k1 = k1
  Writers <- TwoWriters
  Requests <- ThreeRequests
  JobRequests <- TwoJobRequests
  Key <- RetriedKey
  NoKey = NoKey
  NoDraft = NoDraft
  NoRequest = NoRequest
  MaxSaves = 1
  FaultKinds = {"response", "enqueue", "crash", "delete"}
  MaxFaults = 1
SPECIFICATION FairSpec
INVARIANT TypeOK
INVARIANT AckedEditsKept
INVARIANT RevisionCoversAcked
INVARIANT AnsweredJobQueued
PROPERTY RequestsEnd
CHECK_DEADLOCK FALSE
