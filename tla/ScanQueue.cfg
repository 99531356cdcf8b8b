\* Every fault, the closed connection too.
CONSTANTS
  s1 = s1
  s2 = s2
  s3 = s3
  Scans <- TwoScans
  NoScan = NoScan
  FetchSize = 2
  MaxAckPending = 2
  MaxDeliver = 2
  Faults = {"publish", "io", "lost", "timeout", "ack", "slow", "crash", "closed"}
SPECIFICATION FairSpec
PROPERTIES
  QueueDrains
  StoredIsRecorded
CHECK_DEADLOCK FALSE
