\* Two scopes over more than two windows; two addresses, blocks that end;
\* every fault, two deliveries of each of three scans, two in flight at a time.
CONSTANTS
  scan = scan
  feedback = feedback
  Keys <- ScopeKeys
  Limit <- ScopeLimit
  Window <- ScopeWindow
  MaxAge = 3
  MaxLag = 1
  MaxTime = 8
  Ips = {ip1, ip2}
  Slots = {r1, r2}
  Threshold = 2
  BurstWindow = 1
  Block = 2
  MaxMisses = 3
  BurstEnd = 5
  s1 = s1
  s2 = s2
  s3 = s3
  Scans <- ThreeScans
  NoScan = NoScan
  FetchSize = 2
  MaxAckPending = 2
  MaxDeliver = 2
  Faults = {"publish", "io", "lost", "timeout", "ack", "slow", "crash", "closed"}
SYMMETRY Symmetry
SPECIFICATION PublicSpec
INVARIANTS
  WindowBound
  BurstsAnswered
  CountsExplained
PROPERTIES
  RefusalJustified
  BlocksAreFair
  ImplementsLedger
CHECK_DEADLOCK FALSE
