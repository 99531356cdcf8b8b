\* Nothing fails, and a cancelled job is marked SUCCEEDED nevertheless.
CONSTANTS
  j1 = j1
  j2 = j2
  Jobs <- OneJob
  NoJob = NoJob
  MaxRows = 1
  BatchSize = 1
  MaxDeliver = 3
  Faults = {}
SPECIFICATION FairSpec
PROPERTY CancelledNotMarkedSucceeded
CHECK_DEADLOCK FALSE
