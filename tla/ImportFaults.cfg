\* One job with every fault: crashes, timeouts, redeliveries, lost answers.
CONSTANTS
  j1 = j1
  j2 = j2
  Jobs <- OneJob
  NoJob = NoJob
  MaxRows = 5
  BatchSize = 2
  MaxDeliver = 3
  Faults <- AllFaults
SPECIFICATION FairSpec
INVARIANTS
  RowsTriedOnce
  CountersAreTrue
  CancelHonoured
PROPERTIES
  ShownStays
  QueueDrains
CHECK_DEADLOCK FALSE
