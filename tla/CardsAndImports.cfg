\* Two imports under a worker and storage that do not fail; two requests
\* about three cards, and an export.
CONSTANTS
  j1 = j1
  j2 = j2
  Jobs <- TwoJobs
  NoJob = NoJob
  MaxRows = 3
  BatchSize = 2
  MaxDeliver = 3
  Faults <- PublishFaults
  r1 = r1
  r2 = r2
  x = x
  y = y
  gold = gold
  plain = plain
  ann = ann
  Cards = {1, 2, 3}
  Categories = {x, y}
  Templates = {gold, plain}
  DefaultTemplate = plain
  NoTemplate = NoTemplate
  Admins = {ann}
  Super = Super
  Nobody = Nobody
  Unset = Unset
  Patches <- SomePatches
  CardSlots <- TwoSlots
  FirstCards <- SomeCards
  FirstGrants <- SomeGrants
  FirstLayouts <- SomeLayouts
  Moments = {0, 1, 2}
  PageSize = 1
  MaxAsked = 2
  MaxRegrants = 1
SPECIFICATION CardsSpec
INVARIANTS
  RunningIsHeld
  ExportFaithful
PROPERTIES
  PublishedImportEnds
  RightsHonoured
  NoCardOrphaned
CHECK_DEADLOCK FALSE
