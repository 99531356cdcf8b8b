\* Three requests of two super admins about three accounts; two
\* accounts on the page, with three requests of its dialogs.
CONSTANTS
  ann = ann
  bob = bob
  eve = eve
  a = a
  b = b
  Users = {ann, bob, eve}
  Categories = {a, b}
  Requests = {r1, r2, r3}
  Founders = {ann, bob}
  Changes <- RoleChanges
  Accounts = {u1, u2}
  Staff = {u1}
  MaxSaves = 3
SYMMETRY Symmetry
SPECIFICATION AdminsSpec
INVARIANTS
  DeletionTraced
  GroupsOfOneRequest
  RightsAsReported
PROPERTIES
  SuperLostOnlyByRace
CHECK_DEADLOCK FALSE
