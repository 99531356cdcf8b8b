\* Two super admins who each demote the other at the same time.
CONSTANTS
  ann = ann
  bob = bob
  eve = eve
  a = a
  b = b
  Users = {ann, bob}
  Categories = {a, b}
  Requests = {r1, r2}
  Founders = {ann, bob}
  Changes <- RoleChanges
SPECIFICATION Spec
INVARIANT ActiveSuperRemains
CHECK_DEADLOCK FALSE
