SPECIFICATION Spec
CONSTANTS
  Calls = {a1, a2}
  Orgs = {o1}
  Connections = {k1}
  NoOrg = NoOrg
  NoConnection = NoConnection
  MaxFailures = 0
INVARIANTS
  StoredIsEnqueued
CHECK_DEADLOCK FALSE
