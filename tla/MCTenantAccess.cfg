SPECIFICATION Spec
CONSTANTS
  Users = {u1, u2}
  Owner = u1
  Roles = {"administrator", "viewer"}
  Statuses = {"active", "suspended"}
  ScopeSets <- OneScopeSet
  MaxKeys = 2
  Requests = {q1, q2}
  MaxRequests = 4
  MaxFaults = 1
  u1 = u1
  u2 = u2
  q1 = q1
  q2 = q2
SYMMETRY Symmetry
INVARIANTS
  AuditTellsTheRole
  NoWaitCycle
PROPERTIES
  SomebodyManages
  RevocationIsFinal
CHECK_DEADLOCK FALSE
