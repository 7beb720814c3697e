SPECIFICATION Spec
CONSTANTS
  s1 = s1
  s2 = s2
  p1 = p1
  t1 = t1
  t2 = t2
  t3 = t3
  i1 = i1
  i2 = i2
  NoToken = NoToken
  Servers = {s1}
  Role <- MCRole
  Parts = {}
  Owner <- MCOwner
  Tasks = {t1, t2}
  Instances = {i1}
  SyncConcurrency = 1
  Requested <- SingleOnly
  Scheduled = {"dns"}
  RedisFails = TRUE
  DBFails = FALSE
SYMMETRY TaskSymmetry
INVARIANTS
  AgentExclusive
  EventFollowsState
