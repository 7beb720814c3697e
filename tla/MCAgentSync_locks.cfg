SPECIFICATION Spec
CONSTANTS
  s1 = s1
  s2 = s2
  p1 = p1
  t1 = t1
  t2 = t2
  t3 = t3
  i1 = i1
  i2 = i2
  NoToken = NoToken
  Servers = {s1, s2}
  Role <- MCRole
  Parts = {p1}
  Owner <- MCOwner
  Tasks = {t1, t2}
  Instances = {i1, i2}
  SyncConcurrency = 1
  Requested <- AllJobs
  Scheduled = {"dns"}
  RedisFails = FALSE
  DBFails = FALSE
SYMMETRY Symmetry
INVARIANTS
  TypeOK
  AgentExclusive
  MarkCoversSync
  TargetExclusive
PROPERTIES
  TaskLifecycle
