SPECIFICATION Spec
CONSTANTS
  i1 = i1
  i2 = i2
  z1 = z1
  r1 = r1
  c1 = c1
  o1 = o1
  o2 = o2
  o3 = o3
  f1 = f1
  f2 = f2
  NoToken = NoToken
  Instances = {i1}
  Zones = {z1, r1}
  Scopes = {}
  Reverse <- MCReverse
  Ops = {o1, o2}
  Fires = {f1, f2}
  MaxQueued = 1
  RedisFails = FALSE
SYMMETRY Symmetry
INVARIANTS
  TypeOK
  DirtyIsScheduled
  ActiveCounts
PROPERTIES
  FireWaitsForOperations
