SPECIFICATION Spec
CONSTANTS
  s1 = s1
  s2 = s2
  i1 = i1
  w1 = w1
  w2 = w2
  o1 = o1
  o2 = o2
  None = None
  Scopes = {s1}
  Items = {i1}
  Workers = {w1}
  Ops = {o1, o2}
  Kinds <- AllKinds
  Manual = TRUE
  MaxQueued = 1
  MaxFaults = 1
  InitialAgent <- FullOrNone
  InitialSnap <- FullOrNone
SYMMETRY Symmetry
CONSTRAINT Expected
INVARIANTS
  TypeOK
  AgreesUnlessExcused
CHECK_DEADLOCK FALSE
