SPECIFICATION Spec
CONSTANTS
  h1 = h1
  h2 = h2
  a1 = a1
  a2 = a2
  c1 = c1
  o1 = o1
  o2 = o2
  None = None
  Hosts = {h1, h2}
  Addrs = {a1, a2}
  Aliases = {c1}
  Ops = {o1, o2}
  Scenarios <- MCTwoAddresses
  Concurrency = 2
PROPERTIES
  RemovesWhatItNames
CHECK_DEADLOCK FALSE
