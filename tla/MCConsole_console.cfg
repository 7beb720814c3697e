SPECIFICATION ConsoleSpec
CONSTANTS
  a1 = a1
  i1 = i1
  i2 = i2
  r1 = r1
  u1 = u1
  p1 = p1
  p2 = p2
  b1 = b1
  None = None
  NoToken = NoToken
  Agents = {a1}
  Instances = {i1, i2}
  Requests = {r1}
  Kinds <- AllKinds
  Users = {u1}
  Limit = 2
  Concurrency = 1
  Budgets <- MCBudgets
  Publishers = {p1, p2}
  Browsers = {b1}
  Replay = 2
  Buffer = 1
  EvBudgets <- MCEvBudgets
  Processes = {i1, i2}
  Day = 3
  LockLife = 2
  Plans <- MCPlans
  Never = Never
  v1 = v1
  NoValue = NoValue
  Admins = {i1, i2}
  Credentials = {v1}
  Forms <- MCForms
  Saves <- MCSaves
  SettingFaults = 1
INVARIANTS
  SettledAgrees
  EventsShown
  OnTime
  NoneMissed
  ClearedStaysCleared
PROPERTIES
  BlankKeepsCredential
  HealthFollowsAgent
  CountConverges
CHECK_DEADLOCK FALSE
