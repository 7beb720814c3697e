SPECIFICATION AccountsSpec
CONSTANTS
  u1 = u1
  u2 = u2
  p1 = p1
  p2 = p2
  q1 = q1
  q2 = q2
  s1 = s1
  t1 = t1
  w1 = w1
  w2 = w2
  c1 = c1
  c2 = c2
  k1 = k1
  None = None
  Nobody = Nobody
  Unlimited = Unlimited
  Users = {u1}
  Admin = u2
  Passwords = {p1, p2}
  Requests = {q1, q2}
  Sids = {s1}
  Tokens = {t1}
  MaxFailures = 2
  RateLimit = 1
  Budgets <- MCBudgets
  People = {u1, u2}
  Wecoms = {w1, w2}
  Calls = {c1, c2}
  Tickets = {k1}
  WcBudgets <- MCWcBudgets
  r1 = r1
  r2 = r2
  g1 = g1
  Absent = Absent
  Gone = Gone
  Staff = {u1, u2}
  Root = u1
  CustomRoles = {r1, r2}
  CustomKeys = {k1}
  Groups = {g1}
  Commands = {c1, c2}
  Choices <- MCChoices
  Works <- MCWorks
SYMMETRY Symmetry
INVARIANTS
  TriesBounded
  ResetOnce
  ResetLogsOut
  BindingsSound
  TicketOnce
  EditsSettle
CHECK_DEADLOCK FALSE
