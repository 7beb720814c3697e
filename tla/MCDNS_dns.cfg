SPECIFICATION DNSSpec
CONSTANTS
  h1 = h1
  h2 = h2
  a1 = a1
  a2 = a2
  c1 = c1
  o1 = o1
  o2 = o2
  None = None
  Hosts = {h1, h2}
  Addrs = {a1, a2}
  Aliases = {c1}
  Ops = {o1, o2}
  Scenarios <- MCWithQuiet
  Octets = {0, 1}
  ReverseZones <- MCReverseZones
  Names = {"@", "h"}
  Apex = "@"
  NameBudgets <- MCNameBudgets
  Concurrency = 2
  Blank = Blank
  Width = 3
  Hour = 2
  Day = 3
  Forms <- MCForms
SYMMETRY Symmetry
CONSTRAINT Expected
INVARIANTS
  AgreesUnlessExcused
  FlagsAgree
  NilMeansExact
  RowsAddressTheirRecord
  FlagsMeanPTR
  ScopeUsable
  PatchIsExact
CHECK_DEADLOCK FALSE
