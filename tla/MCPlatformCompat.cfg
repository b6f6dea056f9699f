SPECIFICATION FairSpec
CONSTANTS
  DevIds = {1}
  DrvIds = {1}
  n1 = n1
  n2 = n2
  Names = {n1, n2}
  s1 = s1
  s2 = s2
  Settings = {s1, s2}
  Absent = Absent
  None = None
  UniqueIds = TRUE
  c1 = c1
  c2 = c2
  Clients = {c1}
  r1 = r1
  r2 = r2
  Drivers = {r1}
  NameOf <- MCNameOf
  Matches <- MCMatches
  Endless <- MCAlternatives
  UserOps = {"create", "bind"}
  MaxCalls = 2
PROPERTY CallsReturn
CHECK_DEADLOCK FALSE
