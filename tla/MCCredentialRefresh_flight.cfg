SPECIFICATION RefreshSpec
CONSTANTS
  Absent = Absent
  Corrupt = Corrupt
  None = None
  p1 = p1
  k1 = k1
  k2 = k2
  scan = scan
  s1 = s1
  s2 = s2
  m1 = m1
  Files = {1}
  Tokens <- MCTokens
  Expirable = {k1}
  AccountOf <- MCAccountOf
  Tasks = {scan, s1, s2, m1}
  Requests = {}
  MaxRotation = 1
  Fixing = FALSE
  MaxGen = 2
  Jobs <- MCJobs
  Switches = {s1, s2}
  ModeUpdates = {m1}
  Pending = {p1}
  Switchable = {p1, k1, k2}
  Refreshable = {p1, k1}
  MaxAttempts = 2
INVARIANTS RefreshTypeOK SingleFlight CrashKeepsMark OnlyDisplacedEscape
CHECK_DEADLOCK FALSE
PROPERTY Spec
SYMMETRY Symmetry
