SPECIFICATION Spec
CONSTANTS
  None = None
  Creds = {k1}
  Manual = {m1, m2}
  OAuth = {a1, a2}
  Requests = {r1}
  Tasks = {p1, p2}
  MaxConcurrency = 2
  MaxInvalidations = 2
  MaxGen = 1
INVARIANTS CachedForPresent UsageDeducted DeductedWhereCharged SingleFlight OnlyEvictedOutlive
SYMMETRY Symmetry
CHECK_DEADLOCK FALSE
