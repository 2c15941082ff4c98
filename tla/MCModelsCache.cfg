SPECIFICATION FairSpec
CONSTANTS
  Absent = Absent
  None = None
  c1 = c1
  c2 = c2
  q1 = q1
  q2 = q2
  Files = {1, 2}
  Tokens = {k1, k2}
  Fetches = {q1, q2}
  Callers = {c1, c2}
INVARIANTS CacheCurrent JoinsCurrent
PROPERTY Answered
CHECK_DEADLOCK FALSE
