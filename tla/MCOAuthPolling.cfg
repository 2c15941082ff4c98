SPECIFICATION TabSpec
CONSTANTS
  None = None
  Users = {u1, u2}
  States = {s1, s2}
  Calls = {1, 2}
  TabUser = u1
  Starters = {u1}
  MaxActive = 1
  MaxAttempts = 1
  Ttl = 1
  Window = 1
INVARIANTS LimitsHold OnePollAtATime
PROPERTIES LoginEndsOnce AnswersAreOwn
SYMMETRY Symmetry
CHECK_DEADLOCK FALSE
