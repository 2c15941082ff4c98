SPECIFICATION FairSpec
CONSTANTS
  None = None
  a1 = a1
  a2 = a2
  x1 = x1
  x2 = x2
  Creds = {1}
  Accounts = {a1}
  Manuals = {m1, m2}
  Jobs <- MCJobs
  ForwardsWakeup = FALSE
PROPERTY ShutdownEnds
CHECK_DEADLOCK FALSE
