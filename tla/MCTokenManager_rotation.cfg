SPECIFICATION FairSpec
CONSTANTS
  Absent = Absent
  Corrupt = Corrupt
  None = None
  k1 = k1
  k2 = k2
  k3 = k3
  Files = {1, 2}
  Tokens <- MCTwoTokens
  Expirable = {k1}
  AccountOf <- MCAccountOf
  Tasks = {}
  Requests = {r1}
  MaxRotation = 2
  Fixing = TRUE
  MaxGen = 1
INVARIANT PinKept
PROPERTY RotationServesAll
CHECK_DEADLOCK FALSE
