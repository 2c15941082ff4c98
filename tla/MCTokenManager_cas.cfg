SPECIFICATION Spec
CONSTANTS
  Absent = Absent
  Corrupt = Corrupt
  None = None
  k1 = k1
  k2 = k2
  k3 = k3
  Files = {1, 2}
  Tokens <- MCTwoTokens
  Expirable = {}
  AccountOf <- MCAccountOf
  Tasks = {t1, t2}
  Requests = {r1}
  MaxRotation = 1
  Fixing = FALSE
  MaxGen = 2
INVARIANTS MemoryOnDisk NoLostUpdate ChargedToSpender
CHECK_DEADLOCK FALSE
