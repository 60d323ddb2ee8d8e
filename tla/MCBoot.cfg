SPECIFICATION LiveSpec
CONSTANTS
  Worker = {w1, w2}
  Absent = Absent
  Env <- MCEnv
  MaxFaults = 2
INVARIANTS
  TypeOK
  ConsumesWithPolicy
  ServesKnownPhone
PROPERTIES
  TenantsAreKept
  ComesUp
CHECK_DEADLOCK FALSE
