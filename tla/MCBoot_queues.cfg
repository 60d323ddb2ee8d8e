SPECIFICATION Spec
CONSTANTS
  Worker = {w1}
  Absent = Absent
  Env <- MCOneEnv
  MaxFaults = 0
INVARIANTS
  ServesWithQueues
