SPECIFICATION LiveSpec
CONSTANTS
  Job = {j1, j2}
  Worker = {w1, w2}
  MaxReceive = 2
  MaxBatch = 2
  MaxFaults = 1
INVARIANTS
  TypeOK
  NoJobLost
  OneTryPerReceive
PROPERTIES
  ImplementsAtLeastOnce
  Settles
