SPECIFICATION LiveSpec
CONSTANTS
  Tenant = {"tenant1"}
  Absent = Absent
  Request = {"r1"}
  Job = {"j1"}
  RequestOf <- MCRequestOf
  Http <- MCJunk
  Worker = {w1}
  MaxReceive = 2
  MaxBatch = 2
  MaxFaults = 0
  MaxFailures = 0
PROPERTIES
  EveryRequestAudited
