SPECIFICATION LiveSpec
CONSTANTS
  Tenant = {"tenant1"}
  Absent = Absent
  Request = {"r1", "r2"}
  Job = {"j1", "j2", "j3"}
  RequestOf <- MCRequestOf
  Http <- MCHttp
  Worker = {w1}
  MaxReceive = 2
  MaxBatch = 2
  MaxFaults = 1
  MaxFailures = 1
INVARIANTS
  TypeOK
  AnsweredIsTraced
  NoDoubleAudit
PROPERTIES
  ImplementsQueue
  StoredUnlessFailure
