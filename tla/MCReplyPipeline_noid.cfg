SPECIFICATION Spec
CONSTANTS
  Job = {j1, j2}
  Worker = {w1}
  MaxReceive = 2
  MaxBatch = 1
  MaxFaults = 0
  MaxFailures = 0
  Conversation = {"thread"}
  ConversationOf <- MCConversationOf
  Absent = Absent
  Env <- MCReal
INVARIANTS
  RepeatedOnlyAfterFailure
