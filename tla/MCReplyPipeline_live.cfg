SPECIFICATION LiveSpec
CONSTANTS
  Job = {j1, j2}
  Worker = {w1}
  MaxReceive = 2
  MaxBatch = 1
  MaxFaults = 1
  MaxFailures = 1
  Conversation = {"thread"}
  ConversationOf <- MCConversationOf
  Absent = Absent
  Env <- MCReal
PROPERTIES
  RepliedUnlessFailure
