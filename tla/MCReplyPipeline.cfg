SPECIFICATION Spec
CONSTANTS
  Job = {j1, j2}
  Worker = {w1, w2}
  MaxReceive = 2
  MaxBatch = 1
  MaxFaults = 0
  MaxFailures = 1
  Conversation = {"thread"}
  ConversationOf <- MCConversationOf
  Absent = Absent
  Env <- MCReal
SYMMETRY Symmetry
INVARIANTS
  TypeOK
  OneReplyPerReceive
  RecordedIsDelivered
  HandledIsReplied
  QuestionInPrompt
PROPERTIES
  ImplementsQueue
  ImplementsService
