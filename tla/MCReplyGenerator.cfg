SPECIFICATION LiveSpec
CONSTANTS
  Absent = Absent
  Env <- MCEnv
  ApiUrl = "http://api"
  KnowledgeBase <- MCKnowledgeBase
  Question <- MCQuestion
  MaxToolRounds = 2
  TopK = 2
  MaxCalls = 2
INVARIANTS
  TypeOK
  CallsAnswered
  ChunksAreSections
  RetrievedIsBest
  BestSectionAnswers
PROPERTIES
  EveryQuestionAnswered
