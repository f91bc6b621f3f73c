CONSTANTS
  NumWorkers = 2
  ChunkSize = 2
  LimiterLists <- MCLimiterLists
  MaxConcurrent = 1
  Threads = 1
  MaxRetries = 2
  Kinds = {"async", "sync", "disrm"}
  AnswerKeys <- MCAnswerKeys
  MaxTime = 8
SPECIFICATION FairSpec
INVARIANTS RateBound ConcurrencyLimit RewardsBelong
PROPERTIES BatchEnds
CHECK_DEADLOCK FALSE
