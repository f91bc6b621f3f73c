CONSTANTS
  NumWorkers = 2
  NumServers = 2
  NumRequests = 2
  CacheSize = 1
  PromptLength = 1
  ResponseLength = 3
  MaxModelLen = 5
  MaxAnswer = 2
  MaxVersion = 1
SPECIFICATION FairSpec
INVARIANTS LabelsBracketTokens OneVersionRuns InflightCounts RoomLeft
PROPERTY LoopsEnd
CHECK_DEADLOCK FALSE
