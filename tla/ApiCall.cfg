CONSTANTS
  NumPrompts = 4
  NumKeys = 3
  NumUrls = 2
  ApiCallLimit = 1
  MaxRetry = 2
  IsGpt5 = FALSE
  IsDeepseek = FALSE
  None = None
  Open = Open
SPECIFICATION FairSpec
INVARIANTS ConcurrencyBound NoneOnlyWhenExhausted BatchAligned
PROPERTIES ImplementsBatchCall
CHECK_DEADLOCK FALSE
