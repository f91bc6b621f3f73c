CONSTANTS
  NumExamples = 2
  Responses = {"text"}
  Texts = {"score", "unscored", "garbled"}
  JudgeMayFail = TRUE
  MaxRuns = 2
  EvalBatchSize = 2
  MaxRetry = 2
  IsGpt5 = TRUE
  None = None
SPECIFICATION EFairSpec
INVARIANTS ScoresBelong SavedInStep
PROPERTIES ImplementsEvalScores
CHECK_DEADLOCK FALSE
