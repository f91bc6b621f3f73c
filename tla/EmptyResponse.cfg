CONSTANTS
  NumExamples = 2
  Responses = {"text", "empty"}
  Texts = {"score", "unscored"}
  JudgeMayFail = FALSE
  MaxRuns = 1
  None = None
SPECIFICATION ScoresSpec
INVARIANTS ScoresBelong
CHECK_DEADLOCK FALSE
