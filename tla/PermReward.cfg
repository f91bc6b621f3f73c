CONSTANTS
  TrainSamples = {"t1"}
  ValSamples = {"v1"}
  Permits = 1
  JudgeRetries = 2
  GrmTrial = 1
  DimAnswers <- MCDimAnswers
  StandbyAnswers <- MCStandbyAnswers
SPECIFICATION JudgingFairSpec
INVARIANTS JudgeConcurrency WorstDimensionCounts
PROPERTIES RewardReturns
CHECK_DEADLOCK FALSE
