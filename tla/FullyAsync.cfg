CONSTANTS
  Total = 9
  Required = 1
  Trigger = 2
  MaxRequired = 3
  MaxConcurrent = 2
  MayFail = TRUE
  SaveFreq = 2
SPECIFICATION AsyncSpec
INVARIANTS RolloutBound TrainedOnce CheckpointLag
PROPERTIES TrainerEnds FitEnds
