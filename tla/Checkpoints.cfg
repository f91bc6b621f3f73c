CONSTANTS
  Ranks = {0, 1}
  Groupings <- MCGroupings
  Keeps = {0, 1, 2}
  ResumeModes = {"auto", "disable", "resume_path"}
  EsiClose = {TRUE, FALSE}
  SaveFreq = 2
  CriticWarmup = 2
  TotalSteps = 4
  DataSteps = 5
  MaxRuns = 3
SPECIFICATION Spec
INVARIANTS TrackedLoadable WeightsKept RetentionBound
PROPERTIES ResumesLatestSave
CHECK_DEADLOCK FALSE
