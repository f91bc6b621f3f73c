CONSTANTS
  r1 = r1
  r2 = r2
  RawVersions <- MCRawVersions
  SourceFile <- MCSourceFile
  MaxQueries <- MCMaxQueries
  Verdicts <- SomeVerdicts
  SafeName <- MCSafeName
  Unhashable = {"[English]"}
  LowerCase <- MCLowerCase
  Modes = {"generation", "full_pipeline", "filter_only"}
  GenerationLimit = 1
  GenerationBatch = 2
  InspectionBatch = 2
  MaxRuns = 3
SPECIFICATION Spec
INVARIANTS OutputsPassedInspection StoredCompletely OutputsOfOneRun
PROPERTIES UnreadableInputsKeepDataset
CHECK_DEADLOCK FALSE
