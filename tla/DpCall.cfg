SPECIFICATION Spec
CONSTANTS
  NumRows = 8
  Lengths = {1, 3}
  GroupSize = 2
  DpSize = 2
  SpSize = 2
  MaxTokenLen = 2
  MiniSize = 2
  MicroSize = 1
  LogProbSize = 3
  NumWorkers = 5
  MaxValRows = 7
INVARIANTS RowsReturn PartitionsFair CallsMeet
