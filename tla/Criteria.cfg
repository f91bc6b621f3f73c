CONSTANTS
  q1 = q1
  q2 = q2
  q3 = q3
  None = None
  QueryIds = {q1, q2, q3}
  DataVersions <- GrowingFrom
  Successors <- Growing
  Dimensions = {"resonation", "expression"}
  Limits = {0, 1}
  Options = {{"resume"}, {"resume", "overwrite"}}
  MaxRuns = 3
SPECIFICATION Spec
INVARIANTS SidecarNeverTorn CriteriaBelong CompleteRunFills
PROPERTIES ResumeKeeps
CHECK_DEADLOCK FALSE
