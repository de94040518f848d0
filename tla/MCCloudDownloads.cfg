SPECIFICATION Spec
CONSTANTS
  Handlers = {h1, h2}
  Hot = Hot
  Files = {f1}
  Versions = {v1}
  Stamps <- MCStamps
  ETags <- MCETags
  None = None
  Absent = Absent
  Empty = Empty
  Zeros = Zeros
  NoPath = NoPath
  Serial = FALSE
  Prompt = TRUE
  DiskMayFail = FALSE
  CrashLabels = {}
INVARIANTS
  NeverLost
  RowTellsWhere
PROPERTIES
  ColdFilesArePacked
