SPECIFICATION Spec
CONSTANTS
  Handlers = {h1}
  Hot = Hot
  Files = {f1}
  Versions = {v1, v2}
  Stamps <- MCStamps
  ETags <- MCETags
  None = None
  Absent = Absent
  Empty = Empty
  Zeros = Zeros
  NoPath = NoPath
  Serial = TRUE
  Prompt = TRUE
  DiskMayFail = FALSE
  CrashLabels <- CrashOutsideSetContent
INVARIANTS
  Durable
