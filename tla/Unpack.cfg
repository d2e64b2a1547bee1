SPECIFICATION UnpackSpec
CONSTANTS
  Limits = {0, 1, 2, 3, 9, 20}
  Totals = {0}
  CopyBuffer = 2
  Formats = {"tar", "zip", "7z"}
  Trees <- SomeTrees
  Output <- TheOutput
  Rooms = {0, 2, 4, 20}
  BufferUnits = 2
INVARIANTS
  UnpackTypeOK
  CapIsExact
  SuccessIsFaithful
  FailsOnlyForCause
CHECK_DEADLOCK FALSE
