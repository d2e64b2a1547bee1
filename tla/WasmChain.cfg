SPECIFICATION Spec
CONSTANTS
  d1 = d1
  d2 = d2
  nothing = nothing
  far = far
  NameOrder <- TheNames
  Data = {d1}
  Empty = nothing
  Trees <- SomeTrees
  Known <- KnownEntries
  Inputs <- SomeInputs
  HostFiles = {}
  Outputs <- SomeOutputs
  Streamed = {}
  Archives = {}
  Flags <- NoFlags
  OutputDirs = {}
  MaxCalls = 1
INVARIANT RoundTrip
CHECK_DEADLOCK FALSE
