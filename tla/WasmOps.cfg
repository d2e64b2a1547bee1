SPECIFICATION Spec
CONSTANTS
  d1 = d1
  d2 = d2
  nothing = nothing
  far = far
  NameOrder <- TheNames
  Data = {d1}
  Empty = nothing
  Trees <- SomeTrees
  Known <- KnownEntries
  Inputs <- SomeInputs
  HostFiles <- SomeHostFiles
  Outputs <- OneLayer
  Streamed <- SomeOutputs
  Archives <- SomeArchives
  Flags <- SomeFlags
  OutputDirs <- SomeDirs
  MaxCalls = 3
INVARIANTS
  TypeOK
  RoundTrip
  ReadersAgree
PROPERTIES
  NeverOverwritesUnasked
  ReportsWhatItWrote
CHECK_DEADLOCK FALSE
