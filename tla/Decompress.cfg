SPECIFICATION FairSpec
CONSTANTS
  Names <- TheNames
  CommandLines <- SomeLines
  Trees <- DiskTrees
  Stem <- Stems
  Leaf <- Stems
  Members <- Entries
  Source <- Sources
  Cwd <- CwdPath
  DirFlag <- DirPath
INVARIANTS
  TypeOK
  TargetsReady
  SandboxPermits
  PriorDataSurvives
  OutputsIntact
  DirectoriesConflict
  SuccessIsComplete
PROPERTY Terminates
