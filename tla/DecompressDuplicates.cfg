SPECIFICATION FairSpec
CONSTANTS
  Names <- TheNames
  CommandLines <- DirNoLines
  Trees <- DiskTrees
  Stem <- Stems
  Leaf <- Stems
  Members <- Entries
  Source <- Sources
  Cwd <- CwdPath
  DirFlag <- DirPath
INVARIANT DuplicatesConflict
