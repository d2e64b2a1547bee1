SPECIFICATION HostSpec
CONSTANTS
  Size = 8
  BufferSize = 3
  Lengths = {0, 1, 2, 4}
  Deltas <- SomeDeltas
  UsizeValues = 6
  Honest = FALSE
  MaxWrites = 3
  Pieces = {1, 2}
  MaxEnd = 3
  ChunkSize = 4
  EntryFrom = 2
  EntryTo = 8
  Trailer = Trailer
INVARIANTS
  HostTypeOK
  RequestsInside
  EndIsTrue
  ResolvedIsWhole
PROPERTIES
  PulledOnce
  ImplementsFile
  Settles
CHECK_DEADLOCK FALSE
