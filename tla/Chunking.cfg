SPECIFICATION ChunkSpec
CONSTANTS
  Lengths <- MCLengths
  Sizes <- MCSizes
  Overlaps <- MCOverlaps
INVARIANTS
  ChunkTypeOK
  PhrasesIntact
  NoRedundantChunk
CHECK_DEADLOCK FALSE
