SPECIFICATION FairSpec
CONSTANTS
  Resumes = {r1}
  Workers = {w1, w2}
  NoWorker = NoWorker
  NoMessage = NoMessage
  NoSnapshot = NoSnapshot
  Chunks = {0, 1}
  MaxRetries = 1
  MaxFaults = 2
INVARIANTS
  TypeOK
  AcceptedIsHandedToParsing
  ParsedIsHandedToEmbedding
  EmbeddedMeansIndexed
PROPERTIES
  ImplementsLifecycle
  ChangedUnderLock
  AcceptedSettles
  Drains
CHECK_DEADLOCK FALSE
