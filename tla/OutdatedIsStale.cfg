SPECIFICATION Spec
CONSTANTS
  Interviews = {1}
  Resume = Resume
  Workers = {w1}
  NoVerdict = NoVerdict
  MaxVersion = 2
  MaxRetries = 0
  MaxFaults = 0
  MaxQueued = 1
INVARIANT OutdatedIsStale
CHECK_DEADLOCK FALSE
