SPECIFICATION Spec
CONSTANTS
  Interviews = {1, 2}
  Resume = Resume
  Workers = {w1, w2}
  NoVerdict = NoVerdict
  MaxVersion = 1
  MaxRetries = 1
  MaxFaults = 1
  MaxQueued = 1
INVARIANTS
  TypeOK
  OnlyFromCompleted
  OneSubject
PROPERTIES
  VerdictArrives
  Quiesces
CHECK_DEADLOCK FALSE
