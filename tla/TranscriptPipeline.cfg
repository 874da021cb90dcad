SPECIFICATION Spec
CONSTANTS
  Requests = {q1, q2}
  Workers = {w1, w2}
  Texts <- MCTexts
  EmptyText = EmptyText
  Submissions <- MCSubmissions
  NoRow = NoRow
  NoRequest = NoRequest
  MaxRetries = 1
  MaxFaults = 1
INVARIANTS
  TypeOK
  RowIsOneSubmission
  IndexFollowsText
PROPERTIES
  Drains
CHECK_DEADLOCK FALSE
