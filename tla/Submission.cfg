SPECIFICATION Spec
CONSTANTS
  Requests = {q1, q2, q3}
  Emails = {"ada"}
  Requisitions = {"j1", "j2"}
  OrgOf <- MCOrgOf
  NoCandidate = NoCandidate
INVARIANTS
  TypeOK
  OneCandidatePerEmail
  OneActiveApplication
  OneOrganization
PROPERTIES
  ImplementsSerial
  Ends
CHECK_DEADLOCK FALSE
