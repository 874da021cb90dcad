SPECIFICATION Spec
CONSTANTS
  Cards = {c1, c2}
  Sessions = {s1, s2}
  Contents = {x}
  NoRow = NoRow
  NoAmendment = NoAmendment
  MaxTransactions = 3
  MaxAmendments = 2
SYMMETRY Symmetry
INVARIANTS
  TypeOK
  AuditTrail
PROPERTIES
  SubmittedIsPreserved
CHECK_DEADLOCK FALSE
