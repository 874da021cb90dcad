SPECIFICATION Spec
CONSTANTS
  Requisitions = {r1}
  Users = {u1}
  Callers = {c1, c2}
  NoCall = NoCall
INVARIANTS
  TypeOK
  TerminalUnlessLost
PROPERTIES
  OnlyStaleWritesJump
CHECK_DEADLOCK FALSE
