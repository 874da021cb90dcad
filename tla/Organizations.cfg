SPECIFICATION Spec
CONSTANT Callers = {d1, d2, d3}
INVARIANTS
  TypeOK
  ServedUntilDeactivated
  CompensatedLeavesNothing
  DeactivatedIsTornDown
CHECK_DEADLOCK FALSE
