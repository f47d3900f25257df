SPECIFICATION Spec
CONSTANTS
  Exprs <- MCExprs
  Bodies <- MCBodies
  MAX_PROCESSES = 1
  Tests = FALSE
INVARIANTS TypeOK SingleAssignment NetlistAgrees ComputesExpression PrintedOnce NameDeterminesNetlist
CHECK_DEADLOCK FALSE
