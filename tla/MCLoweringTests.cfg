SPECIFICATION Spec
CONSTANTS
  Exprs <- MCExprs
  Bodies <- MCBodies
  MAX_PROCESSES = 500
  Tests = TRUE
INVARIANT ComputesEveryOutput
CHECK_DEADLOCK FALSE
