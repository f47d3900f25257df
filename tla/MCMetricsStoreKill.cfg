SPECIFICATION Spec
CONSTANTS
  A = A  B = B  x = x  y = y  c = c
  Workload = {A, B}
  FU = {x, y}
  Copy = {c}
  None = None
  Elements <- MCElements
  MaxRunning = 1
  MayInvalidate = TRUE
  MayKill <- KillableAnywhere
  MaxStd = 1
INVARIANT NeverTorn
