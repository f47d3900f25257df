SPECIFICATION Spec
CONSTANTS
  A = A  B = B  x = x  y = y  c = c
  Workload = {A, B}
  FU = {x, y}
  Copy = {c}
  None = None
  Elements <- MCElements
  MaxRunning = 2
  MayInvalidate = FALSE
  MayKill <- Killable
  MaxStd = 0
INVARIANTS NoFault RecordedPresent
