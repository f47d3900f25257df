SPECIFICATION Spec
CONSTANTS
  Chan <- MCChan
  Programs <- MCPrograms
  NoChan = NoChan
  a = a  b = b
  d1 = d1  d2 = d2  d3 = d3
  e1 = e1  e2 = e2  e3 = e3
  LogicOptimizer = FALSE
  MaxElems = 2
  Pools = {"sinks", "norm", "mixers", "clusters"}
INVARIANT ReadsGoThroughCopy
CHECK_DEADLOCK FALSE
