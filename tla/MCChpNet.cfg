SPECIFICATION CircuitSpec
CONSTANTS
  Chan <- MCChan
  Programs <- MCPrograms
  Compute <- MCCompute
  Buffer <- MCBuffer
  Feed <- MCFeed
  Width <- MCWidth
  NoChan = NoChan  Idle = Idle
  c1 = c1  c2 = c2  c3 = c3  c4 = c4  c5 = c5  c6 = c6
  c7 = c7  c8 = c8  c9 = c9  c10 = c10  c11 = c11  c12 = c12
  LogicOptimizer = FALSE
  LeafWidth = 2
  Builds <- MCBuilds
  MaxTokens <- MCMaxTokens
  Stored = {"if", "loop", "fan", "steer", "arbiter"}
  Unstored = {"if", "bufloop", "fan", "steer", "chain", "arbiter", "narrow"}
INVARIANTS CircuitTypeOK WellWired
PROPERTIES ImplementsDataflow Delivers
CHECK_DEADLOCK FALSE
