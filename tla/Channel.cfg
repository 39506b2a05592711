CONSTANTS
  c1 = c1
  c2 = c2
  Threads = {t1, t2, t3}
  Channels = {c1, c2}
  UsedLevels = {6, 7}
  SwapPairs <- Crossed
  NoThread = NoThread
  Sink <- SinkOf
  MaxCalls = 1
SPECIFICATION Spec
SYMMETRY Symmetry
INVARIANTS
  JustifiedByParams
  NoTornSwap
  StuckOnlyByCrossedSwaps
CHECK_DEADLOCK FALSE
