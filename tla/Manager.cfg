CONSTANTS
  Threads = {t1, t2, t3}
  NoThread = NoThread
  MaxCalls = 2
  MaxChannels = 7
SPECIFICATION Spec
SYMMETRY Symmetry
INVARIANTS
  OnlySetDefaultDestroys
  NoLeak
  OneLivingDefault
CHECK_DEADLOCK FALSE
