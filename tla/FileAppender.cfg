CONSTANTS
  MessageSize <- Alternating
  MaxSizes = {0, 1, 2}
  MaxEvents = 5
  MaxTime = 3
  MaxStarts = 2
  Failing = TRUE
  Crashing = TRUE
SPECIFICATION Spec
INVARIANTS
  Accounted
  Chronological
  SizeNotUnderestimated
  RolledBeforeWrite
CHECK_DEADLOCK FALSE
