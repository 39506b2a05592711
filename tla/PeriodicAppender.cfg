CONSTANTS
  Period = 3
  LocalTime <- EndOfSummer
  Template <- Repeating
  Assertions = FALSE
  Failing = TRUE
  MaxTime = 7
  MaxEvents = 4
SPECIFICATION Spec
INVARIANTS
  WithinAPeriod
  OpenForLessThanAPeriod
  EveryEventWritten
CHECK_DEADLOCK FALSE
