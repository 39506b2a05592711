CONSTANTS
  Period = 3
  LocalTime <- EndOfSummer
  Template <- Repeating
  Assertions = TRUE
  Failing = FALSE
  MaxTime = 7
  MaxEvents = 3
SPECIFICATION Spec
INVARIANTS
  TimestampCoversEvent
CHECK_DEADLOCK FALSE
