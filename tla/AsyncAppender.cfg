CONSTANTS
  Producers = {p1, p2}
  Worker = Worker
  Owner = Owner
  Events = {e1, e2, e3}
  Null = Null
  NoThread = NoThread
  Nothing = Nothing
  MaxSpurious = 1
  MayThrow = TRUE
SPECIFICATION FairSpec
INVARIANTS
  FlushedAtDestruction
PROPERTIES
  ImplementsDelivery
  DestructorReturns
  EventuallyDelivered
CHECK_DEADLOCK FALSE
