CONSTANTS
  Threads = {t1, t2, t3}
  Values = {a, b}
  NoThread = NoThread
  Nothing = Nothing
  MaxCalls = 2
  MaxTotal = 4
  MaxSpurious = 1
SPECIFICATION FairSpec
INVARIANTS
  TypeOK
  MutualExclusion
  NoLostWakeup
  ExactlyOnceInOrder
PROPERTIES
  Linearizable
  NoForgottenElement
  TimedPopReturns
CHECK_DEADLOCK FALSE
ACTION_CONSTRAINT CallsInTotal
