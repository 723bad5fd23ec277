CONSTANTS
  Todos = {t1}
  Ticks = {k1, k2}
  MaxRev = 1
  MaxChanges = 3
  MaxStarts = 2
  MaxFailures = 1
  NCalls = 3
  MaxTime = 1
  Machines <- SomeMachines
SPECIFICATION BothSpec
CHECK_DEADLOCK FALSE
INVARIANT TypeOK
INVARIANT SubscriberKnowsPrev
INVARIANT ReadsItsWrites
INVARIANT NothingMadeUp
PROPERTY CatchesUp
