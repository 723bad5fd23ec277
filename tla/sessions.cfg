CONSTANTS
  a1 = a1
  b1 = b1
  None = None
  Pids <- BothPids
  Status <- TwoStatuses
  Filters <- DefaultOrAll
  TickSlots = {k1, k2}
  RequestSlots = {k2}
  MaxChanges = 1
  MaxStarts = 2
SPECIFICATION Spec
CHECK_DEADLOCK FALSE
INVARIANT TypeOK
INVARIANT ClientKnowsPrev
PROPERTY CatchesUp
PROPERTY GoesQuiet
