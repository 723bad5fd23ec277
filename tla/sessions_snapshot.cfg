CONSTANTS
  a1 = a1
  b1 = b1
  None = None
  Pids <- BothPids
  Status <- TwoStatuses
  Filters <- DefaultOrAll
  TickSlots = {}
  RequestSlots = {r1}
  MaxChanges = 0
  MaxStarts = 1
SPECIFICATION Spec
CHECK_DEADLOCK FALSE
INVARIANT IdleIsDerived
