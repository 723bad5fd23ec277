CONSTANTS
  Daemons = {d1}
  Pids = {p1, p2}
  Statuses = {working, idle}
  MaxRows = 2
  PruneBatch = 2
  MaxTime = 1
  MaxIds = 5
  MaxFailures = 2
SPECIFICATION Spec
CHECK_DEADLOCK FALSE
INVARIANT TypeOK
INVARIANT NewestKept
INVARIANT CounterIsExact
INVARIANT GaugeIsCurrent
PROPERTY StaysAtCap
