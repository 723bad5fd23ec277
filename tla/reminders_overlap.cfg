CONSTANTS
  Todos = {t1}
  Ticks = {k1, k2}
  MaxRev = 0
  MaxChanges = 3
  MaxStarts = 1
  MaxFailures = 1
SPECIFICATION Spec
CHECK_DEADLOCK FALSE
INVARIANT NoPhantomCompletion
