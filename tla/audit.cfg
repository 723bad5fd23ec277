CONSTANTS
  p1 = p1
  Procs <- OneProc
  Limit = 1
  MaxCalls = 6
  MaxTicks = 2
SPECIFICATION Spec
CHECK_DEADLOCK FALSE
INVARIANT TypeOK
INVARIANT NothingLost
INVARIANT NoDoubleRotation
INVARIANT TailIsNewest
PROPERTY Settles
PROPERTY ImplementsLog
