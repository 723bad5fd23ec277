CONSTANTS
  Tools = {t1, t2}
  Window = 2
  Threshold = 2
  MaxDerive = 1
  MaxLines = 3
  MaxFailures = 1
  CacheTTL = 1
  MaxCompose = 1
SPECIFICATION SnapshotSpec
CHECK_DEADLOCK FALSE
INVARIANT SnapshotTypeOK
PROPERTY AwaitingIsCurrent
PROPERTY PendingIsReal
PROPERTY FinishedIsNoticed
PROPERTY QuietApprovalIsRight
