CONSTANTS
  FirstPort = 1
  LastPort = 3
  MaxMoves = 2
  Clients = {c1, c2}
  Conns = {h1, h2, h3}
  MaxLate = 2
  Signals = {s1, s2}
  MaxSamples = 1
SPECIFICATION ServeSpec
CHECK_DEADLOCK FALSE
INVARIANT ServeTypeOK
INVARIANT PollersFollowClients
INVARIANT DrainIsWatched
INVARIANT ClosedInOrder
INVARIANT ReportCountsAll
INVARIANT BootIsPredictable
INVARIANT SurvivesRequests
PROPERTY NoneJoinsLate
PROPERTY SignalEnds
PROPERTY BootSettles
