CONSTANTS
  Clients = {c1}
  Conns = {h1}
  MaxLate = 0
  Signals = {s1, s2}
  MaxSamples = 1
SPECIFICATION Spec
CHECK_DEADLOCK FALSE
INVARIANT ReportIsTrue
