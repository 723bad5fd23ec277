CONSTANTS
  Clients = {c1}
  Conns = {h1, h2}
  MaxLate = 1
  Signals = {s1}
  MaxSamples = 1
SPECIFICATION Spec
CHECK_DEADLOCK FALSE
PROPERTY TimeoutMeansBusy
