SPECIFICATION Spec
CONSTANTS
  h1 = h1  h2 = h2  c1 = c1  c2 = c2
  Hosts = {h1, h2}
  Consumers = {c1}
  Logs <- DeleteLogs
  BatchSize = 2
  MaxFaults = 0
  MaxMoves = 0
  MaxIngests = 0
  MaxCulls = 0
PROPERTY LastEventApplied
