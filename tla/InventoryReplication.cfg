SPECIFICATION FairSpec
CONSTANTS
  h1 = h1  h2 = h2  c1 = c1  c2 = c2
  Hosts = {h1, h2}
  Consumers = {c1, c2}
  Logs <- ReplLogs
  BatchSize = 2
  MaxFaults = 2
  MaxMoves = 1
  MaxIngests = 1
  MaxCulls = 1
INVARIANTS
  TypeOK CommittedHandled Converged TablesAgree
PROPERTIES
  EventuallyReplicated
