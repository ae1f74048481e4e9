SPECIFICATION FairSpec
CONSTANTS
  h1 = h1  h2 = h2  o1 = o1  client = client  third = third
  acc = acc  noacc = noacc  r1 = r1  r2 = r2  ra = ra  x1 = x1  n1 = n1  n2 = n2  s1 = s1
  w1 = w1  w2 = w2  NoOne = NoOne  Repl = Repl
  Hosts = {h1, h2}
  Orgs = {o1}
  OrgOf <- MCOrgOf
  Sources = {client, third}
  Accounts = {acc, noacc}
  AccountOf <- MCAccountOf
  Rules = {r1, r2, ra, x1, n1, n2, s1}
  KnownRules = {r1, r2, ra, n1, n2, s1}
  ActiveRules = {r1, ra, n1, n2, s1, r2}
  AutoackRules = {ra}
  NonRhelRules = {n1, n2}
  Rhel6Rules = {s1}
  Workers = {w1, w2}
  NumWorkers = 2
  Retries = 2
  Logs <- PoolLogs
  InitHosts <- PoolHosts
  InitHostAcks <- MCHostAcks
  MaxFaults = 2
  MaxRepl = 1
INVARIANTS
  TypeOK UniqueReports PermitsConserved EventsTrackReports
PROPERTIES
  DeleteErases HandlersFinish KeepsPromise
