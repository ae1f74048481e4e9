SPECIFICATION FairSpec
CONSTANTS
  r1 = r1  r2 = r2  o1 = o1  o2 = o2  i1 = i1  i2 = i2
  Importers = {i1, i2}
  Contents <- AllContents
  Pathways <- ImportPathways
  FirstOrgs = {o1}
  Orgs = {o1, o2}
  Loads <- ImportLoads
PROPERTIES
  ImportMirrors UserAcksKept NoStrayAutoacks ImportsFinish
CHECK_DEADLOCK FALSE
