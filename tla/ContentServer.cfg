SPECIFICATION Spec
CONSTANTS
  r1 = r1  r2 = r2  o1 = o1  o2 = o2  w1 = w1  w2 = w2
  Workers = {w1, w2}
  Orgs = {o1, o2}
  Pathways <- ServerPathways
  Posts <- ServerPosts
  DisableCve = TRUE
PROPERTIES
  PostMirrors UserAcksKept
CHECK_DEADLOCK FALSE
