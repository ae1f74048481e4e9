SPECIFICATION FairSpec
CONSTANTS
  j1 = j1  j2 = j2
  cancel = cancel  timeout = timeout  repair = repair
  Jobs = {j1, j2}
  Scenarios <- TaskScenarios
INVARIANTS
  TypeOK ReflectsJobs LastAnnounced
PROPERTY
  EventuallyOver
