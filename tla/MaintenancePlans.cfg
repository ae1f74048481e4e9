SPECIFICATION Spec
CONSTANTS
  Orgs = {"o1", "o2"}
  Hosts <- MCHosts
  Rules <- MCRules
  Pathways = {}
  Sources = {"puptoo"}
  HostOf <- MCHostOf
  RuleOf <- MCRuleOf
  Published = {}
  Puptoo = "puptoo"
  Requests <- MCRequests
  TopicTags <- MCTopicTags
  w1 = w1
  w2 = w2
  Workers <- MCWorkers
  Plans = {"p1", "p2"}
  Lists <- MCLists
  FirstPlans <- MCFirstPlans
  FirstActions <- MCFirstActions
  MaxActions = 4
  MaxRequests = 2
  MaxChanges = 1
SYMMETRY WorkersAlike
INVARIANTS
  ActionsCounted SatAgree UnregisteredHidden
PROPERTIES
  NoNewDuplicates PlansKeepTheirActions
CHECK_DEADLOCK FALSE
