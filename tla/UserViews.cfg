SPECIFICATION Spec
CONSTANTS
  Orgs = {"o1", "o2"}
  Hosts <- MCHosts
  Rules <- MCRules
  Pathways <- MCPathways
  Sources = {"puptoo", "other"}
  HostOf <- MCHostOf
  RuleOf <- MCRuleOf
  Published <- MCPathways
  Puptoo = "puptoo"
  Requests <- MCRequests
  Uploaded <- MCUploaded
  TopicTags <- MCTopicTags
  AckedFirst <- MCAckedFirst
  Batches <- MCBatches
  MaxChanges = 2
INVARIANTS
  JoinsAgree StatsAgree DetailsAgree HiddenAccounted 
CHECK_DEADLOCK FALSE
