SPECIFICATION Spec
CONSTANTS
  Users = {"u1", "u2"}
  Workers = {"w1"}
  Orgs = {1, 2}
  OrgsOf <- MCOrgsOf
  FirstSubs <- MCFirstSubs
  Filters = {{2}}
  Unsteady = {"active"}
  MailRetryAttempts = 2
  MailMinimumHours = 1
  DeleteExpiredUsers = TRUE
  EnableAutosub = TRUE
  MaxElapsed = 1
  MaxRequests = 2
  MaxChanges = 1
  MaxFaults = 1
INVARIANTS
  NotTwice StopsAfterUnsubscribing
PROPERTIES
  KeepsTheEntitled ReportsKeepComing
CHECK_DEADLOCK FALSE
