SPECIFICATION Spec
CONSTANTS
  Identities <- MCIdentities
  Views <- MCViews
  Settings <- MCSettings
  Roles <- MCRoles
  Workspaces <- MCWorkspaces
  Relations <- MCRelations
  HostGroups <- MCHostGroups
  MaxRetries = 3
  MaxRequests = 2
INVARIANTS
  GrantedIfEntitled GroupsExact KesselGrants PagesComplete
CHECK_DEADLOCK FALSE
