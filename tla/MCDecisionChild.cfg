SPECIFICATION Spec
CONSTANTS
  None = None
  Profiles <- MCProfiles
  Requests <- MCRequests
  Submissions <- MCSubmissions
  Roots <- MCRoots
  RequireSignoffs = TRUE
  MaxTime = 1
  Day = 1
INVARIANT ChildIsNoWider
