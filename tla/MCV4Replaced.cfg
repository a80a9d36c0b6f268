SPECIFICATION Spec
CONSTANTS
  perActor = perActor
  objectsToday = objectsToday
  targets = targets
  openCalls = openCalls
  recentCalls = recentCalls
  perRoot = perRoot
  suspendProgram = suspendProgram
  reviewActor = reviewActor
  None = None
  Measure <- MCMeasure
  Window <- MCWindow
  Seconds <- MCSeconds
  Limit <- MCLimit
  Response <- MCResponse
  GroupBy <- MCGroupBy
  Covers <- MCCovers
  ChildOf <- MCChildOf
  wide = wide
  narrow = narrow
  Contents = {wide, narrow}
  Attenuates <- MCAttenuates
  RuleScope <- MCRuleScope
  RuleMode <- MCRuleMode
  RuleThreshold <- MCRuleThreshold
  RuleSeconds <- MCRuleSeconds
  Budgets = {}
  Targets = {t1}
  MaxObjects = 1
  Manifests = {m1, m2}
  Executions = {e1, e2}
  ActionIds = {a1, a2}
  Actors = {g1}
  Profiles = {p1, p2}
  OwnApproval = {FALSE}
  MaxDepth = 1
  Rules = {}
  Observations = {}
  MaxTime = 0
  MaxFaults = 0
  ClockMayGoBack = FALSE
SYMMETRY MCSymmetry
INVARIANT ChildIsAttenuated
