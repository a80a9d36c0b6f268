SPECIFICATION Spec
CONSTANTS
  perActor = perActor
  objectsToday = objectsToday
  targets = targets
  openCalls = openCalls
  recentCalls = recentCalls
  perRoot = perRoot
  suspendProgram = suspendProgram
  reviewActor = reviewActor
  None = None
  Measure <- MCMeasure
  Window <- MCWindow
  Seconds <- MCSeconds
  Limit <- MCLimit
  Response <- MCResponse
  GroupBy <- MCGroupBy
  Covers <- MCCovers
  ChildOf <- MCChildOf
  wide = wide
  narrow = narrow
  Contents = {wide}
  Attenuates <- MCAttenuates
  RuleScope <- MCRuleScope
  RuleMode <- MCRuleMode
  RuleThreshold <- MCRuleThreshold
  RuleSeconds <- MCRuleSeconds
  Budgets = {recentCalls}
  Targets = {t1}
  MaxObjects = 1
  Manifests = {m1, m2}
  Executions = {e1, e2}
  ActionIds = {a1, a2}
  Actors = {g1}
  Profiles = {p1}
  OwnApproval = {FALSE, TRUE}
  MaxDepth = 0
  Rules = {}
  Observations = {}
  MaxTime = 2
  MaxFaults = 0
  ClockMayGoBack = FALSE
SYMMETRY MCSymmetry
INVARIANTS
  InFlightHolds
