SPECIFICATION SettlementFairSpec
CONSTANTS
  Profiles = {p1}
  Versions = {v1}
  Manifests = {m1}
  ActionIds = {a1}
  Approvals = {}
  Executions = {e1}
  Modes = {"execute_allowlisted"}
  Principals = {agent}
  Agent = agent
  DualApproval = FALSE
  MaxTime = 1
  ReviewWindow = 2
  AuthorityWindow = 1
  ApprovalTimeout = 9
  None = None
  Reconciliations = {r1, r2}
  Verifications = {x1}
  ClockSkew = 1
  MaxEvidenceAge = 0
  MaxObservationAge = 0
  TestTimeout = 0
INVARIANTS
  SettlementTypeOK
  SettledByOneReconciliation
  SettlementIsTrue
  VerifiedStands
  DispatchWithinWindows
PROPERTY ImplementsLedger
PROPERTY EveryAttemptIsRecorded
