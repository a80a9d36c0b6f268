SPECIFICATION FairSpec
CONSTANTS
  Profiles = {p1}
  Versions = {v1}
  Manifests = {m1, m2}
  ActionIds = {a1}
  Approvals = {}
  Executions = {e1, e2}
  Modes = {"execute_allowlisted"}
  Principals = {agent}
  Agent = agent
  DualApproval = FALSE
  MaxTime = 0
  ReviewWindow = 1
  AuthorityWindow = 1
  ApprovalTimeout = 1
  None = None
PROPERTY EveryCallEnds
