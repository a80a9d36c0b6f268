SPECIFICATION Spec
CONSTANTS
  Profiles = {p1}
  Versions = {v1}
  Manifests = {m1, m2}
  ActionIds = {a1}
  Approvals = {ap1}
  Executions = {e1, e2}
  Modes = {"request_approval", "execute_allowlisted"}
  Principals = {alice, agent}
  Agent = agent
  DualApproval = FALSE
  MaxTime = 0
  ReviewWindow = 1
  AuthorityWindow = 1
  ApprovalTimeout = 1
  None = None
SYMMETRY RaceSymmetry
INVARIANTS
  TypeOK
  OneDispatchPerAction
  OneApprovalOneDispatch
  EffectsAreReserved
