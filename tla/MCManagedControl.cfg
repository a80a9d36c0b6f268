SPECIFICATION FairSpec
CONSTANTS
  a1 = a1
  op1 = op1
  unknownRule = unknownRule
  regressionRule = regressionRule
  Actions = {a1}
  Operations = {op1}
  OperationOf <- MCOperationOf
  WholeProfile = WholeProfile
  RuleSignal <- MCRuleSignal
  RuleScope <- MCRuleScope
  RuleMode <- MCRuleMode
  RuleThreshold <- MCRuleThreshold
  None = None
  Rules = {unknownRule, regressionRule}
  Versions = {v1}
  AdapterVersions = {w1, w2}
  Manifests = {m1}
  Executions = {e1}
  ExternalSignals = {s1, s2}
  MaxFaults = 1
  MaxAdmin = 3
  MaxEpoch = 3
  MayAge = {s1}
INVARIANTS
  UnknownIsHeld
  AdapterStands
PROPERTIES
  AdmissionIsCurrent
  DispatchIsResolved
