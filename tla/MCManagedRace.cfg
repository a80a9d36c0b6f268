SPECIFICATION Spec
CONSTANTS
  a1 = a1
  op1 = op1
  unknownRule = unknownRule
  regressionRule = regressionRule
  Actions = {a1}
  Operations = {op1}
  OperationOf <- MCOperationOf
  WholeProfile = WholeProfile
  Rules = {unknownRule}
  RuleSignal <- MCRuleSignal
  RuleScope <- MCRuleScope
  RuleMode <- MCRuleMode
  RuleThreshold <- MCRuleThreshold
  None = None
  Versions = {v1}
  AdapterVersions = {w1}
  Manifests = {m1, m2}
  Executions = {e1, e2}
  ExternalSignals = {}
  MaxFaults = 2
  MaxAdmin = 1
  MaxEpoch = 0
  MayAge = {}
SYMMETRY RaceSymmetry
INVARIANTS
  ManagedTypeOK
  EffectIsOnDisk
PROPERTIES
  ImplementsLedger
