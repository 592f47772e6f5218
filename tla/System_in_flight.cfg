SPECIFICATION SystemSpec
CONSTANTS
  Domains = {"d1"}
  Classifiers = {"c1"}
  TtlDays = 1
  Forever = 100
  InitialRules = {}
  Processors = {"p1"}
  Payloads = {"d1"}
  MaxMessages = 1
  MaxAckPending = 1
  ExcludedDomains = {}
  Handlers = {"h1"}
  AdminVerdicts <- OneVerdict
  AdminPatterns <- OnePattern
  ProvisionedFiles <- OneFile
  Kinds <- MCSystemKinds
  Limits <- InFlightLimits
INVARIANTS
  ProvisionedOverLlm
CHECK_DEADLOCK FALSE
