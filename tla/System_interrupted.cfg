SPECIFICATION SystemSpec
CONSTANTS
  Domains = {"d1"}
  Classifiers = {"c1"}
  TtlDays = 1
  Forever = 100
  InitialRules = {}
  Processors = {}
  Payloads = {"malformed"}
  MaxMessages = 0
  MaxAckPending = 1
  ExcludedDomains = {}
  Handlers = {"h1"}
  AdminVerdicts <- OneVerdict
  AdminPatterns <- OnePattern
  ProvisionedFiles <- PatternFile
  Kinds <- MCSystemKinds
  Limits <- InterruptedLimits
PROPERTIES
  RetroactiveRules
CHECK_DEADLOCK FALSE
