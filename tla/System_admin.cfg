SPECIFICATION SystemSpec
CONSTANTS
  Domains = {"d1", "d2"}
  Classifiers = {"c1"}
  TtlDays = 1
  Forever = 100
  InitialRules = {}
  Processors = {}
  Payloads = {"malformed"}
  MaxMessages = 0
  MaxAckPending = 1
  ExcludedDomains = {}
  Handlers = {"h1"}
  AdminVerdicts <- ChangingVerdicts
  AdminPatterns <- ChangingPatterns
  ProvisionedFiles <- ChangingFiles
  Kinds <- MCSystemKinds
  Limits <- AdminLimits
INVARIANTS
  SystemTypeOK
  ProvisionedUnique
  ExpiryHolds
  RetroactiveUnlessCut
PROPERTIES
  AdminPreserved
  DeclaredRules
  PastIsFixed
CHECK_DEADLOCK FALSE
