SPECIFICATION SystemSpec
CONSTANTS
  Domains = {"d1"}
  Classifiers = {"c1"}
  TtlDays = 1
  Forever = 100
  InitialRules = {}
  Processors = {"p1"}
  Payloads = {"d1"}
  MaxMessages = 2
  MaxAckPending = 1
  ExcludedDomains = {}
  Handlers = {h1, h2}
  h1 = h1
  h2 = h2
  AdminVerdicts <- OneVerdict
  AdminPatterns <- OnePattern
  ProvisionedFiles <- ContradictingFiles
  Kinds <- MCSystemKinds
  Limits <- OneDomainLimits
INVARIANTS
  RowsExplained
  FailuresFollowedUp
  ProvisionedUnique
PROPERTIES
  DeclaredEntries
SYMMETRY HandlerSymmetry
CHECK_DEADLOCK FALSE
