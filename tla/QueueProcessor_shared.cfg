SPECIFICATION Spec
CONSTANTS
  Domains = {"d1", "x1", "y1"}
  Classifiers = {"c1"}
  TtlDays = 1
  Forever = 100
  InitialRules <- OneRule
  Processors = {p1, p2}
  Payloads = {"d1", "x1", "y1"}
  MaxMessages = 2
  MaxAckPending = 1
  ExcludedDomains = {"x1"}
  Kinds <- MCKinds
  Limits <- SharedLimits
SYMMETRY ProcessorSymmetry
INVARIANTS
  DomainsKnown
  RowsExplained
  BlockedOnEvidence
  SerialProcessing
  OneValidLlmVerdict
PROPERTIES
  IsWorkQueue
CHECK_DEADLOCK FALSE
