SPECIFICATION FairSpec
CONSTANTS
  Domains = {"d1"}
  Classifiers = {"c1", "c2"}
  TtlDays = 1
  Forever = 100
  InitialRules = {}
  Processors = {"p1"}
  Payloads = {"d1", "malformed"}
  MaxMessages = 1
  MaxAckPending = 1
  ExcludedDomains = {}
  Kinds <- MCKinds
  Limits <- RetryLimits
INVARIANTS
  TypeOK
  OneValidLlmVerdict
PROPERTIES
  AckedIsSettled
  MessagesSettle
CHECK_DEADLOCK FALSE
