SPECIFICATION Spec
CONSTANTS
  Domains = {"d1"}
  Classifiers = {c1, c2}
  TtlDays = 1
  Forever = 100
  InitialRules = {}
  Processors = {"p1"}
  Payloads = {"d1"}
  MaxMessages = 1
  MaxAckPending = 1
  ExcludedDomains = {}
  Kinds <- MCKinds
  Limits <- OutOfRangeLimits
SYMMETRY ClassifierSymmetry
PROPERTIES
  AckedIsSettled
CHECK_DEADLOCK FALSE
