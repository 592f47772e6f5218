SPECIFICATION Spec
CONSTANTS
  d1 = d1
  d2 = d2
  Domains = {d1, d2}
  Keys <- MCKeys
  Txs = {t1, t2, t3}
  Past = past
  Batches <- BothOrders
  Lists <- ThreeLists
SYMMETRY Symmetry
INVARIANTS
  TypeOK
  OneRowPerKey
  EnsureFinds
  VerdictsSurvive
  DuplicatesOverlap
CHECK_DEADLOCK FALSE
