CONSTANTS
  m1 = m1
  s1 = s1
  Allocations = {a1}
  Materializations = {m1}
  Starts = {s1}
  MaterializationOf <- MCMaterializationOf
  RequestIds = {q1, q2, q3}
  PlanLength <- MCPlanLength
  Daemons = {d1, d2}
  Attempts = {b1, b2}
  MaxRemovals = 1
SPECIFICATION OneSpec
SYMMETRY Perms
INVARIANTS
  EvidenceIsReal
  StartsFollow
  ReconciliationMissesOneStep
  ReceiptIsASnapshot
  NothingAdopted
  ClassificationIsRight
PROPERTIES
  ImplementsOneShot
