CONSTANTS
  m1 = m1  m2 = m2  s1 = s1  s2 = s2
  n1 = n1  n2 = n2  n3 = n3
  Allocation = alloc
  Materializations = {m1, m2}
  Starts = {s1, s2}
  MaterializationOf <- MCMaterializationOf
  RequestNonce <- MCRequestNonce
  Runners = {r1, r2}
  MaxRollbacks = 2
SPECIFICATION FairSpec
INVARIANTS
  OneMaterialization
  PredecessorsFirst
  LiveEffectKeepsItsRow
  NonceDeliveredOnce
PROPERTIES
  EveryRunEnds
