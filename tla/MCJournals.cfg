CONSTANTS
  op1 = op1  g1 = g1  g2 = g2  j1 = j1  j2 = j2
  Intents = {i1, i2}
  Operations = {op1}
  OperationOf <- MCOperationOf
  Roots = {root1, root2}
  Actors = {p1, p2}
  MaxRemovals = 2
  GenesisReceipts = {g1, g2}
  Journals = {j1, j2}
  JournalOf <- MCJournalOf
  Stages = {"allocate", "materialize", "start", "observe"}
  MaxDrift = 1
SPECIFICATION OneSpec
SYMMETRY Perms
INVARIANTS
  CurrentIsComplete
  ObservedCurrentIsComplete
  CommittedIsPerformed
  LiveEffectKeepsItsRow
  ResultsAreHonest
  EveryLeaseIsExited
  CommittedSawNoDrift
PROPERTIES
  LeasesSpanTheEffect
