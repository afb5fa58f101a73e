CONSTANTS
  op1 = op1
  Intents = {i1}
  Operations = {op1}
  OperationOf <- MCOperationOf
  Roots = {root1, root2}
  Actors = {p1, p2}
  MaxRemovals = 0
SPECIFICATION FairSpec
PROPERTIES
  EveryProvisioningEnds
