CONSTANTS
  n1 = n1
  n2 = n2
  Nonces <- MCNonces
  ChunkCounts <- MCChunkCounts
  Capacity = 1
  Sessions = {"s1", "s2"}
  TicketOf <- MCTicketOf
  ContainerOf <- MCContainerOf
  ChunkCount = 2
SPECIFICATION EitherSpec
CHECK_DEADLOCK FALSE
INVARIANTS
  VerdictIsHonest
  EffectIsPermitted
  OneDelivery
  ReceiptIsEarned
  CheckpointIsHonest
PROPERTIES
  EveryDialogueEnds
