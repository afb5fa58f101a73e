CONSTANTS
  n1 = n1
  n2 = n2
  Nonces <- MCNonces
  ChunkCounts <- MCChunkCounts
  Capacity = 1
SPECIFICATION Spec
CHECK_DEADLOCK FALSE
PROPERTIES
  RequestIsSubmitted
