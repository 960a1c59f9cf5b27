SPECIFICATION MCSpec
CONSTANTS
  BlockSize = 2
  NumBlocks = 3
  Chunk = {1, 3, 8}
  MaxElements = 14
INVARIANTS NoLostWakeup StreamOrder
PROPERTIES ImplementsPipe NobodyStuck
CHECK_DEADLOCK FALSE
