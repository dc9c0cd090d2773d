SPECIFICATION Spec

CONSTANTS
  kCheapPrepend = 2
  kInitialSize = 3
  ExtraBuf = 3
  Zero = 0
  Bytes = {0, 1}
  MaxChunk = 3
  MaxReadable = 5
  Chunks <- AllChunks

INVARIANTS
  IndicesInOrder
  CapacityBound

PROPERTY
  ImplementsByteQueue
