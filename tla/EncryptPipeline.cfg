SPECIFICATION Spec
CONSTANTS
  Readers = {r1}
  Sources = {"memory", "numbered"}
  Chunks = 3
  Capacity = 1
  NoError = NoError
  NoIndex = NoIndex
  Compressors = {c1}
  Cryptors = {x1, x2}
  Faults = {"read", "compress", "crypto", "write"}
INVARIANTS
  EverySegmentOnce
  OkMeansComplete
PROPERTIES
  ReturnsUnlessAbandoned
CHECK_DEADLOCK FALSE
