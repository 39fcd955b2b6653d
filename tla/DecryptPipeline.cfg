SPECIFICATION Spec
CONSTANTS
  Chunks = 3
  Capacity = 1
  NoError = NoError
  NoIndex = NoIndex
  Compressors = {d1}
  Cryptors = {x1, x2}
  Faults = {"read", "compress", "crypto", "write"}
INVARIANTS
  TruncationDetected
  OkMeansComplete
PROPERTIES
  ReturnsUnlessAbandoned
CHECK_DEADLOCK FALSE
