SPECIFICATION PoolSpec
CONSTANTS
  Readers = {r1, r2}
  Sources = {"numbered"}
  Chunks = 3
  Capacity = 2
  NoError = NoError
  MayFail = FALSE
INVARIANTS
  IndexIsChunk
