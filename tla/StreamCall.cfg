SPECIFICATION Spec
CONSTANTS
  MaxChunk = 4
  TagLen = 16
  Short = Short
  NoIndex = NoIndex
  Saturation = 4095
  Kibi = 1024
  MaxChunks = 2
  Frames = 2
  ChunkSizes = {0, 1, 9}
  Strategies = {"Auto", "Sequential", "Parallel", "other"}
  Salts = {0, 1}
  Prfs = {"Blake3K", "other"}
  Dicts = {"none", "valid", "invalid"}
  Cores = {1, 4}
INVARIANTS
  OkIsInput
  CleanCallsSucceed
  RejectLeavesSink
