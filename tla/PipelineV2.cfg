SPECIFICATION Spec
CONSTANTS
  Reader = Reader
  Adapter = Adapter
  Main = Main
  Compressors = {c1}
  Cryptors = {x1, x2}
  MaxInput = 2
  MaxFaults = 2
  Capacity = 1
  NoError = NoError
  NoIndex = NoIndex
  Faults = {"read", "compress", "crypto", "write"}
INVARIANTS
  OkMeansComplete
  NothingSwallowed
  PanicIsSecondError
PROPERTIES
  ReturnsUnlessAbandoned
CHECK_DEADLOCK FALSE
