SPECIFICATION FedSpec
CONSTANTS
  N = 4
  NoIndex = NoIndex
INVARIANTS
  OutputIsPrefix
  WaitsForFirstMissing
  CompleteWhenFed
PROPERTIES
  NothingAfterFailure
