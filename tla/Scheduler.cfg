SPECIFICATION SchedulerSpec
CONSTANTS
  Saturation = 4095
  Kibi = 1024
  Cores = {1, 2, 4, 6}
  Gpus = {0, 1, 2}
  Memories = {0, 1}
  ChunkSizes = {0, 1, 2000}
  Wanted = {0, 1, 5}
  Percents = {0, 100}
  NoTarget = NoTarget
INVARIANTS
  LedgerExact
  EvenShare
  DispatchNeverPanics
