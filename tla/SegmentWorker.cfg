SPECIFICATION Spec
CONSTANTS
  FrameWorkers = {f1, f2}
  Segments = 2
  Frames = 2
  Wires <- OneDamage
  QueueSize = 2
  OutSize = 1
  MayFail = TRUE
INVARIANTS
  EmittedInOrder
  GivesUpOnlyWhenCancelled
PROPERTIES
  AllStop
