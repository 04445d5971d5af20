SPECIFICATION LiveSpec
CONSTANTS
  M = 11
  Recv = 6
  Hdr = 2
  Starts <- MixedStarts
  PLen <- MixedPLen
  Lookalikes <- SomeLookalikes
  WildLens <- SomeLens
  MaxBytes = 27
INVARIANTS
  QueueHoldsBytes
  FramesIntact
  NeverOverrun
PROPERTIES
  FramePromise
  NoFrameSkipped
  CompleteFrameLeaves
CHECK_DEADLOCK FALSE
