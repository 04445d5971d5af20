SPECIFICATION Spec
CONSTANTS
  M = 11
  Recv = 6
  Hdr = 2
  Starts <- MixedStarts
  PLen <- MixedPLen
  Lookalikes <- SomeLookalikes
  WildLens <- SomeLens
  MaxBytes = 20
PROPERTIES
  TakesOnlyQueued
CHECK_DEADLOCK FALSE
