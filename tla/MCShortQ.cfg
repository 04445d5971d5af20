SPECIFICATION Spec
CONSTANTS
  L = 7
  W = 2
  C = 3
  r1 = r1
  r2 = r2
  Readers = {r1, r2}
  MaxTotal = 16
INVARIANTS
  SizeIsLag
  ChunkContiguous
  RingHoldsStream
PROPERTIES
  StreamPromise
CHECK_DEADLOCK FALSE
