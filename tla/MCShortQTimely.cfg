SPECIFICATION TimelySpec
CONSTANTS
  L = 8
  W = 2
  C = 4
  B = 4
  r1 = r1
  r2 = r2
  Readers = {r1, r2}
  MaxTotal = 20
INVARIANTS
  KeepsUp
PROPERTIES
  EveryChunkDelivered
CHECK_DEADLOCK FALSE
