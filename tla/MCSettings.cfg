SPECIFICATION MCSpec
CONSTANTS
  h1 = h1
  h2 = h2
  Handles = {h1, h2}
  TableOrder <- Channels
  Defaults <- NameAndStatus
  MaxId = 2
SYMMETRY HandleSymmetry
INVARIANTS
  FilledOnce
  CompleteUnlessInterrupted
  UserValueStays
  AnswersOwnSection
  AccountLeft
