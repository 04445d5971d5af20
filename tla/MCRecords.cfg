SPECIFICATION LiveSpec
CONSTANTS
  d1 = d1
  d2 = d2
  Dbs = {d1, d2}
  Purger = d1
  MaxRecord = 1
  MaxFound = 1
INVARIANTS
  NoOrphan
  LeaksExcused
PROPERTIES
  ArchivePromise
  OutdatedGoes
