SPECIFICATION FairSpec
CONSTANTS
  Readers = {r1}
  Cpus <- OneCpu
  NFields = 3
  MaxCalls = 3
INVARIANTS TypeOK SnapshotFromOneCall MemInv
PROPERTIES ReaderReturns ReadsAreAtomic
CHECK_DEADLOCK FALSE
