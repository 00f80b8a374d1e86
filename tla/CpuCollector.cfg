SPECIFICATION FairSpec
CONSTANTS
  Readers = {r1}
  MaxCpus = 3
  Possible <- MCPossible
  MaxTicks = 2
  MaxPasses = 2
INVARIANTS TypeOK SeqlockInv SnapshotsConsistent
PROPERTIES ReadsAreAtomic SnapshotsMonotone ReaderReturns
CHECK_DEADLOCK FALSE
