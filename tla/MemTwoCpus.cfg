SPECIFICATION Spec
CONSTANTS
  Readers = {r1}
  Cpus <- TwoCpus
  NFields = 2
  MaxCalls = 2
INVARIANT SnapshotFromOneCall
CHECK_DEADLOCK FALSE
