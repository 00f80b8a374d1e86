SPECIFICATION Spec
CONSTANTS
  Procs = {1, 2}
  Threads = {1, 2}
  Loaded = {1}
  ProcOf <- OneThreadEach
  Fds = {0, 1}
  Regular = {a}
  Sockets = {s}
  None = None
  MaxCalls = 3
  Readers = {r}
  NBuckets = 2
  Bucket <- ByFd
  BatchSize = 2
INVARIANTS TypeOK LiveMap SocketsKnown WalkExact
CHECK_DEADLOCK FALSE
