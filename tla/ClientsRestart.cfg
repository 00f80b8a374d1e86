SPECIFICATION ClientSpec
CONSTANTS
  cpu = cpu
  proc = proc
  fd = fd
  cpu_data = cpu_data
  proc_header = proc_header
  proc_stats = proc_stats
  fd_entries = fd_entries
  Daemons = {d1, d2}
  Cpu = cpu
  Others = {proc, fd}
  MapsOf <- PinnedMaps
  CpuData = cpu_data
  Handles = {h}
  OpenOrder <- HandleOrder
  ReaderOrder <- StatsOrder
  Mapped = {cpu_data, proc_header}
  Header = proc_header
  Zero = Zero
  Unset = Unset
  Nobody = Nobody
INVARIANTS ClientTypeOK BuildInv ServedFresh CleanInv StalePinsCleaned HandleFresh ClosedReleases ClosesOnlyItsOwn
CHECK_DEADLOCK FALSE
SYMMETRY AnyDaemon
