SPECIFICATION Spec
CONSTANTS
  Hard = {h1}
  Soft = {s1}
  None = None
  NrCpus = 3
  Columns <- OneGap
  MaxIrqs = 2
  MaxHits = 2
CHECK_DEADLOCK FALSE
INVARIANT HistoryComplete
