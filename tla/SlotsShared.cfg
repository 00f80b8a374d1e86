SPECIFICATION Spec
CONSTANTS
  Contexts <- TwoContexts
  Devices = {d1, d2}
  Nobody = Nobody
  MaxSlots = 2
  MaxVisits = 2
INVARIANT SlotsDistinct
CHECK_DEADLOCK FALSE
