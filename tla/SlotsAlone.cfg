SPECIFICATION Spec
CONSTANTS
  Contexts <- OneContext
  Devices = {d1, d2, d3}
  Nobody = Nobody
  MaxSlots = 2
  MaxVisits = 6
INVARIANTS TypeOK SlotsDistinct CountMatchesNames IosRight SlotInv
CHECK_DEADLOCK FALSE
