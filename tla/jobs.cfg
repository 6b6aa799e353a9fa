CONSTANTS
  t1 = t1
  a1 = a1
  p1 = p1
  e1 = e1
  Jobs = {t1, a1, p1, e1}
  Kind <- KindOf
  Slots = 1
  MaxTicks = 1
  MaxStarts = 2
SPECIFICATION Spec
INVARIANTS TypeOK GateCountsHolders HandlesAreLive
PROPERTIES GateSpec EveryJobClears
CHECK_DEADLOCK FALSE
