CONSTANTS
  t1 = t1
  a1 = a1
  p1 = p1
  e1 = e1
  Jobs = {t1}
  Kind <- KindOf
  Slots = 1
  MaxTicks = 1
  MaxStarts = 1
SPECIFICATION Spec
INVARIANT CancelReaches
CHECK_DEADLOCK FALSE
