CONSTANTS
  Roots = {v}
  Ops = {o1}
  Into = {o1}
  MaxUnlocks = 1
  MaxTime = 0
  IdleMinutes = 0
  StaleRows = FALSE
SPECIFICATION Spec
INVARIANT LandsEncrypted
