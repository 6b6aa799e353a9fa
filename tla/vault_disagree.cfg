\* Violated, and so is ToldIsLocked, or as a PROPERTY IdleCountsIO, in its place
\* (README, section 3).
CONSTANTS
  Roots = {v}
  Ops = {o1, o2}
  Into = {o1}
  MaxUnlocks = 2
  MaxTime = 2
  IdleMinutes = 1
  StaleRows = TRUE
SPECIFICATION Spec
INVARIANT KeyKeptInUse
