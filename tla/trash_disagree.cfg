\* Violated, and so is StaysRestorable, or as a PROPERTY UndoTakesBackTheDelete, in its
\* place (README, section 3).
CONSTANTS
  Callers = {"c", "d"}
  Overlap = TRUE
  Places = {"p", "q"}
  OtherDevice = {}
  Copies = 3
  MaxFiles = 3
  MaxFaults = 0
SPECIFICATION Spec
INVARIANT NothingTrashedIsLost
CHECK_DEADLOCK FALSE
