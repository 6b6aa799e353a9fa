CONSTANTS
  Names = {a, b}
  Vals = {x, y}
  None = None
  Ids = {1, 2, 3}
  MaxVaults = 2
  MaxCrashes = 2
  Habits = {"direct"}
SPECIFICATION Spec
INVARIANTS TypeOK ContentsKept NoTwins CreatedIsComplete
