\* Violated, and so is each of CreatedIsCiphertext, RetryAccepted, RemoveRestores and
\* RemoveCanGoOn in its place (README, section 3).
CONSTANTS
  Names = {a, b}
  Vals = {x, y}
  None = None
  Ids = {1, 2, 3}
  MaxVaults = 2
  MaxCrashes = 1
  Habits = {"direct", "overwrite", "alongside"}
SPECIFICATION Spec
INVARIANT SavedIsRead
