\* Violated, and so is OnlyRealCauses in its place (README, section 3).
CONSTANTS
  NumSources = 3
  Workers = {w1}
  Leaves <- MCLeaves
  Dirs = {1}
  Base <- MCBase
  Taken <- MCTaken
SPECIFICATION Spec
INVARIANT CanceledByUser
