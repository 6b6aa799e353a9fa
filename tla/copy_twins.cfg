CONSTANTS
  NumSources = 2
  Workers = {w1}
  Leaves <- TwinLeaves
  Dirs = {1, 2}
  Base <- TwinBase
  Taken = {}
SPECIFICATION Spec
INVARIANT
  SiblingsStillCopy
