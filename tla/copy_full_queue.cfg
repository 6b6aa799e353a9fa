CONSTANTS
  NumSources = 1
  Workers = {w1}
  Leaves <- FullLeaves
  Dirs <- MCDirs
  Base <- FullBase
  Taken = {}
SPECIFICATION Spec
PROPERTY
  Terminates
