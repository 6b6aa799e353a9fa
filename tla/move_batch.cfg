CONSTANTS
  NumSources = 3
  Workers = {w1, w2}
  Leaves <- MCLeaves
  Dirs = {1}
  Base <- MCBase
  Taken <- MCTaken
SPECIFICATION Spec
INVARIANTS
  TypeOK
  NothingLost
  NoHalfMove
  DoneIsMoved
PROPERTY
  Terminates
