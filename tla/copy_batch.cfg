CONSTANTS
  NumSources = 3
  Workers = {w1, w2}
  Leaves <- MCLeaves
  Dirs <- MCDirs
  Base <- MCBase
  Taken <- MCTaken
SPECIFICATION Spec
SYMMETRY WorkerSymmetry
INVARIANTS
  TypeOK
  FailureLeavesNothing
  NilMeansWhole
  RowsAgreeWithDisk
  OnlyRealCauses
