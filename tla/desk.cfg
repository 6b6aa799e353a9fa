\* Each part of the window alone: the path bar and the jobs to the end, the others
\* within a bound on their steps.
CONSTANTS
  Parts = {"commands", "rows", "bar", "jobs", "keyboard"}
  Bound <- BoundOf
  Folders = {"a", "ssh", "trash"}
  RowsOf <- FolderRows
  KindOf <- RowKinds
  RemoteFolders = {"ssh"}
  SmbFolders = {}
  Trash = "trash"
  InArchive = {}
  InVault = {}
  MaxCommands = 1
  Entries <- FiveEntries
  SavedOrders <- BrokenOrders
  Letters = {"a", "b"}
  MaxBuffer = 2
  Paths <- ThreePaths
  Share = "s"
  SizedFolders = {"a", "b"}
  MaxSizes = 2
  Catalog <- SixCommands
  Defaults <- SixBindings
  Presses <- EightPresses
  MaxTabs = 2
SPECIFICATION DeskSpec
INVARIANTS DeskTypeOK PaneIsWhole
PROPERTIES DeletesWhatItListed KeysStayInFields
CHECK_DEADLOCK FALSE
