CONSTANTS
  Listing <- MCListing
  Home <- MCHome
  Trash <- MCTrash
  Remote <- MCRemote
  Saved <- MCSaved
  SavedActive <- MCSavedActive
  BootId <- MCBootId
  MaxHistory = 1
  MaxSteps = 4
  TabIds = {"t1", "t2", "t3", "t4"}
  MaxCalls = 1
SPECIFICATION MCSpec
INVARIANTS
  TypeOK
  TargetsInView
PROPERTIES
  HistoryIsKept
  RemoteEntryHasNoShell
CHECK_DEADLOCK FALSE
