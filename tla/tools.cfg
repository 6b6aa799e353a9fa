\* Each window alone: the map, the terminal and the trash to the end, the others within a
\* bound on their steps.  A folder of this machine and one on MEGA; a plain file and one in a
\* protected archive; two places of one name, one of them on another disk than the trash.
CONSTANTS
  Parts = {"finder", "map", "search", "texts", "prompts", "shells", "trash"}
  Bound <- MCBound
  Costs = {"blank", "a"}
  Blank = "blank"
  Pcts = {90}
  Hashes = {"visual", "ocr"}
  FilesOf <- MCFilesOf
  Scans = {1, 2}
  MaxScanCalls = 2
  MapFolders = {"d/", "d", "a", "b"}
  Under <- MCUnder
  Real <- MCReal
  MaxScans = 3
  Queries = {"", "a"}
  Roots = {"l", "mega"}
  RemoteRoots = {"mega"}
  Found = {"x"}
  SavedFields <- MCSaved
  MaxSearches = 2
  MaxHits = 2
  TextFiles = {"a", "z"}
  Protected = {"z"}
  MaxEdits = 2
  MaxVisits = 3
  VaultPaths = {"v", "w"}
  Regular = {"w"}
  Images = {"i", "k"}
  MaxCalls = 3
  Folders = {"a", "b"}
  Unsupported = {"b"}
  MaxViews = 2
  Callers = {"c"}
  Places = {"p", "q"}
  OtherDevice = {"q"}
  Copies = 3
  MaxFiles = 3
  MaxFaults = 1
SPECIFICATION ToolsSpec
INVARIANTS ToolsTypeOK NothingIsMixedUp WhatRunsIsTracked TrashKeepsWhatItTook
CHECK_DEADLOCK FALSE
