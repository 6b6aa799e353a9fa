\* Two groups that share a file, on the way to the merge.
CONSTANTS
  Parts = {"finder"}
  Bound <- MCBound
  Costs = {"blank", "a"}
  Blank = "blank"
  Pcts = {90}
  Hashes = {"visual", "ocr"}
  FilesOf <- MCFilesOf
  Scans = {1, 2}
  MaxScanCalls = 2
  MapFolders = {"d/", "d", "a", "b"}
  Under <- MCUnder
  Real <- MCReal
  MaxScans = 3
  Queries = {"", "a"}
  Roots = {"l", "mega"}
  RemoteRoots = {"mega"}
  Found = {"x"}
  SavedFields <- MCSaved
  MaxSearches = 2
  MaxHits = 2
  TextFiles = {"a", "z"}
  Protected = {"z"}
  MaxEdits = 2
  MaxVisits = 3
  VaultPaths = {"v", "w"}
  Regular = {"w"}
  Images = {"i", "k"}
  MaxCalls = 3
  Folders = {"a", "b"}
  Unsupported = {"b"}
  MaxViews = 2
  Callers = {"c"}
  Places = {"p", "q"}
  OtherDevice = {"q"}
  Copies = 3
  MaxFiles = 3
  MaxFaults = 1
SPECIFICATION ToolsSpec
INVARIANT KeptIsNotDeleted
CHECK_DEADLOCK FALSE
