CONSTANTS
    FolderNames = {dcim}
    FileNames = {f}
    MaxDepth = 2
    Keep = 1
    MaxNews = 1
    MaxNewDirs = 1
    InfoFields = {"permissions"}
    InfoDepths = {2}
    NewsDepths = {2}
    FaultDepths = {0, 1}
    MaxFaults = 1
    UploadDepths = {1}
    HostCaptures = TRUE
    Nil = Nil
SPECIFICATION Spec
INVARIANTS TypeOK LruIntact CleanIsExact KnownFoldersExact ServesCurrent
PROPERTIES KeepsRecentlyUsed
