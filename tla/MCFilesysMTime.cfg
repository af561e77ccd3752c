CONSTANTS
    FolderNames = {dcim}
    FileNames = {f}
    MaxDepth = 2
    Keep = 1
    MaxNews = 1
    MaxNewDirs = 1
    InfoFields = {"mtime"}
    InfoDepths = {2}
    NewsDepths = {2}
    FaultDepths = {}
    MaxFaults = 0
    UploadDepths = {1}
    HostCaptures = FALSE
    Nil = Nil
SPECIFICATION Spec
INVARIANT ServesCurrent
