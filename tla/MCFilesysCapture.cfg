CONSTANTS
    FolderNames = {dcim}
    FileNames = {f, g, h, i}
    MaxDepth = 0
    Keep = 2
    MaxNews = 0
    MaxNewDirs = 0
    InfoFields = {"permissions"}
    InfoDepths = {}
    NewsDepths = {}
    FaultDepths = {}
    MaxFaults = 0
    UploadDepths = {}
    HostCaptures = TRUE
    Nil = Nil
SPECIFICATION Spec
INVARIANT CaptureStaysFetchable
