CONSTANTS
    h1 = h1
    h2 = h2
    m1 = m1
    m2 = m2
    MetaFiles = {m1, m2}
    Handlers = {h1, h2}
    FolderCount = 2
    FolderOf <- Places
    Types <- Declared
    Requests = {q}
    Loop = Loop
    Absent = Absent
    Broken = Broken
    Asked = Asked
    Unseen = Unseen
    AtFirst <- OneFile
    ReportedBefore = {m1, h1}
    MaxVersion = 2
    MaxChanges = 2
    MaxFolders = 2
SPECIFICATION ReloadSpec
INVARIANTS CachesMatchSpec SpecIsOnDisk HandlersAreOnDisk
PROPERTY LoopComesToRest
CHECK_DEADLOCK FALSE
