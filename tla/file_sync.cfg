CONSTANTS
    Saves = {s1, s2}
    Clients = {a, b}
    OpenAtFirst = {a}
    Elements = {x}
    Origin = Origin
    Closed = Closed
    Opening = Opening
    Asked = Asked
    Torn = Torn
    Contents <- Models
    Size <- Sizes
    MaxCrashes = 1
    MaxExternals = 1
    MaxChanges = 2
    MaxLoads = 2
SPECIFICATION SyncSpec
INVARIANTS  CalmEditsSurvive
PROPERTY SessionsConverge
CHECK_DEADLOCK FALSE
