CONSTANTS
    Saves = {s1, s2, s3}
    short = short
    long = long
    Torn = Torn
    Contents <- TwoContents
    Size <- Sizes
    MaxCrashes = 1
SPECIFICATION StoreSpec
INVARIANTS StoreTypeOK SemaphoreBalance UnlockFindsEntry
PROPERTY ImplementsPlainFile
CHECK_DEADLOCK FALSE
