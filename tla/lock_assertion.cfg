CONSTANT Ops = {p1, p2, p3}
SPECIFICATION LockSpec
INVARIANT UnlockFindsLock
CHECK_DEADLOCK FALSE
