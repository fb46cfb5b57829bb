CONSTANT Ops = {p1, p2, p3, p4}
SPECIFICATION LockSpec
INVARIANTS TypeOK NoLostWakeup TokenBalance
PROPERTY WaiterServed
CHECK_DEADLOCK FALSE
