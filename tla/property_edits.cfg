CONSTANTS
    d = d
    v = v
    Elements = {e1, e2}
    Values = {d, v}
    Default = d
    Hole = Hole
    Gone = Gone
    NoElement = NoElement
    Hooks = {hook}
    Lower = 1
    Upper = 2
    MaxEdits = 3
    MaxClicks = 2
    MaxElsewhere = 1
    Lists <- SmallLists
SPECIFICATION PropertySpec
SYMMETRY Alike
INVARIANT ViewIsInStep
PROPERTY BoundsAreKept
CHECK_DEADLOCK FALSE
