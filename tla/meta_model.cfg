SPECIFICATION MetaSpec
CONSTANTS
    net = net
    box = box
    pool = pool
    dot = dot
    mark = mark
    line = line
    link = link
    extra = extra
    NoType = NoType
    Any = Any
    PrimePalette = PrimePalette
    GraphTypes <- MCGraphTypes
    ContainerTypes <- MCContainerTypes
    PlainNodeTypes <- MCPlainNodeTypes
    EdgeTypes <- MCEdgeTypes
    Palettes <- MCPalettes
    Languages <- MCLanguages
INVARIANT CreatableAsDeclared
INVARIANT SubtypesSubstitute
INVARIANT PaletteIsComplete
PROPERTY LoadingEnds
CHECK_DEADLOCK FALSE
