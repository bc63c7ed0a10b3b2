CONSTANTS
    n1 = n1
    n2 = n2
    n3 = n3
    v = v
    w = w
    area = area
    outer = outer
    line = line
    Node = {n1, n2, n3}
    Way = {v, w}
    Relation = {area, outer, line}
    WayNodes <- NodesOfWays
    Members <- MembersOfRelations
    Shape <- Shapes
    Tagged = {n3, v, w, area, line}
    Inputs <- SomeInputs
    Limits <- Sizes
SPECIFICATION FairSpec
INVARIANT TypeOK
INVARIANT NothingDropped
INVARIANT ClosedIsComplete
INVARIANT TornForAReason
INVARIANT CacheIsWindow
PROPERTY Terminates
