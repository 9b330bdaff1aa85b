\* One getter: grow, shrink, Close and every Put/Get path, with the
\* invariants that hold for this interleaving.
CONSTANTS
    BufferCap = 1
    MaxBufferNumber = 2
    GrowFactor = 5
    ShrinkFactor = 10
    p1 = p1
    p2 = p2
    g1 = g1
    g2 = g2
    a = a
    b = b
    c = c
    Putters = {p1, p2}
    Getters = {g1}
    ToPut <- MCToPut
    GetCalls = 3
    NoData = NoData
SPECIFICATION Spec
INVARIANT TypeOK
INVARIANT ItemsConserved
INVARIANT TotalAccounting
INVARIANT BufferNumberAccounting
INVARIANT BufferNumberBounded
