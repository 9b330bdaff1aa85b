\* Two getters spinning on an empty pool of two buffers: both pass the
\* unlocked shrink test of getData and both retire their buffer.
CONSTANTS
    BufferCap = 1
    MaxBufferNumber = 2
    GrowFactor = 5
    ShrinkFactor = 10
    p1 = p1
    p2 = p2
    g1 = g1
    g2 = g2
    a = a
    b = b
    c = c
    Putters = {p1}
    Getters = {g1, g2}
    ToPut <- MCToPut
    GetCalls = 1
    NoData = NoData
SPECIFICATION Spec
INVARIANT NeverEmptied
