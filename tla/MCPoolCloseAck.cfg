\* Close racing a Put that waits for a buffer on buffCh: the range loop
\* ends on the closed channel and Put returns nil without storing its item.
CONSTANTS
    BufferCap = 1
    MaxBufferNumber = 2
    GrowFactor = 5
    ShrinkFactor = 10
    p1 = p1
    p2 = p2
    g1 = g1
    g2 = g2
    a = a
    b = b
    c = c
    Putters = {p1, p2}
    Getters = {g1}
    ToPut <- MCToPut
    GetCalls = 1
    NoData = NoData
SPECIFICATION Spec
INVARIANT AckedItemsStored
