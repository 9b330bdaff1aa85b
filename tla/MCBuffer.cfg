\* Two putters looping on Put, a getter and two closers on a buffer of
\* capacity 2.
CONSTANTS
    p1 = p1
    p2 = p2
    g1 = g1
    c1 = c1
    c2 = c2
    d1 = d1
    d2 = d2
    Cap = 2
    Data = {d1, d2}
    Putters = {p1, p2}
    Getters = {g1}
    Closers = {c1, c2}
SPECIFICATION Spec
INVARIANT NoSendOnClosed
PROPERTY CloseCompletes
