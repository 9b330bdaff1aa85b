\* Two goroutines calling Init, Start and Stop concurrently: a Start whose check failed writes back a stale transient status, which then never changes.
CONSTANTS
    c1 = c1
    c2 = c2
    Callers = {c1, c2}
    AllowPanic = FALSE
SPECIFICATION FairSpec
PROPERTY StatusSettles
