\* One goroutine driving the scheduler through every sequence of Init, Start and Stop outcomes.
CONSTANTS
    c1 = c1
    c2 = c2
    Callers = {c1}
    AllowPanic = TRUE
SPECIFICATION FairSpec
INVARIANT TypeOK
INVARIANT RunningConsistent
PROPERTY LegalTransitions
PROPERTY StatusSettles
