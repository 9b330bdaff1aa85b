\* A panic while Start launches the workers: the status defer writes STARTED before the recover sets err.
CONSTANTS
    c1 = c1
    c2 = c2
    Callers = {c1}
    AllowPanic = TRUE
SPECIFICATION Spec
INVARIANT StartErrorRollsBack
