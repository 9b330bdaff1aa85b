\* Two goroutines calling Get concurrently under the read lock.
CONSTANTS
    c1 = c1
    c2 = c2
    Start = 1
    Max = 3
    Callers = {c1, c2}
    Calls <- MCCallsRace
SPECIFICATION Spec
INVARIANT UniqueSerials
