\* Register, Get, Clear and Unregister over two downloaders and a mislabeled
\* analyzer.  Unregister ends the process (fatal runtime error), so the
\* crashed state has no successor: deadlock is not checked.
CONSTANTS
    m1 = m1
    m2 = m2
    m3 = m3
    NoModule = NoModule
    Modules = {m1, m2, m3}
    Types = {"downloader", "analyzer"}
    TypeOf <- MCTypeOf
    MidType <- MCMidType
    Scores = {0, 1, 2, 3}
SPECIFICATION Spec
INVARIANT GetReturnsRightType
INVARIANT SelectsMinimumWhenScored
CHECK_DEADLOCK FALSE
