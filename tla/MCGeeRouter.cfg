\* Routes registered and requests handled in any order, for GET and POST.
CONSTANTS
    Methods = {"GET", "POST"}
    Patterns <- MCPatterns
    Paths <- MCPaths
    NoRoute = NoRoute
    NilHandler = NilHandler
    NotFound = NotFound
SPECIFICATION Spec
INVARIANT MatchedRouteServed
