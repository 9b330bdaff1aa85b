\* Two goroutines making two Analyze calls each on one analyzer with two
\* response parsers.
CONSTANTS
    c1 = c1
    c2 = c2
    NilDatum = NilDatum
    Callers = {c1, c2}
    Calls = 2
    NParsers = 2
    Responses <- MCResponses
    Outputs <- MCOutputs
SPECIFICATION Spec
INVARIANT DepthRule
