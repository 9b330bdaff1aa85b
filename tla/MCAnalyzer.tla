------------------------------ MODULE MCAnalyzer ------------------------------
EXTENDS Analyzer

CONSTANTS c1, c2

\* Responses with a body: to a request with a readable body, to a GET (nil
\* request body), to a request whose body fails to read; and a response
\* rejected by the nil checks.
MCResponses ==
    { [shape |-> "ok", depth |-> 0, reqBody |-> "b1", respBody |-> "r1"],
      [shape |-> "ok", depth |-> 1, reqBody |-> "nil", respBody |-> "r1"],
      [shape |-> "ok", depth |-> 0, reqBody |-> "fail", respBody |-> "r1"],
      [shape |-> "nilURL", depth |-> 0, reqBody |-> "b1", respBody |-> "r1"] }

\* A request at a wrong depth with a nil datum, an item with a nil error,
\* a non-nil error alone.
MCOutputs ==
    { [data |-> <<[kind |-> "req", depth |-> 0], NilDatum>>, errs |-> <<>>],
      [data |-> <<[kind |-> "item", depth |-> 0]>>, errs |-> <<"nil">>],
      [data |-> <<>>, errs |-> <<"err">>] }
=============================================================================
