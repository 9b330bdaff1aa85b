------------------------------- MODULE MCPool -------------------------------
(* Instantiates Pool for TLC: two putters, buffers of capacity 1, at most  *)
(* two buffers, and the code's thresholds 5 and 10.                        *)
EXTENDS Pool

CONSTANTS p1, p2, g1, g2, a, b, c

\* p1 puts two items, so its second Put meets a full buffer and grows the
\* pool; p2 puts one, racing p1 for the buffers and for the grow.
MCToPut == [p \in Putters |-> IF p = p1 THEN <<a, b>> ELSE <<c>>]
=============================================================================
