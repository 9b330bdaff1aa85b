---------------------------- MODULE MCSNGenerator ----------------------------
(* Instantiates SNGenerator: serials 1..3, two calling goroutines. *)
EXTENDS SNGenerator

CONSTANTS c1, c2

\* Two goroutines making one cycle's worth of calls between them.
MCCallsRace == [c \in Callers |-> IF c = c1 THEN 2 ELSE 1]
=============================================================================
