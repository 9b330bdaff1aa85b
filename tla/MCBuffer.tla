------------------------------- MODULE MCBuffer -------------------------------
EXTENDS Buffer

CONSTANTS p1, p2, g1, c1, c2, d1, d2
=============================================================================
