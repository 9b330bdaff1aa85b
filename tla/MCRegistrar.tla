----------------------------- MODULE MCRegistrar -----------------------------
(* Three instances: two downloaders, and an analyzer whose MID carries the *)
(* downloader letter, so that Register's type check is exercised.          *)
EXTENDS Registrar

CONSTANTS m1, m2, m3

MCTypeOf == [m \in Modules |-> IF m = m3 THEN "analyzer" ELSE "downloader"]
MCMidType == [m \in Modules |-> "downloader"]
=============================================================================
