-------------------------- MODULE MCSchedulerStatus --------------------------
(* Instantiates SchedulerStatus with up to two goroutines calling          *)
(* Init, Start and Stop.                                                   *)
EXTENDS SchedulerStatus

CONSTANTS c1, c2
=============================================================================
