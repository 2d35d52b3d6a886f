------------------------- MODULE MCScheduleManager -------------------------
(* ScheduleManager for TLC: of two showings the second was recorded before. *)
EXTENDS ScheduleManager
=============================================================================
