--------------------------- MODULE MCScheduleRuntime ---------------------------
(* Small instance of ScheduleRuntime: two dues one tick apart and no grace, so    *)
(* that a late tick meets every misfire policy.                                   *)
EXTENDS ScheduleRuntime
=============================================================================
