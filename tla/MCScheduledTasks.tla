-------------------------- MODULE MCScheduledTasks --------------------------
(* One task and two goroutines: ticks and manual starts overlap, with one  *)
(* request of the user at a time in between.                               *)
EXTENDS ScheduledTasks
=============================================================================
