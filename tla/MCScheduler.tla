---------------------------- MODULE MCScheduler ----------------------------
(***************************************************************************)
(* Scheduler.tla with three threads to create.                             *)
(***************************************************************************)
EXTENDS Scheduler
=============================================================================
