---------------------------- MODULE MCScheduler ----------------------------
(***************************************************************************)
(* A small instance of Scheduler for TLC: three tasks besides the kernel   *)
(* task may be spawned in all, with a time slice of two ticks.             *)
(***************************************************************************)
EXTENDS Scheduler
MCQuantum == 2
MCMaxId == 3
=============================================================================
