---------------------------- MODULE MCScheduler -----------------------------
(***************************************************************************)
(* Three ticks: a success, then two consecutive failures of any agents     *)
(* (the case where a cached substitute would show), with duplicate         *)
(* timestamps (gap 0) and two risks to tell evaluations apart.             *)
(***************************************************************************)
EXTENDS Scheduler
=============================================================================
