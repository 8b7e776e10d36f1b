-------------------------- MODULE MCScheduledTasks --------------------------
(* Small instances of ScheduledTasks for TLC: see the .cfg files. *)
EXTENDS ScheduledTasks, TLC

TaskSymmetry == Permutations(Jobs) \cup Permutations(Procs)
=============================================================================
