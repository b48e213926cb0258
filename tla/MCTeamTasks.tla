---------------------------- MODULE MCTeamTasks ----------------------------
(* TeamTasks on a small instance. *)
EXTENDS TeamTasks, TLC

\* Threads are alike, and so are tasks.
Symmetry == Permutations(Thread) \cup Permutations(Task)
=============================================================================
