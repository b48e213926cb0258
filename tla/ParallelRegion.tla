--------------------------- MODULE ParallelRegion ---------------------------
(***************************************************************************)
(* What one OpenMP parallel region promises the program, with no counter   *)
(* and no lock in it: a team of implicit threads, the explicit tasks they  *)
(* and their tasks create, the barrier, the taskwait and the end of the    *)
(* region.  TeamTasks, which models the code of hpx_runtime.cpp, is shown  *)
(* to implement it.                                                        *)
(***************************************************************************)

CONSTANTS
  Thread,   \* the implicit threads of the team
  Task      \* the explicit tasks the region may create

VARIABLES
  status,   \* what each thread and task is doing
  parent,   \* the thread or task that created a task (itself: not created)
  open      \* FALSE once the construct that opened the region has returned

vars == <<status, parent, open>>

Actor == Thread \cup Task

Status == {"idle", "run", "taskwait", "barrier", "end"}

\* No created task is unfinished.
Quiet == \A t \in Task : status[t] \in {"idle", "end"}

Init ==
  /\ status = [a \in Actor |-> "idle"]
  /\ parent = [t \in Task |-> t]
  /\ open = TRUE

-----------------------------------------------------------------------------

Move(a, from, to) ==
  /\ status[a] = from
  /\ status' = [status EXCEPT ![a] = to]

Begin(i) ==
  /\ Move(i, "idle", "run")
  /\ UNCHANGED <<parent, open>>

Create(a, t) ==
  /\ status[a] = "run"
  /\ Move(t, "idle", "run")
  /\ parent' = [parent EXCEPT ![t] = a]
  /\ UNCHANGED open

TaskWait(a) ==
  /\ Move(a, "run", "taskwait")
  /\ UNCHANGED <<parent, open>>

\* A taskwait returns only when every task its caller created has ended.
TaskWaitReturn(a) ==
  /\ \A t \in Task : parent[t] = a => status[t] = "end"
  /\ Move(a, "taskwait", "run")
  /\ UNCHANGED <<parent, open>>

Arrive(i) ==
  /\ Move(i, "run", "barrier")
  /\ UNCHANGED <<parent, open>>

\* A barrier opens only when the whole team is in it and no task is left.
Release ==
  /\ \A i \in Thread : status[i] = "barrier"
  /\ Quiet
  /\ status' = [a \in Actor |-> IF a \in Thread THEN "run" ELSE status[a]]
  /\ UNCHANGED <<parent, open>>

End(a) ==
  /\ Move(a, "run", "end")
  /\ UNCHANGED <<parent, open>>

\* The region ends only when the whole team has and no task is left.
Close ==
  /\ open
  /\ \A i \in Thread : status[i] = "end"
  /\ Quiet
  /\ open' = FALSE
  /\ UNCHANGED <<status, parent>>

Next ==
  \/ \E i \in Thread : Begin(i) \/ Arrive(i)
  \/ \E a \in Actor : TaskWait(a) \/ TaskWaitReturn(a) \/ End(a)
  \/ \E a \in Actor, t \in Task : Create(a, t)
  \/ Release
  \/ Close

Spec == Init /\ [][Next]_vars
=============================================================================
