------------------------------ MODULE TaskOrder ------------------------------
(***************************************************************************)
(* What depend clauses promise the program: a growing order between tasks, *)
(* in which a new task comes after some of those there are, and no task    *)
(* starts before those it comes after have ended.  TaskDeps, which models  *)
(* create_df_task, is shown to implement it for flow and output            *)
(* dependences: a task comes after those that write an address it names.   *)
(***************************************************************************)

CONSTANT Task   \* the tasks that may be created

VARIABLES
  status,   \* what each task is doing
  follows   \* <<u, t>>: task t may start only after task u has ended

vars == <<status, follows>>

Status == {"idle", "waiting", "run", "end"}

Init ==
  /\ status = [t \in Task |-> "idle"]
  /\ follows = {}

Move(t, from, to) ==
  /\ status[t] = from
  /\ status' = [status EXCEPT ![t] = to]

\* A new task follows some of the tasks there are; none follows it yet.
Create(t) ==
  /\ Move(t, "idle", "waiting")
  /\ \E S \in SUBSET {u \in Task : status[u] # "idle"} :
       follows' = follows \cup (S \X {t})

Start(t) ==
  /\ \A u \in Task : <<u, t>> \in follows => status[u] = "end"
  /\ Move(t, "waiting", "run")
  /\ UNCHANGED follows

End(t) ==
  /\ Move(t, "run", "end")
  /\ UNCHANGED follows

Next == \E t \in Task : Create(t) \/ Start(t) \/ End(t)

Spec == Init /\ [][Next]_vars
=============================================================================
