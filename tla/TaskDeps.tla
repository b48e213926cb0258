------------------------------ MODULE TaskDeps ------------------------------
(***************************************************************************)
(* Tasks with depend clauses and taskgroups, in a team of more than one    *)
(* thread and the CMake build (OMP_COMPLIANT undefined): create_df_task,   *)
(* its map df_map from an address to the future of the last task that      *)
(* writes it, start_taskgroup and end_taskgroup, and how they act on the   *)
(* counters that taskwait and the barrier wait for.  A task without depend *)
(* clauses goes through create_task, which shares those counters.          *)
(*                                                                         *)
(* df_map and in_taskgroup belong to one omp_task_data and are used by its *)
(* own HPX thread only; the counters are shared.  hpx::async and dataflow  *)
(* are HPX's: the task they make runs as an HPX thread of its own once the *)
(* futures it was given are ready, and its own future is ready when its    *)
(* function has returned.  The program ends with one barrier.              *)
(***************************************************************************)
EXTENDS Integers, FiniteSets

CONSTANTS
  Thread,   \* the implicit threads of the team
  Task,     \* the explicit tasks the program may create
  Addr,     \* the addresses in depend clauses
  Creator,  \* the threads and tasks whose code creates tasks
  Depends   \* the depend clauses each of them gives its tasks

ASSUME ThreadAssumption == IsFiniteSet(Thread) /\ Cardinality(Thread) > 1
ASSUME TaskAssumption == IsFiniteSet(Task)
ASSUME DisjointAssumption == Thread \cap Task = {}

\* The entries of dep_list and noalias_dep_list, which are treated alike:
\* the addresses with the flag out, and those without it.
DependList == [in : SUBSET Addr, out : SUBSET Addr]
NoDepends == [in |-> {}, out |-> {}]

ASSUME CreatorAssumption == Creator \subseteq Thread \cup Task

ASSUME DependsAssumption == Depends \in [Creator -> SUBSET DependList]

VARIABLES
  pc,               \* where each implicit thread and explicit task is
  parent,           \* whose num_child_tasks task_setup counts down
  depends,          \* the depend clauses of each task
  dep_futures,      \* the tasks whose futures create_df_task has gathered
  df_map,           \* omp_task_data::df_map: no entry or that of one task
  in_taskgroup,     \* omp_task_data::in_taskgroup
  num_child_tasks,  \* omp_task_data::num_child_tasks
  num_tasks,        \* parallel_region::num_tasks
  elders,           \* history: the tasks of its parent created before a task
  grouped           \* history: the tasks create_df_task made in a taskgroup

mapVars == <<df_map, in_taskgroup>>
taskVars == <<parent, depends, dep_futures, elders, grouped>>
vars == <<pc, taskVars, mapVars, num_child_tasks, num_tasks>>

Actor == Thread \cup Task

Calls == {"body", "count", "launch", "taskwait"}
ThreadPC == Calls \cup {"bar_child", "bar_team", "bar_enter", "done"}
TaskPC == Calls \cup {"unborn", "alloc", "counted", "pending", "dec_child", "dec_team", "done"}

Named(t) == depends[t].in \cup depends[t].out

Init ==
  /\ pc = [a \in Actor |-> IF a \in Thread THEN "body" ELSE "unborn"]
  /\ parent = [t \in Task |-> t]
  /\ depends = [t \in Task |-> NoDepends]
  /\ dep_futures = [t \in Task |-> {}]
  /\ df_map = [a \in Actor |-> [x \in Addr |-> {}]]
  /\ in_taskgroup = [a \in Actor |-> FALSE]
  /\ num_child_tasks = [a \in Actor |-> 0]
  /\ num_tasks = 0
  /\ elders = [t \in Task |-> {}]
  /\ grouped = {}

Goto(a, from, to) ==
  /\ pc[a] = from
  /\ pc' = [pc EXCEPT ![a] = to]

Children(a) == {t \in Task : parent[t] = a}

-----------------------------------------------------------------------------
(* __kmpc_omp_task_with_deps: create_df_task, or create_task when the task *)
(* has no depend clause.                                                   *)

\* The futures of the tasks that last wrote the addresses named.
Gather(a, d) == UNION {df_map[a][x] : x \in d.in \cup d.out}

\* The dependences are gathered, then the task is counted for its parent:
\* not in a taskgroup, unless it comes through create_task.  A team of one
\* thread, in which the code runs the task first, is excluded.
CreateTask(a, t, d) ==
  /\ pc[a] = "body" /\ pc[t] = "unborn"
  /\ pc' = [pc EXCEPT ![a] = "count", ![t] = "alloc"]
  /\ parent' = [parent EXCEPT ![t] = a]
  /\ depends' = [depends EXCEPT ![t] = d]
  /\ dep_futures' = [dep_futures EXCEPT ![t] = Gather(a, d)]
  /\ elders' = [elders EXCEPT ![t] = Children(a)]
  /\ \/ /\ in_taskgroup[a] /\ d # NoDepends
        /\ grouped' = grouped \cup {t}
        /\ UNCHANGED num_child_tasks
     \/ /\ ~in_taskgroup[a] \/ d = NoDepends
        /\ num_child_tasks' = [num_child_tasks EXCEPT ![a] = @ + 1]
        /\ UNCHANGED grouped
  /\ UNCHANGED <<mapVars, num_tasks>>

\* team->num_tasks++
CountTask(a, t) ==
  /\ pc[a] = "count" /\ pc[t] = "alloc" /\ parent[t] = a
  /\ pc' = [pc EXCEPT ![a] = "launch", ![t] = "counted"]
  /\ num_tasks' = num_tasks + 1
  /\ UNCHANGED <<taskVars, mapVars, num_child_tasks>>

\* Mutant: an address in the map keeps its first writer.
LaunchFirstWriter(a, t) ==
  /\ pc[a] = "launch" /\ pc[t] = "counted" /\ parent[t] = a
  /\ pc' = [pc EXCEPT ![a] = "body", ![t] = "pending"]
  /\ df_map' = [df_map EXCEPT ![a] =
       [x \in Addr |-> IF x \in depends[t].out /\ @[x] = {} THEN {t} ELSE @[x]]]
  /\ UNCHANGED <<taskVars, in_taskgroup, num_child_tasks, num_tasks>>

\* hpx::async without futures and dataflow with them, and the task's future
\* becomes the entry of every address it writes.
Launch(a, t) ==
  /\ pc[a] = "launch" /\ pc[t] = "counted" /\ parent[t] = a
  /\ pc' = [pc EXCEPT ![a] = "body", ![t] = "pending"]
  /\ df_map' = [df_map EXCEPT ![a] =
       [x \in Addr |-> IF x \in depends[t].out THEN {t} ELSE @[x]]]
  /\ UNCHANGED <<taskVars, in_taskgroup, num_child_tasks, num_tasks>>

-----------------------------------------------------------------------------
(* df_task_wrapper and task_setup.                                         *)

\* Mutant: when_any in place of when_all.
StartWhenAny(t) ==
  /\ dep_futures[t] = {} \/ \E u \in dep_futures[t] : pc[u] = "done"
  /\ Goto(t, "pending", "body")
  /\ UNCHANGED <<taskVars, mapVars, num_child_tasks, num_tasks>>

\* when_all(dep_futures) is ready; the task has a new omp_task_data.
StartTask(t) ==
  /\ \A u \in dep_futures[t] : pc[u] = "done"
  /\ Goto(t, "pending", "body")
  /\ UNCHANGED <<taskVars, mapVars, num_child_tasks, num_tasks>>

\* task_func returns; a taskgroup is closed in the task that opens it.
EndTask(t) ==
  /\ ~in_taskgroup[t]
  /\ Goto(t, "body", "dec_child")
  /\ UNCHANGED <<taskVars, mapVars, num_child_tasks, num_tasks>>

\* *(parent_task_counter) -= 1, also for a task that was not counted in it.
LeaveParent(t) ==
  /\ Goto(t, "dec_child", "dec_team")
  /\ num_child_tasks' = [num_child_tasks EXCEPT ![parent[t]] = @ - 1]
  /\ UNCHANGED <<taskVars, mapVars, num_tasks>>

\* Mutant: the dataflow task does not count itself down for the team.
ForgetTeam(t) ==
  /\ Goto(t, "dec_team", "done")
  /\ num_tasks' = IF dep_futures[t] = {} THEN num_tasks - 1 ELSE num_tasks
  /\ UNCHANGED <<taskVars, mapVars, num_child_tasks>>

\* team->num_tasks--, then the function returns and the future is ready.
LeaveTeam(t) ==
  /\ Goto(t, "dec_team", "done")
  /\ num_tasks' = num_tasks - 1
  /\ UNCHANGED <<taskVars, mapVars, num_child_tasks>>

-----------------------------------------------------------------------------
(* Taskgroups, task_wait and barrier_wait.                                 *)

StartTaskgroup(a) ==
  /\ pc[a] = "body" /\ ~in_taskgroup[a]
  /\ in_taskgroup' = [in_taskgroup EXCEPT ![a] = TRUE]
  /\ UNCHANGED <<pc, taskVars, df_map, num_child_tasks, num_tasks>>

\* end_taskgroup waits while tg_num_tasks > 0, but nothing ever counts it up:
\* it goes on at once.
EndTaskgroup(a) ==
  /\ pc[a] = "body" /\ in_taskgroup[a]
  /\ in_taskgroup' = [in_taskgroup EXCEPT ![a] = FALSE]
  /\ UNCHANGED <<pc, taskVars, df_map, num_child_tasks, num_tasks>>

\* Mutants: both waits stop one task too early.
OneChildLeft(a) == ~(num_child_tasks[a] > 1)
OneTaskLeft == ~(num_tasks > 1)

ChildrenDone(a) == ~(num_child_tasks[a] > 0)
TeamTasksDone == ~(num_tasks > 0)

TaskWait(a) ==
  /\ Goto(a, "body", "taskwait")
  /\ UNCHANGED <<taskVars, mapVars, num_child_tasks, num_tasks>>

TaskWaitReturn(a) ==
  /\ ChildrenDone(a)
  /\ Goto(a, "taskwait", "body")
  /\ UNCHANGED <<taskVars, mapVars, num_child_tasks, num_tasks>>

BarrierWait(i) ==
  /\ ~in_taskgroup[i]
  /\ Goto(i, "body", "bar_child")
  /\ UNCHANGED <<taskVars, mapVars, num_child_tasks, num_tasks>>

BarrierChildren(i) ==
  /\ ChildrenDone(i)
  /\ Goto(i, "bar_child", "bar_team")
  /\ UNCHANGED <<taskVars, mapVars, num_child_tasks, num_tasks>>

BarrierTeam(i) ==
  /\ TeamTasksDone
  /\ Goto(i, "bar_team", "bar_enter")
  /\ UNCHANGED <<taskVars, mapVars, num_child_tasks, num_tasks>>

\* globalBarrier.wait(), which a team of more than one thread calls, lets the
\* team go when the whole team has called it.
GlobalBarrier ==
  /\ \A i \in Thread : pc[i] = "bar_enter"
  /\ pc' = [a \in Actor |-> IF a \in Thread THEN "done" ELSE pc[a]]
  /\ UNCHANGED <<taskVars, mapVars, num_child_tasks, num_tasks>>

-----------------------------------------------------------------------------

\* The steps of the runtime on behalf of a thread, or of a task.
ActorRuntime(a) ==
  \/ \E t \in Task : CountTask(a, t) \/ Launch(a, t)
  \/ TaskWaitReturn(a)
ThreadRuntime(i) ==
  ActorRuntime(i) \/ BarrierChildren(i) \/ BarrierTeam(i)
TaskRuntime(t) ==
  ActorRuntime(t) \/ StartTask(t) \/ LeaveParent(t) \/ LeaveTeam(t)

\* Tasks are alike until they are created: any one will do for the next.
Fresh(t) == pc[t] = "unborn" /\ t = CHOOSE u \in Task : pc[u] = "unborn"

\* What the program calls.
Program(a) ==
  \/ \E t \in Task, d \in Depends[a] : Fresh(t) /\ CreateTask(a, t, d)
  \/ StartTaskgroup(a) \/ EndTaskgroup(a) \/ TaskWait(a)

Next ==
  \/ \E a \in Creator : Program(a)
  \/ \E i \in Thread : ThreadRuntime(i) \/ BarrierWait(i)
  \/ \E t \in Task : TaskRuntime(t) \/ EndTask(t)
  \/ GlobalBarrier

Spec == Init /\ [][Next]_vars

\* HPX runs every thread that is ready; user code makes its calls finitely
\* often and closes the taskgroups it opens.  A task that calls nothing is
\* always ready to end.
Fairness ==
  /\ WF_vars(GlobalBarrier)
  /\ \A a \in Creator : SF_vars(EndTaskgroup(a))
  /\ \A i \in Thread : WF_vars(ThreadRuntime(i)) /\ SF_vars(BarrierWait(i))
  /\ \A t \in Task : WF_vars(TaskRuntime(t))
  /\ \A t \in Task \ Creator : WF_vars(EndTask(t))
  /\ \A t \in Task \cap Creator : SF_vars(EndTask(t))

FairSpec == Spec /\ Fairness

-----------------------------------------------------------------------------
(* Properties.                                                             *)

Started(t) == pc[t] \in Calls \cup {"dec_child", "dec_team", "done"}

Quiet == \A t \in Task : pc[t] \in {"unborn", "done"}

\* t names an address that u, created before it by the same parent, writes.
DependsOn(t, u) == u \in elders[t] /\ depends[u].out \cap Named(t) # {}

\* The state of create_df_task.
DepsType ==
  /\ pc \in [Actor -> ThreadPC \cup TaskPC]
  /\ \A i \in Thread : pc[i] \in ThreadPC
  /\ \A t \in Task : pc[t] \in TaskPC
  /\ parent \in [Task -> Actor]
  /\ depends \in [Task -> DependList]
  /\ dep_futures \in [Task -> SUBSET Task]
  /\ df_map \in [Actor -> [Addr -> SUBSET Task]]
  /\ elders \in [Task -> SUBSET Task]

\* A task starts only after every earlier task of its parent that writes an
\* address it names has returned, although df_map keeps only the last of the
\* writers: each of them has itself waited for the one before.
DependencesHold ==
  \A t, u \in Task : Started(t) /\ DependsOn(t, u) => pc[u] = "done"

\* The tasks parallel_region::num_tasks stands for.
CountedByTeam ==
  {t \in Task : pc[t] \in Calls \cup {"counted", "pending", "dec_child", "dec_team"}}

\* The tasks a's num_child_tasks stands for, and those it was never counted up
\* for but has been counted down for.
CountedByParent(a) ==
  {t \in Children(a) \ grouped : pc[t] \notin {"unborn", "dec_team", "done"}}
UncountedByParent(a) == {t \in Children(a) \cap grouped : pc[t] \in {"dec_team", "done"}}

\* num_tasks stands for exactly the tasks that are still to count themselves
\* down.  num_child_tasks stands for those of them that are outside taskgroups,
\* less the ones in taskgroups that have counted themselves down all the same.
CountersExact ==
  /\ num_tasks = Cardinality(CountedByTeam)
  /\ \A a \in Actor :
       num_child_tasks[a] =
         Cardinality(CountedByParent(a)) - Cardinality(UncountedByParent(a))

\* task_wait returns only when every task its caller created has run, if its
\* caller has created no task with depend clauses in a taskgroup.
TaskwaitCompletesChildren ==
  [][\A a \in Actor :
       /\ pc[a] = "taskwait" /\ pc'[a] # "taskwait"
       /\ Children(a) \cap grouped = {}
       => \A t \in Children(a) : pc[t] \in {"dec_team", "done"}]_vars

\* A thread comes out of barrier_wait only when no task of the team is left:
\* a task that waits for others is counted from its creation on, and one in a
\* taskgroup is counted for the team though not for its parent.
BarrierCompletesTasks ==
  [][\A i \in Thread :
       pc[i] = "bar_enter" /\ pc'[i] = "done" => Quiet]_vars

\* Every barrier opens, so every task that is created runs: no depend clauses
\* make tasks wait for each other in a circle or for a future that nobody makes
\* ready, and no taskgroup leaves a count that a wait waits for.
RegionEnds == \A i \in Thread : <>(pc[i] = "done")

-----------------------------------------------------------------------------
(* The inductive invariant of DependencesHold.                             *)

\* In create_df_task, its future not yet in df_map.
New(t) == pc[t] \in {"alloc", "counted"}
Launched(t) == pc[t] \notin {"unborn", "alloc", "counted"}

\* A new task belongs to the one call of create_df_task its parent is in; its
\* elders are the tasks its parent has launched.
CreatorInv ==
  \A t \in Task :
    /\ pc[t] = "unborn" => parent[t] = t /\ elders[t] = {}
    /\ pc[t] # "unborn" => parent[t] # t
    /\ pc[t] = "alloc" => pc[parent[t]] = "count"
    /\ pc[t] = "counted" => pc[parent[t]] = "launch"
    /\ New(t) =>
         /\ \A u \in Children(parent[t]) : New(u) => u = t
         /\ elders[t] = Children(parent[t]) \ {t}
    /\ \A u \in elders[t] : parent[u] = parent[t] /\ Launched(u)

\* w is the last of a set of tasks to have been created.
LastOf(w, S) == w \in S /\ \A u \in S \ {w} : u \in elders[w]

\* The tasks a has launched that write x.
Writers(a, x) == {t \in Children(a) : Launched(t) /\ x \in depends[t].out}

\* An address has an entry if a task writes it, and it is the last such task.
MapInv ==
  \A a \in Actor, x \in Addr :
    \/ df_map[a][x] = {} /\ Writers(a, x) = {}
    \/ \E w \in Writers(a, x) : df_map[a][x] = {w} /\ LastOf(w, Writers(a, x))

\* Among the futures a task waits for is that of the last writer of each
\* address it names.
FuturesInv ==
  \A t \in Task : \A x \in Named(t) :
    LET W == {u \in elders[t] : x \in depends[u].out} IN
    W # {} => \E w \in dep_futures[t] : LastOf(w, W)

\* What the theorems of TaskDepsProofs rest on.
DepsInv == DepsType /\ CreatorInv /\ MapInv /\ FuturesInv /\ DependencesHold

-----------------------------------------------------------------------------
(* The inductive invariant of CountersExact and of the two waits.          *)

CountType ==
  /\ in_taskgroup \in [Actor -> BOOLEAN]
  /\ num_child_tasks \in [Actor -> Int]
  /\ num_tasks \in Int
  /\ grouped \subseteq {t \in Task : pc[t] # "unborn"}

\* The last thread that finds num_tasks at 0 finds no task left at all.
BarrierInv == (\A i \in Thread : pc[i] = "bar_enter") => Quiet

\* Kept by every step from a state in which DepsInv holds.
CountInv == CountType /\ CountersExact /\ BarrierInv

-----------------------------------------------------------------------------
(* The order of the tasks as the program sees it.                          *)

StatusAt(p) ==
  CASE p = "unborn" -> "idle"
    [] p \in {"alloc", "counted", "pending"} -> "waiting"
    [] p \in Calls \cup {"dec_child", "dec_team"} -> "run"
    [] OTHER -> "end"

Order == INSTANCE TaskOrder
           WITH status <- [t \in Task |-> StatusAt(pc[t])],
                follows <- {p \in Task \X Task : DependsOn(p[2], p[1])}

\* df_map and the futures keep the order the depend clauses ask for.
ImplementsOrder == Order!Spec
=============================================================================
