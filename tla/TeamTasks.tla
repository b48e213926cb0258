------------------------------ MODULE TeamTasks ------------------------------
(***************************************************************************)
(* One parallel region of the runtime, from fork_worker to its return: the *)
(* implicit threads (thread_setup), the explicit tasks (create_task,       *)
(* task_setup), taskwait (task_wait), the barrier (barrier_wait) and the   *)
(* join.  The build is the CMake one (OMP_COMPLIANT undefined), in which   *)
(* the team counts its tasks in num_tasks, and the team has more than one  *)
(* thread: with one, create_task runs the task inline.                     *)
(*                                                                         *)
(* Every access to an atomic counter is a step of its own.  A loop that    *)
(* yields or sleeps until a counter is no longer positive is a step        *)
(* guarded by that test: each implicit thread and each task is an HPX      *)
(* thread, and gives the processor up in every such loop.  The program is  *)
(* any program whose threads all meet the same NumBarriers barriers and    *)
(* that creates at most the tasks of Task.                                 *)
(***************************************************************************)
EXTENDS Integers, FiniteSets

CONSTANTS
  Thread,       \* the implicit threads, one per thread requested
  Task,         \* the explicit tasks the program may create
  NumBarriers   \* how many barriers every implicit thread goes through

ASSUME ThreadAssumption == IsFiniteSet(Thread) /\ Cardinality(Thread) > 1
ASSUME TaskAssumption == IsFiniteSet(Task)
ASSUME DisjointAssumption == Thread \cap Task = {}
ASSUME NumBarriersAssumption == NumBarriers \in Nat

VARIABLES
  pc,               \* where each implicit thread and explicit task is
  fork_pc,          \* where fork_worker is
  parent,           \* task_setup's parent_task_counter: whose counter it is
  num_child_tasks,  \* omp_task_data::num_child_tasks of each thread and task
  num_tasks,        \* parallel_region::num_tasks
  running_threads,  \* fork_worker's running_threads
  barriers          \* how many barriers each implicit thread has called

vars == <<pc, fork_pc, parent, num_child_tasks, num_tasks, running_threads,
          barriers>>

Actor == Thread \cup Task

\* Where user code and the calls it makes can be, in a thread or in a task.
Calls == {"body", "count", "apply", "taskwait"}

ThreadPC == Calls \cup
  {"unregistered", "start", "bar_child", "bar_team", "bar_enter", "bar_blocked",
   "exit_wait", "exit_dec", "notify", "done"}

TaskPC == Calls \cup
  {"unborn", "alloc", "counted", "pending", "dec_child", "dec_team", "done"}

ForkPC == {"register", "check", "wait", "asleep", "drain", "returned"}

\* The region: the thread_setup calls are not registered yet, every counter
\* is that of a new parallel_region and of new omp_task_data.
Init ==
  /\ pc = [a \in Actor |-> IF a \in Thread THEN "unregistered" ELSE "unborn"]
  /\ fork_pc = "register"
  /\ parent = [t \in Task |-> t]
  /\ num_child_tasks = [a \in Actor |-> 0]
  /\ num_tasks = 0
  /\ running_threads = Cardinality(Thread)
  /\ barriers = [i \in Thread |-> 0]

Goto(a, from, to) ==
  /\ pc[a] = from
  /\ pc' = [pc EXCEPT ![a] = to]

-----------------------------------------------------------------------------
(* create_task, the branch of a team with more than one thread.            *)

\* *(current_task->num_child_tasks) += 1, on a newly allocated thunk.
CreateTask(a, t) ==
  /\ pc[a] = "body" /\ pc[t] = "unborn"
  /\ pc' = [pc EXCEPT ![a] = "count", ![t] = "alloc"]
  /\ parent' = [parent EXCEPT ![t] = a]
  /\ num_child_tasks' = [num_child_tasks EXCEPT ![a] = @ + 1]
  /\ UNCHANGED <<fork_pc, num_tasks, running_threads, barriers>>

\* Mutant: create_task does not count the task for the team.
UncountedTask(a, t) ==
  /\ pc[a] = "count" /\ pc[t] = "alloc" /\ parent[t] = a
  /\ pc' = [pc EXCEPT ![a] = "apply", ![t] = "counted"]
  /\ UNCHANGED <<fork_pc, parent, num_child_tasks, num_tasks, running_threads,
                 barriers>>

\* current_task->team->num_tasks++
CountTask(a, t) ==
  /\ pc[a] = "count" /\ pc[t] = "alloc" /\ parent[t] = a
  /\ pc' = [pc EXCEPT ![a] = "apply", ![t] = "counted"]
  /\ num_tasks' = num_tasks + 1
  /\ UNCHANGED <<fork_pc, parent, num_child_tasks, running_threads, barriers>>

\* hpx::apply(task_setup, ...): from here on the task may run.
ApplyTask(a, t) ==
  /\ pc[a] = "apply" /\ pc[t] = "counted" /\ parent[t] = a
  /\ pc' = [pc EXCEPT ![a] = "body", ![t] = "pending"]
  /\ UNCHANGED <<fork_pc, parent, num_child_tasks, num_tasks, running_threads,
                 barriers>>

-----------------------------------------------------------------------------
(* task_setup: a task runs as an HPX thread of its own.                    *)

StartTask(t) ==
  /\ Goto(t, "pending", "body")
  /\ UNCHANGED <<fork_pc, parent, num_child_tasks, num_tasks, running_threads,
                 barriers>>

\* task_func returns.
EndTask(t) ==
  /\ Goto(t, "body", "dec_child")
  /\ UNCHANGED <<fork_pc, parent, num_child_tasks, num_tasks, running_threads,
                 barriers>>

\* Mutants: the task forgets its parent's counter; it counts itself down on
\* its own counter instead of its parent's.
ForgetParent(t) ==
  /\ Goto(t, "dec_child", "dec_team")
  /\ UNCHANGED <<fork_pc, parent, num_child_tasks, num_tasks, running_threads,
                 barriers>>

OwnCounter(t) ==
  /\ Goto(t, "dec_child", "dec_team")
  /\ num_child_tasks' = [num_child_tasks EXCEPT ![t] = @ - 1]
  /\ UNCHANGED <<fork_pc, parent, num_tasks, running_threads, barriers>>

\* *(parent_task_counter) -= 1
LeaveParent(t) ==
  /\ Goto(t, "dec_child", "dec_team")
  /\ num_child_tasks' = [num_child_tasks EXCEPT ![parent[t]] = @ - 1]
  /\ UNCHANGED <<fork_pc, parent, num_tasks, running_threads, barriers>>

\* Mutant: the task forgets the team's counter.
ForgetTeam(t) ==
  /\ Goto(t, "dec_team", "done")
  /\ UNCHANGED <<fork_pc, parent, num_child_tasks, num_tasks, running_threads,
                 barriers>>

\* team->num_tasks--, the last access to the team, and the thunk is deleted.
LeaveTeam(t) ==
  /\ Goto(t, "dec_team", "done")
  /\ num_tasks' = num_tasks - 1
  /\ UNCHANGED <<fork_pc, parent, num_child_tasks, running_threads, barriers>>

-----------------------------------------------------------------------------
(* task_wait, and barrier_wait, which starts with the same wait.           *)

\* Mutants: both waits stop one task too early.
OneChildLeft(a) == ~(num_child_tasks[a] > 1)

OneTaskLeft == ~(num_tasks > 1)

ChildrenDone(a) == ~(num_child_tasks[a] > 0)

TeamTasksDone == ~(num_tasks > 0)

TaskWait(a) ==
  /\ Goto(a, "body", "taskwait")
  /\ UNCHANGED <<fork_pc, parent, num_child_tasks, num_tasks, running_threads,
                 barriers>>

TaskWaitReturn(a) ==
  /\ ChildrenDone(a)
  /\ Goto(a, "taskwait", "body")
  /\ UNCHANGED <<fork_pc, parent, num_child_tasks, num_tasks, running_threads,
                 barriers>>

BarrierWait(i) ==
  /\ barriers[i] < NumBarriers
  /\ Goto(i, "body", "bar_child")
  /\ barriers' = [barriers EXCEPT ![i] = @ + 1]
  /\ UNCHANGED <<fork_pc, parent, num_child_tasks, num_tasks, running_threads>>

BarrierChildren(i) ==
  /\ ChildrenDone(i)
  /\ Goto(i, "bar_child", "bar_team")
  /\ UNCHANGED <<fork_pc, parent, num_child_tasks, num_tasks, running_threads,
                 barriers>>

\* Mutant: barrier_wait only waits for the caller's own children.
BarrierOwnChildren(i) ==
  /\ Goto(i, "bar_team", "bar_enter")
  /\ UNCHANGED <<fork_pc, parent, num_child_tasks, num_tasks, running_threads,
                 barriers>>

BarrierTeam(i) ==
  /\ TeamTasksDone
  /\ Goto(i, "bar_team", "bar_enter")
  /\ UNCHANGED <<fork_pc, parent, num_child_tasks, num_tasks, running_threads,
                 barriers>>

\* globalBarrier.wait(): the last of the team to call it releases the others.
GlobalBarrier(i) ==
  /\ pc[i] = "bar_enter"
  /\ \/ /\ \A j \in Thread \ {i} : pc[j] = "bar_blocked"
        /\ pc' = [a \in Actor |-> IF a \in Thread THEN "body" ELSE pc[a]]
     \/ /\ \E j \in Thread \ {i} : pc[j] # "bar_blocked"
        /\ pc' = [pc EXCEPT ![i] = "bar_blocked"]
  /\ UNCHANGED <<fork_pc, parent, num_child_tasks, num_tasks, running_threads,
                 barriers>>

-----------------------------------------------------------------------------
(* thread_setup: its start, and its end once the outlined function returns.*)

StartThread(i) ==
  /\ Goto(i, "start", "body")
  /\ UNCHANGED <<fork_pc, parent, num_child_tasks, num_tasks, running_threads,
                 barriers>>

EndThread(i) ==
  /\ barriers[i] = NumBarriers
  /\ Goto(i, "body", "exit_wait")
  /\ UNCHANGED <<fork_pc, parent, num_child_tasks, num_tasks, running_threads,
                 barriers>>

ExitChildren(i) ==
  /\ ChildrenDone(i)
  /\ Goto(i, "exit_wait", "exit_dec")
  /\ UNCHANGED <<fork_pc, parent, num_child_tasks, num_tasks, running_threads,
                 barriers>>

\* if(--running_threads == 0): the last one goes on to notify.
ExitDecrement(i) ==
  /\ Goto(i, "exit_dec", IF running_threads = 1 THEN "notify" ELSE "done")
  /\ running_threads' = running_threads - 1
  /\ UNCHANGED <<fork_pc, parent, num_child_tasks, num_tasks, barriers>>

\* cond.notify_all(), called without barrier_mtx: it wakes fork_worker only
\* if fork_worker is already asleep.
ExitNotify(i) ==
  /\ Goto(i, "notify", "done")
  /\ fork_pc' = IF fork_pc = "asleep" THEN "check" ELSE fork_pc
  /\ UNCHANGED <<parent, num_child_tasks, num_tasks, running_threads, barriers>>

-----------------------------------------------------------------------------
(* fork_worker, on the HPX thread that meets the parallel construct.  The  *)
(* threads start while the loop that registers them is still running.      *)

\* Mutant: the loop stops one thread short.
RegisterAllButOne(i) ==
  /\ fork_pc = "register"
  /\ Goto(i, "unregistered", "start")
  /\ fork_pc' = IF Cardinality({j \in Thread : pc[j] = "unregistered"}) > 2
                THEN "register" ELSE "check"
  /\ UNCHANGED <<parent, num_child_tasks, num_tasks, running_threads, barriers>>

ForkRegister(i) ==
  /\ fork_pc = "register"
  /\ Goto(i, "unregistered", "start")
  /\ fork_pc' = IF \E j \in Thread \ {i} : pc[j] = "unregistered"
                THEN "register" ELSE "check"
  /\ UNCHANGED <<parent, num_child_tasks, num_tasks, running_threads, barriers>>

\* while( running_threads > 0 ), with barrier_mtx, which only it ever takes.
ForkCheck ==
  /\ fork_pc = "check"
  /\ fork_pc' = IF running_threads > 0 THEN "wait" ELSE "drain"
  /\ UNCHANGED <<pc, parent, num_child_tasks, num_tasks, running_threads,
                 barriers>>

\* cond.wait(lk) puts it in the queue that notify_all empties.
ForkSleep ==
  /\ fork_pc = "wait"
  /\ fork_pc' = "asleep"
  /\ UNCHANGED <<pc, parent, num_child_tasks, num_tasks, running_threads,
                 barriers>>

\* Mutant: the FIXME above the last loop is followed and the loop removed.
ForkReturnUndrained ==
  /\ fork_pc = "drain"
  /\ fork_pc' = "returned"
  /\ UNCHANGED <<pc, parent, num_child_tasks, num_tasks, running_threads,
                 barriers>>

\* while(team.num_tasks > 0), then the frame with the team, cond and the
\* counters goes away.
ForkReturn ==
  /\ fork_pc = "drain"
  /\ TeamTasksDone
  /\ fork_pc' = "returned"
  /\ UNCHANGED <<pc, parent, num_child_tasks, num_tasks, running_threads,
                 barriers>>

-----------------------------------------------------------------------------

ForkNext == (\E i \in Thread : ForkRegister(i)) \/ ForkCheck \/ ForkSleep \/ ForkReturn

\* The steps of the runtime on behalf of thread i, of task t.
ThreadRuntime(i) ==
  \/ \E t \in Task : CountTask(i, t) \/ ApplyTask(i, t)
  \/ TaskWaitReturn(i) \/ BarrierChildren(i) \/ BarrierTeam(i) \/ GlobalBarrier(i)
  \/ StartThread(i) \/ ExitChildren(i) \/ ExitDecrement(i) \/ ExitNotify(i)

TaskRuntime(t) ==
  \/ \E u \in Task : CountTask(t, u) \/ ApplyTask(t, u)
  \/ TaskWaitReturn(t) \/ StartTask(t) \/ LeaveParent(t) \/ LeaveTeam(t)

\* The steps of the program: what user code calls next, and its end.
ThreadEnds(i) == BarrierWait(i) \/ EndThread(i)

Program ==
  \/ \E a \in Actor : TaskWait(a) \/ \E t \in Task : CreateTask(a, t)
  \/ \E i \in Thread : ThreadEnds(i)
  \/ \E t \in Task : EndTask(t)

Next ==
  \/ ForkNext
  \/ \E i \in Thread : ThreadRuntime(i)
  \/ \E t \in Task : TaskRuntime(t)
  \/ Program

Spec == Init /\ [][Next]_vars

\* HPX runs every thread that is ready; user code makes its calls finitely
\* often, so it always gets to its next barrier or to its end.
Fairness ==
  /\ WF_vars(ForkNext)
  /\ \A i \in Thread : WF_vars(ThreadRuntime(i)) /\ SF_vars(ThreadEnds(i))
  /\ \A t \in Task : WF_vars(TaskRuntime(t)) /\ SF_vars(EndTask(t))

FairSpec == Spec /\ Fairness

-----------------------------------------------------------------------------
(* Properties.                                                             *)

Quiet == \A t \in Task : pc[t] \in {"unborn", "done"}

\* The tasks parallel_region::num_tasks stands for.
CountedByTeam ==
  {t \in Task : pc[t] \in Calls \cup {"counted", "pending", "dec_child", "dec_team"}}

\* The tasks a's num_child_tasks stands for.
CountedByParent(a) ==
  {t \in Task : parent[t] = a /\
                pc[t] \in Calls \cup {"alloc", "counted", "pending", "dec_child"}}

\* The threads fork_worker's running_threads stands for.
Running == {i \in Thread : pc[i] \notin {"notify", "done"}}

\* Every thread and task is in its domain, and no counter is ever negative.
TypeOK ==
  /\ pc \in [Actor -> ThreadPC \cup TaskPC]
  /\ \A i \in Thread : pc[i] \in ThreadPC
  /\ \A t \in Task : pc[t] \in TaskPC
  /\ fork_pc \in ForkPC
  /\ parent \in [Task -> Actor]
  /\ num_child_tasks \in [Actor -> Nat]
  /\ num_tasks \in Nat
  /\ running_threads \in Nat
  /\ barriers \in [Thread -> Nat]

\* The three kinds of counter that create_task, task_setup and thread_setup
\* update one by one stand at every step for exactly the tasks and threads
\* that are still to update them back: none is counted twice or forgotten.
CountersExact ==
  /\ num_tasks = Cardinality(CountedByTeam)
  /\ \A a \in Actor : num_child_tasks[a] = Cardinality(CountedByParent(a))
  /\ running_threads = Cardinality(Running)

\* A thread comes out of barrier_wait only when no task of the team is left:
\* a thread that waited for num_tasks early cannot be overtaken by the tasks
\* that later threads, or tasks of theirs, created before their own wait.
BarrierCompletesTasks ==
  [][\A i \in Thread :
       pc[i] \in {"bar_enter", "bar_blocked"} /\ pc'[i] = "body" => Quiet]_vars

\* task_wait returns only when every task its caller created has run.
TaskwaitCompletesChildren ==
  [][\A a \in Actor :
       pc[a] = "taskwait" /\ pc'[a] # "taskwait" =>
         \A t \in Task : parent[t] = a => pc[t] \in {"dec_team", "done"}]_vars

\* Once fork_worker has returned, and the team with it, every implicit thread
\* has left the outlined function and no task is left to touch the team.
TeamOutlivesTasks ==
  fork_pc = "returned" =>
    Quiet /\ \A i \in Thread : pc[i] \in {"notify", "done"}

-----------------------------------------------------------------------------
(* The inductive invariant: why the waits are enough.                      *)

\* A thunk that create_task has counted for its parent but not handed to HPX
\* yet belongs to the one call of create_task its parent is in.
CreatorInv ==
  /\ \A t \in Task :
       /\ pc[t] = "alloc" => pc[parent[t]] = "count"
       /\ pc[t] = "counted" => pc[parent[t]] = "apply"
       /\ pc[t] = "unborn" => parent[t] = t
  /\ \A t, u \in Task :
       /\ pc[t] \in {"alloc", "counted"} /\ pc[u] \in {"alloc", "counted"}
       /\ parent[t] = parent[u]
       => t = u

\* The last thread that finds num_tasks at 0 finds no task left at all.
BarrierInv ==
  (\A i \in Thread : pc[i] \in {"bar_enter", "bar_blocked"}) => Quiet

\* fork_worker leaves its loop after every thread, and returns after every task.
JoinInv ==
  /\ fork_pc \in {"drain", "returned"} =>
       \A i \in Thread : pc[i] \in {"notify", "done"}
  /\ fork_pc = "returned" => Quiet

\* The invariant the theorems of TeamTasksProofs rest on: exact counters, one
\* creator per new task, and what the end of each wait implies.
IInv == TypeOK /\ CountersExact /\ CreatorInv /\ BarrierInv /\ JoinInv

-----------------------------------------------------------------------------
(* Liveness.                                                               *)

\* A task handed to hpx::apply runs to its end, taskwaits in it included.
TasksEnd == \A t \in Task : pc[t] = "pending" ~> pc[t] = "done"

\* Every thread of the team ends, and so does every task it created.
ThreadsEnd == \A i \in Thread : <>(pc[i] = "done")

-----------------------------------------------------------------------------
(* The region as the program sees it.                                      *)

StatusAt(p) ==
  CASE p \in {"unregistered", "start", "unborn"} -> "idle"
    [] p \in Calls \cup {"alloc", "counted", "pending"} ->
         IF p = "taskwait" THEN p ELSE "run"
    [] p \in {"bar_child", "bar_team", "bar_enter", "bar_blocked"} -> "barrier"
    [] OTHER -> "end"

Region == INSTANCE ParallelRegion
            WITH status <- [a \in Actor |-> StatusAt(pc[a])],
                 open <- fork_pc # "returned"

\* The counters and loops of the runtime give the program a parallel region.
ImplementsRegion == Region!Spec

-----------------------------------------------------------------------------
(* What comments of the code claim, and the code does not do.              *)

\* "fufills the requirements of an OpenMP barrier": fork_worker returns.
ForkReturns == <>(fork_pc = "returned")
=============================================================================
