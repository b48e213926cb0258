------------------------------ MODULE ForkMain ------------------------------
(***************************************************************************)
(* hpxMP as threads that are not HPX's use it, the main thread of a        *)
(* program for one.  Each call begins with start_backend; the first one    *)
(* starts HPX (start_hpx) and waits until wait_for_startup has run there.  *)
(* fork hands the region over to an HPX thread (fork_and_sync) and waits   *)
(* for it.  All these threads share one omp_task_data, initial_thread,     *)
(* whose threads_requested fork_worker reads three times.                  *)
(*                                                                         *)
(* Both waits are a std::mutex, a condition variable and a flag in the     *)
(* frame of the waiting thread.  A critical section of the waiting thread  *)
(* is one step; its partner holds the mutex over several.  Either wait may *)
(* wake up by itself, which fork's loop bears and the if of start_hpx does *)
(* not.  A region is what TeamTasks makes of it: its threads make tasks,   *)
(* each counts itself down in running_threads, and the last one notifies   *)
(* fork_worker, without a mutex.                                           *)
(***************************************************************************)
EXTENDS Integers, Sequences, FiniteSets

CONSTANTS
  Caller,            \* threads that are not HPX's
  Programs,          \* the calls each of them makes, in a program
  FirstCaller,       \* those that may call before a first call has returned
  InitialNumThreads, \* icv.nthreads: OMP_NUM_THREADS or the processors
  None               \* no caller

\* A call is a parallel region, or omp_set_num_threads (or a num_threads
\* clause) with a number above 0.
Region == 0

ASSUME CallerAssumption == IsFiniteSet(Caller) /\ FirstCaller \subseteq Caller
ASSUME NoneAssumption == None \notin Caller
ASSUME ProgramsAssumption == Programs \subseteq [Caller -> Seq(Nat)]
ASSUME NumberAssumption == InitialNumThreads \in Nat \ {0}

VARIABLES
  external,           \* external_hpx: the application runs HPX itself
  program,            \* the calls each caller has still to make
  pc,                 \* where each caller is
  hpx_backend,        \* the hpx_runtime in use: the caller that made it
  startup,            \* where wait_for_startup of each start of HPX is
  threads_requested,  \* that of initial_thread of each hpx_runtime
  current_task,       \* the hpx_runtime whose initial_thread a caller forks from
  worker,             \* where fork_and_sync is for each caller
  woken,              \* history: whose wait in start_hpx woke up by itself
  running,            \* the flag `running' of fork
  num_threads,        \* parallel_region::num_threads of each caller's region
  running_threads,    \* fork_worker's counter
  made,               \* the threads fork_worker has registered: its i
  live,               \* those of them that have not counted themselves down
  notifiers,          \* those that have to call notify_all: 0 or 1 in a region
  tasks_left,         \* num_tasks of the team is above 0
  asked               \* history: what a caller has asked for its next region

startVars == <<external, hpx_backend, startup, woken>>
regionVars == <<num_threads, running_threads, made, live, notifiers, tasks_left>>
vars == <<program, pc, startVars, threads_requested, current_task, worker,
          running, regionVars, asked>>

CallerPC == {"idle", "test", "construct", "start_lock", "start_asleep", "start_relock",
             "reset", "call", "fork_lock", "fork_asleep", "fork_reset"}
StartPC == {"none", "lock", "notify", "unlock", "done"}
WorkerPC == {"none", "team", "count", "register", "check", "wait", "asleep", "drain",
             "lock", "notify", "unlock"}

Init ==
  /\ external \in BOOLEAN
  /\ program \in Programs
  /\ pc = [c \in Caller |-> "idle"]
  /\ hpx_backend = None
  /\ startup = [c \in Caller |-> "none"]
  /\ threads_requested = [c \in Caller |-> InitialNumThreads]
  /\ woken = {}
  /\ current_task = [c \in Caller |-> None]
  /\ worker = [c \in Caller |-> "none"]
  /\ running = [c \in Caller |-> FALSE]
  /\ num_threads = [c \in Caller |-> 0]
  /\ running_threads = [c \in Caller |-> 0]
  /\ made = [c \in Caller |-> 0]
  /\ live = [c \in Caller |-> 0]
  /\ notifiers = [c \in Caller |-> 0]
  /\ tasks_left = [c \in Caller |-> FALSE]
  /\ asked = [c \in Caller |-> InitialNumThreads]

Goto(c, from, to) ==
  /\ pc[c] = from
  /\ pc' = [pc EXCEPT ![c] = to]

-----------------------------------------------------------------------------
(* start_backend and the constructor of hpx_runtime.                       *)

Enter(c) ==
  /\ program[c] # <<>>
  /\ hpx_backend # None \/ c \in FirstCaller
  /\ Goto(c, "idle", "test")
  /\ UNCHANGED <<program, startVars, threads_requested, current_task, worker,
                 running, regionVars, asked>>

\* Mutant: every call starts HPX.
AlwaysConstruct(c) ==
  /\ Goto(c, "test", "construct")
  /\ UNCHANGED <<program, startVars, threads_requested, current_task, worker,
                 running, regionVars, asked>>

\* if(!hpx_backend), without a lock
StartBackend(c) ==
  /\ Goto(c, "test", IF hpx_backend = None THEN "construct" ELSE "call")
  /\ UNCHANGED <<program, startVars, threads_requested, current_task, worker,
                 running, regionVars, asked>>

\* The constructor makes initial_thread, and starts HPX unless get_runtime_ptr
\* finds it: the application's, or one that another caller is starting.
Construct(c) ==
  \E found \in {external, external \/ \E d \in Caller : startup[d] # "none"} :
    /\ Goto(c, "construct", IF found THEN "reset" ELSE "start_lock")
    /\ startup' = IF found THEN startup ELSE [startup EXCEPT ![c] = "lock"]
    /\ threads_requested' = [threads_requested EXCEPT ![c] = InitialNumThreads]
    /\ UNCHANGED <<program, external, hpx_backend, woken, current_task, worker,
                   running, regionVars, asked>>

\* startup_mtx is not in the hands of wait_for_startup.
StartupMtxFree(c) == startup[c] \notin {"notify", "unlock"}

\* Mutant: start_hpx does not wait.
StartNoWait(c) ==
  /\ Goto(c, "start_lock", "reset")
  /\ UNCHANGED <<program, startVars, threads_requested, current_task, worker,
                 running, regionVars, asked>>

\* if (!running) cond.wait(lk): it was set when wait_for_startup is past "lock".
StartLock(c) ==
  /\ StartupMtxFree(c)
  /\ Goto(c, "start_lock", IF startup[c] = "done" THEN "reset" ELSE "start_asleep")
  /\ UNCHANGED <<program, startVars, threads_requested, current_task, worker,
                 running, regionVars, asked>>

\* A wake-up that nobody sent.
StartWakeEarly(c) ==
  /\ Goto(c, "start_asleep", "start_relock")
  /\ woken' = woken \cup {c}
  /\ UNCHANGED <<program, external, hpx_backend, startup, threads_requested,
                 current_task, worker, running, regionVars, asked>>

\* start_hpx, unlike fork, does not look at running again: it returns whatever
\* has woken it.
StartRelock(c) ==
  /\ StartupMtxFree(c)
  /\ Goto(c, "start_relock", "reset")
  /\ UNCHANGED <<program, startVars, threads_requested, current_task, worker,
                 running, regionVars, asked>>

\* hpx_backend.reset(new hpx_runtime())
ResetBackend(c) ==
  /\ Goto(c, "reset", "call")
  /\ hpx_backend' = c
  /\ UNCHANGED <<program, external, startup, woken, threads_requested, current_task,
                 worker, running, regionVars, asked>>

\* wait_for_startup, in HPX: it locks and sets the flag, notifies, unlocks.
StartupNotify(c) ==
  /\ startup[c] = "notify"
  /\ startup' = [startup EXCEPT ![c] = "unlock"]
  /\ pc' = IF pc[c] = "start_asleep" THEN [pc EXCEPT ![c] = "start_relock"] ELSE pc
  /\ UNCHANGED <<program, external, hpx_backend, woken, threads_requested,
                 current_task, worker, running, regionVars, asked>>

Startup(c) ==
  \/ /\ \E step \in {<<"lock", "notify">>, <<"unlock", "done">>} :
          startup[c] = step[1] /\ startup' = [startup EXCEPT ![c] = step[2]]
     /\ UNCHANGED <<program, pc, external, hpx_backend, woken, threads_requested,
                    current_task, worker, running, regionVars, asked>>
  \/ StartupNotify(c)

-----------------------------------------------------------------------------
(* set_threads_requested and fork.                                         *)

\* The limits of set_threads_requested never apply: icv.nest is false and
\* max_active_levels the largest int.
SetThreadsRequested(c) ==
  LET n == Head(program[c]) IN
  /\ Goto(c, "call", "idle")
  /\ n # Region
  /\ threads_requested' = [threads_requested EXCEPT ![hpx_backend] = n]
  /\ asked' = [asked EXCEPT ![c] = n]
  /\ program' = [program EXCEPT ![c] = Tail(@)]
  /\ UNCHANGED <<startVars, current_task, worker, running, regionVars>>

\* get_task_data() is initial_thread; fork_and_sync is handed to HPX.
Fork(c) ==
  /\ Goto(c, "call", "fork_lock")
  /\ Head(program[c]) = Region
  /\ current_task' = [current_task EXCEPT ![c] = hpx_backend]
  /\ running' = [running EXCEPT ![c] = FALSE]
  /\ worker' = [worker EXCEPT ![c] = "team"]
  /\ UNCHANGED <<program, startVars, threads_requested, regionVars, asked>>

\* Mutant: running is set and cond notified without fork_mtx.
ForkMtxIgnored(c) == TRUE

\* fork_mtx is not in the hands of fork_and_sync.
ForkMtxFree(c) == worker[c] \notin {"notify", "unlock"}

\* while (!running) cond.wait(lk)
ForkLock(c) ==
  /\ ForkMtxFree(c)
  /\ Goto(c, "fork_lock", IF running[c] THEN "fork_reset" ELSE "fork_asleep")
  /\ UNCHANGED <<program, startVars, threads_requested, current_task, worker,
                 running, regionVars, asked>>

\* A wake-up that nobody sent.
ForkWakeEarly(c) ==
  /\ Goto(c, "fork_asleep", "fork_lock")
  /\ UNCHANGED <<program, startVars, threads_requested, current_task, worker,
                 running, regionVars, asked>>

\* Mutant: the number asked for stays for the regions to come.
ForkResetNothing(c) ==
  /\ Goto(c, "fork_reset", "idle")
  /\ asked' = [asked EXCEPT ![c] = InitialNumThreads]
  /\ program' = [program EXCEPT ![c] = Tail(@)]
  /\ UNCHANGED <<startVars, threads_requested, current_task, worker, running,
                 regionVars>>

\* current_task->set_threads_requested(current_task->icv.nthreads)
ForkReset(c) ==
  /\ Goto(c, "fork_reset", "idle")
  /\ threads_requested' =
       [threads_requested EXCEPT ![current_task[c]] = InitialNumThreads]
  /\ asked' = [asked EXCEPT ![c] = InitialNumThreads]
  /\ program' = [program EXCEPT ![c] = Tail(@)]
  /\ UNCHANGED <<startVars, current_task, worker, running, regionVars>>

-----------------------------------------------------------------------------
(* fork_and_sync and fork_worker, in an HPX thread.                        *)

WorkerGoto(c, from, to) ==
  /\ worker[c] = from
  /\ worker' = [worker EXCEPT ![c] = to]

Requested(c) == threads_requested[current_task[c]]

\* parallel_region team(parent->team, parent->threads_requested)
WorkerTeam(c) ==
  /\ WorkerGoto(c, "team", "count")
  /\ num_threads' = [num_threads EXCEPT ![c] = Requested(c)]
  /\ UNCHANGED <<program, pc, startVars, threads_requested, current_task, running,
                 running_threads, made, live, notifiers, tasks_left, asked>>

\* Mutant: the number of the ICV is counted, not the one asked for.
WorkerCountIcv(c) ==
  /\ WorkerGoto(c, "count", "register")
  /\ running_threads' = [running_threads EXCEPT ![c] = InitialNumThreads]
  /\ made' = [made EXCEPT ![c] = 0]
  /\ UNCHANGED <<program, pc, startVars, threads_requested, current_task, running,
                 num_threads, live, notifiers, tasks_left, asked>>

\* running_threads = parent->threads_requested
WorkerCount(c) ==
  /\ WorkerGoto(c, "count", "register")
  /\ running_threads' = [running_threads EXCEPT ![c] = Requested(c)]
  /\ made' = [made EXCEPT ![c] = 0]
  /\ UNCHANGED <<program, pc, startVars, threads_requested, current_task, running,
                 num_threads, live, notifiers, tasks_left, asked>>

\* for(int i = 0; i < parent->threads_requested; i++) register a thread
WorkerRegister(c) ==
  /\ worker[c] = "register"
  /\ IF made[c] < Requested(c)
     THEN /\ made' = [made EXCEPT ![c] = @ + 1]
          /\ live' = [live EXCEPT ![c] = @ + 1]
          /\ UNCHANGED worker
     ELSE WorkerGoto(c, "register", "check") /\ UNCHANGED <<made, live>>
  /\ UNCHANGED <<program, pc, startVars, threads_requested, current_task, running,
                 num_threads, running_threads, notifiers, tasks_left, asked>>

\* Mutant: fork_worker does not wait for the last thread.
WorkerCheckEarly(c) ==
  /\ WorkerGoto(c, "check", IF running_threads[c] > 1 THEN "wait" ELSE "drain")
  /\ UNCHANGED <<program, pc, startVars, threads_requested, current_task, running,
                 regionVars, asked>>

\* while( running_threads > 0 )
WorkerCheck(c) ==
  /\ WorkerGoto(c, "check", IF running_threads[c] > 0 THEN "wait" ELSE "drain")
  /\ UNCHANGED <<program, pc, startVars, threads_requested, current_task, running,
                 regionVars, asked>>

\* cond.wait(lk) puts it in the queue that notify_all empties.
WorkerSleep(c) ==
  /\ WorkerGoto(c, "wait", "asleep")
  /\ UNCHANGED <<program, pc, startVars, threads_requested, current_task, running,
                 regionVars, asked>>

\* while(team.num_tasks > 0) is over, and fork_worker returns.
WorkerDrain(c) ==
  /\ ~tasks_left[c]
  /\ WorkerGoto(c, "drain", "lock")
  /\ UNCHANGED <<program, pc, startVars, threads_requested, current_task, running,
                 regionVars, asked>>

-----------------------------------------------------------------------------
(* The threads of the region and their tasks, as fork_worker sees them.    *)

\* create_task makes the first task since the team had none: a thread or a
\* task of the region does, and a task is one already.
CreateTasks(c) ==
  /\ live[c] > 0 /\ ~tasks_left[c]
  /\ tasks_left' = [tasks_left EXCEPT ![c] = TRUE]
  /\ UNCHANGED <<program, pc, startVars, threads_requested, current_task, worker,
                 running, num_threads, running_threads, made, live, notifiers, asked>>

\* The last of the tasks counts itself down.  Threads wait for their children
\* only: it may be one of a task, and come after all threads.
FinishTasks(c) ==
  /\ tasks_left[c]
  /\ tasks_left' = [tasks_left EXCEPT ![c] = FALSE]
  /\ UNCHANGED <<program, pc, startVars, threads_requested, current_task, worker,
                 running, num_threads, running_threads, made, live, notifiers, asked>>

\* if(--running_threads == 0): the last thread goes on to notify.
EndThread(c) ==
  /\ live[c] > 0
  /\ live' = [live EXCEPT ![c] = @ - 1]
  /\ running_threads' = [running_threads EXCEPT ![c] = @ - 1]
  /\ notifiers' = [notifiers EXCEPT ![c] = IF running_threads[c] = 1 THEN @ + 1 ELSE @]
  /\ UNCHANGED <<program, pc, startVars, threads_requested, current_task, worker,
                 running, num_threads, made, tasks_left, asked>>

\* cond.notify_all(), without barrier_mtx: it wakes fork_worker only if that
\* sleeps.  Nobody waits for it: fork may have returned, and cond be gone.
NotifyAll(c) ==
  /\ notifiers[c] > 0
  /\ notifiers' = [notifiers EXCEPT ![c] = @ - 1]
  /\ worker' = IF worker[c] = "asleep" THEN [worker EXCEPT ![c] = "check"] ELSE worker
  /\ UNCHANGED <<program, pc, startVars, threads_requested, current_task, running,
                 num_threads, running_threads, made, live, tasks_left, asked>>

-----------------------------------------------------------------------------
(* fork_and_sync, after fork_worker.                                       *)

\* lock_guard; running = true
WorkerLock(c) ==
  /\ WorkerGoto(c, "lock", "notify")
  /\ running' = [running EXCEPT ![c] = TRUE]
  /\ UNCHANGED <<program, pc, startVars, threads_requested, current_task,
                 regionVars, asked>>

\* Mutant: nobody is woken.
WorkerNotifyNobody(c) ==
  /\ WorkerGoto(c, "notify", "unlock")
  /\ UNCHANGED <<program, pc, startVars, threads_requested, current_task, running,
                 regionVars, asked>>

\* cond.notify_all()
WorkerNotify(c) ==
  /\ WorkerGoto(c, "notify", "unlock")
  /\ pc' = IF pc[c] = "fork_asleep" THEN [pc EXCEPT ![c] = "fork_lock"] ELSE pc
  /\ UNCHANGED <<program, startVars, threads_requested, current_task, running,
                 regionVars, asked>>

WorkerUnlock(c) ==
  /\ WorkerGoto(c, "unlock", "none")
  /\ UNCHANGED <<program, pc, startVars, threads_requested, current_task, running,
                 regionVars, asked>>

-----------------------------------------------------------------------------

CallerStep(c) ==
  \/ StartBackend(c) \/ Construct(c) \/ StartLock(c) \/ StartRelock(c) \/ ResetBackend(c)
  \/ SetThreadsRequested(c) \/ Fork(c) \/ ForkLock(c) \/ ForkReset(c)

WorkerStep(c) ==
  \/ WorkerTeam(c) \/ WorkerCount(c) \/ WorkerRegister(c)
  \/ WorkerCheck(c) \/ WorkerSleep(c) \/ WorkerDrain(c)
  \/ WorkerLock(c) \/ WorkerNotify(c) \/ WorkerUnlock(c)

RegionStep(c) == EndThread(c) \/ NotifyAll(c) \/ CreateTasks(c) \/ FinishTasks(c)

Next ==
  \E c \in Caller :
    \/ Enter(c) \/ CallerStep(c) \/ Startup(c)
    \/ WorkerStep(c) \/ RegionStep(c)
    \/ StartWakeEarly(c) \/ ForkWakeEarly(c)

Spec == Init /\ [][Next]_vars

\* Both schedulers run every thread that is ready; a mutex is handed on; the
\* threads and the tasks of a region end (TeamTasks).  Nobody need call, make a
\* task or be woken early.
Fairness ==
  \A c \in Caller :
    /\ WF_vars(CallerStep(c)) /\ WF_vars(Startup(c)) /\ WF_vars(WorkerStep(c))
    /\ WF_vars(EndThread(c)) /\ WF_vars(NotifyAll(c)) /\ WF_vars(FinishTasks(c))

FairSpec == Spec /\ Fairness

-----------------------------------------------------------------------------
(* Properties.                                                             *)

\* Where the mutex, the condition variable and the flag of start_hpx and of
\* fork are still there.
StartFrame == {"start_lock", "start_asleep", "start_relock"}
ForkFrame == {"fork_lock", "fork_asleep"}

\* Where wait_for_startup uses those of start_hpx.
InStartup == {"lock", "notify", "unlock"}

\* HPX is started at most once, and not at all if the application runs it.
OneRuntime ==
  /\ \A c, d \in Caller : startup[c] # "none" /\ startup[d] # "none" => c = d
  /\ external => \A c \in Caller : startup[c] = "none"

\* A region is handed to HPX only when HPX has run wait_for_startup, unless
\* the wait of start_hpx, which is an if, has woken up by itself.
StartedBeforeUse ==
  \A c \in Caller :
    worker[c] # "none" => external \/ \E d \in Caller : startup[d] = "done" \/ d \in woken

\* Neither start_hpx nor fork returns, and takes its mutex, its condition
\* variable and its flag away, while the HPX thread at the other end uses them:
\* fork never, start_hpx unless its wait has woken up by itself.
FramesOutlive ==
  \A c \in Caller :
    /\ startup[c] \in InStartup => pc[c] \in StartFrame \/ c \in woken
    /\ worker[c] # "none" => pc[c] \in ForkFrame

\* When fork returns, all threads of its region have counted themselves down,
\* the tasks they have made are done, and fork_and_sync is over.  The last
\* thread may still be at its notify_all.
RegionEndsFirst ==
  \A c \in Caller :
    pc[c] = "fork_reset" => worker[c] = "none" /\ live[c] = 0 /\ ~tasks_left[c]

\* fork_worker's threads are registered and the region is not over.
Registered == {"check", "wait", "asleep", "drain", "lock", "notify", "unlock"}

\* When fork_worker has registered its threads they are as many as the team
\* says and as the counter it waits for, although it has read the number asked
\* for once for each.
TeamSizeAgrees ==
  \A c \in Caller :
    worker[c] \in Registered => num_threads[c] = made[c] /\ running_threads[c] = live[c]

\* A region has the number of threads its caller has asked for since its last
\* region, and the default number if it has not asked.
RequestHonoured ==
  \A c \in Caller : worker[c] \in Registered => made[c] = asked[c]

-----------------------------------------------------------------------------
(* The inductive invariant of FramesOutlive, OneRuntime, StartedBeforeUse.  *)

\* The state of the two handshakes.
ForkType ==
  /\ external \in BOOLEAN
  /\ pc \in [Caller -> CallerPC]
  /\ hpx_backend \in Caller \cup {None}
  /\ startup \in [Caller -> StartPC]
  /\ woken \subseteq Caller
  /\ worker \in [Caller -> WorkerPC]
  /\ running \in [Caller -> BOOLEAN]

\* The flags are set by the end of wait_for_startup and of fork_and_sync only.
FlagInv ==
  \A c \in Caller :
    /\ pc[c] = "start_relock" => startup[c] \in {"unlock", "done"} \/ c \in woken
    /\ pc[c] \in ForkFrame /\ running[c] => worker[c] \in {"notify", "unlock", "none"}

\* No two callers make first calls at once.
OneFirst == \A c, d \in FirstCaller : c = d

Constructing == {"construct", "start_lock", "start_asleep", "start_relock", "reset"}

\* HPX has started for c's hpx_runtime, or nobody has waited for it.
Started(c) == external \/ startup[c] = "done" \/ c \in woken

\* Then one caller starts HPX, and the others come when it has.
StartInv ==
  /\ hpx_backend # None => Started(hpx_backend)
  /\ \A c \in Caller :
       /\ hpx_backend = None /\ pc[c] # "idle" => c \in FirstCaller
       /\ pc[c] \in Constructing => hpx_backend = None
       /\ pc[c] = "construct" => startup[c] = "none"
       /\ pc[c] \in StartFrame => ~external
       /\ startup[c] # "none" =>
            ~external /\ c \in FirstCaller /\ (pc[c] \in Constructing \/ hpx_backend # None)
       /\ pc[c] = "reset" => Started(c)
       /\ pc[c] = "call" => hpx_backend # None

\* What the theorems of ForkMainProofs rest on.
ForkInv ==
  /\ ForkType /\ FlagInv /\ FramesOutlive
  /\ OneFirst => StartInv /\ OneRuntime /\ StartedBeforeUse

\* Nobody asks for a number, or one caller makes all the calls.
Unmixed ==
  \A p \in Programs :
    \/ \A c \in Caller : \A k \in DOMAIN p[c] : p[c][k] = Region
    \/ \E c \in Caller : \A d \in Caller \ {c} : p[d] = <<>>

\* The state of the regions.
RegionType ==
  /\ program \in [Caller -> Seq(Nat)]
  /\ threads_requested \in [Caller -> Nat]
  /\ current_task \in [Caller -> Caller \cup {None}]
  /\ num_threads \in [Caller -> Nat]
  /\ running_threads \in [Caller -> Int]
  /\ made \in [Caller -> Nat]
  /\ live \in [Caller -> Nat]
  /\ notifiers \in [Caller -> Nat]
  /\ tasks_left \in [Caller -> BOOLEAN]
  /\ asked \in [Caller -> Nat]

\* A caller in a call has it in its program, and uses the hpx_runtime made
\* before; one that forks has taken the initial_thread of that.
CallInv ==
  \A c \in Caller :
    /\ pc[c] # "idle" => program[c] # <<>>
    /\ pc[c] = "call" => hpx_backend \in Caller
    /\ pc[c] \in ForkFrame \cup {"fork_reset"} => current_task[c] \in Caller

\* All that callers have asked for is the default.
AllDefault ==
  \A c \in Caller :
    /\ \A k \in DOMAIN program[c] : program[c][k] = Region
    /\ threads_requested[c] = InitialNumThreads
    /\ asked[c] = InitialNumThreads

\* c alone calls, and the number it has asked for is in its initial_thread.
Alone(c) ==
  /\ \A d \in Caller \ {c} : program[d] = <<>>
  /\ hpx_backend \in {None, c}
  /\ threads_requested[c] = asked[c]
  /\ hpx_backend = None => asked[c] = InitialNumThreads
  /\ pc[c] \in Constructing => hpx_backend = None
  /\ pc[c] \in ForkFrame \cup {"fork_reset"} => current_task[c] = c

\* The counters of fork_worker, at each place of it.
CountedInv ==
  \A c \in Caller :
    /\ worker[c] \in {"count", "register"} => num_threads[c] = asked[c]
    /\ worker[c] = "register" =>
         made[c] <= asked[c] /\ running_threads[c] = asked[c] - (made[c] - live[c])
    /\ worker[c] \notin {"register", "check", "wait", "asleep"} => live[c] = 0
    /\ worker[c] \notin {"register", "check", "wait", "asleep", "drain"} => ~tasks_left[c]

\* What the theorems about the size of a region rest on.
RegionInv ==
  /\ RegionType /\ CallInv /\ CountedInv
  /\ AllDefault \/ \E c \in Caller : Alone(c)
  /\ RegionEndsFirst /\ TeamSizeAgrees /\ RequestHonoured

-----------------------------------------------------------------------------

\* fork_worker sleeps, and the notification it waits for is gone.
Missed(c) == worker[c] = "asleep" /\ running_threads[c] <= 0 /\ notifiers[c] = 0

\* A call that does not return has lost the notification of its region's last
\* thread, as in run fork_returns, or start_hpx did not wait for HPX: neither
\* wait on a flag misses its own, and a caller late for it finds the flag set.
CallsReturn ==
  \A c \in Caller : pc[c] # "idle" ~> pc[c] = "idle" \/ Missed(c) \/ woken # {}
=============================================================================
