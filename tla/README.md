# A TLA+ model of hpxMP

hpxMP is an OpenMP runtime: it implements the interface that clang and icc
compile OpenMP directives to (`__kmpc_*`) and the `omp_*` library functions with
the threads, tasks and synchronisation of HPX. The code is in `src/src`. This
directory models its core in TLA+, checks it with TLC and proves the most
important results with TLAPS. Paths below are relative to `src/src` unless they
start with `src/`.

The build modelled is the one of `src/CMakeLists.txt`: `OMP_COMPLIANT`,
`FUTURIZE_TASKS`, `KMP_GOMP_COMPAT`, `USE_CMPXCHG_FIX` are undefined, OMPT is off.
(`src/src/Makefile` defines `OMP_COMPLIANT`: that build waits for its tasks
through executors of HPX and is not modelled.)

## 1. The system

| Component | Code | State | Operations |
|---|---|---|---|
| Start-up | `hpx_runtime.cpp:29-144`, `intel_hpxMP.cpp:17-32` | `hpx_backend`, `initial_thread`, `implicit_region`, the HPX runtime | `start_backend`, `start_hpx`, `wait_for_startup`, `fini_runtime` |
| Parallel region | `hpx_runtime.cpp:520-684`, `hpx_runtime.h:127-154` | `parallel_region` and the frame of `fork_worker`: `running_threads`, `cond`, `barrier_mtx` | `fork`, `fork_and_sync`, `fork_worker`, `thread_setup` |
| Tasks | `hpx_runtime.cpp:255-334`, `hpx_runtime.h:160-229` | `num_child_tasks` of every thread and task, `num_tasks` of the team, the thunks | `create_task`, `task_setup`, `task_wait` |
| Barrier | `hpx_runtime.cpp:196-223` | `num_tasks`, `globalBarrier` | `barrier_wait` |
| Task dependences | `hpx_runtime.cpp:358-438` | `df_map` of every task | `create_df_task` |
| Taskgroup | `hpx_runtime.cpp:226-253` | `in_taskgroup`, `tg_num_tasks` | `start_taskgroup`, `end_taskgroup` |
| Single, copyprivate, reduce | `intel_hpxMP.cpp:284-314, 407-505` | `single_counter` of team and thread, `single_mtx`, `copyprivate_data`, `reduce_data` | `__kmpc_single`, `__kmpc_copyprivate`, `__kmpc_reduce`, `__kmpc_end_reduce` |
| Static loops | `loop_schedule.cpp:12-91` | none (arguments) | `omp_static_init` |
| Dispatched, ordered loops | `loop_schedule.cpp:93-302`, `hpx_runtime.h:85-122` | `loop_list` of the team with its counters, `loop_num` of each thread | `scheduler_init`, `kmp_next`, `__kmpc_ordered`, `__kmpc_end_ordered` |
| Atomics | `kmp_atomic.cpp`, `kmp_atomic.h` | the user's variable, one lock per type | some hundred `__kmpc_atomic_*` from macros |
| ICVs | `icv-vars.h`, `hpx_runtime.h:181-198`, `hpx_runtime.cpp:146-193` | `omp_icv`, `threads_requested` | `set_threads_requested`, `omp_set_*`, `omp_get_*` |
| Locks, critical, master, threadprivate | `intel_hpxMP.cpp:316-405, 507-586, 700-779` | `crit_mtx`, `omp_lock_t`, the cache of threadprivate data | `__kmpc_critical`, `omp_set_lock`, `__kmpc_master`, `__kmpc_threadprivate_cached`, ... |
| OMPT | `ompt_hpx-general.cpp`, `ompt*.h` | the table of callbacks | registration and calls |
| Microtasks | `asm_functions.s` | registers and stack | `__kmp_invoke_microtask` |

How they interact. `__kmpc_fork_call` ends in `fork_worker`, which makes a
`parallel_region` on its stack, registers one HPX thread per implicit thread and
waits. Each implicit thread (`thread_setup`) has its `omp_task_data` on its own
stack and runs the outlined function, which calls everything else; the
components meet in these two structures. Tasks are HPX threads that count
themselves down in the counter of the task that created them (shared by
`shared_ptr`) and in `num_tasks` of the team, to which they hold a plain pointer:
that the team outlives them is the responsibility of the waits in
`barrier_wait`, `thread_setup` and `fork_worker`. `copyprivate`, `reduce` and
the end of loops are built on `barrier_wait`. Atomics touch the user's variable
and their own locks only.

What is hard here, in the order of importance:

* waits built from separate atomic counters that are read one after the other;
  a condition variable notified without its mutex;
* objects on the stack of one thread used by others (`team`, `cond`, `task_data`,
  the data of a reduction);
* threads that are in different constructs at the same time, after `nowait`;
* a vector that moves its elements while threads point into it;
* arithmetic at the ends of loops, in `int`;
* lock-free and locked code on the same variable.

`PROJECT.json` lists each hazard at its line, with the property that covers it
or the reason why none does.

What makes each component correct: the *runtime* is started once, before it is
used; a *region* returns, and only after all its threads and tasks, and has the
threads asked for; a *barrier* lets nobody go before everybody is there and all
tasks are done; *taskwait* waits for the children; a task with *depend clauses*
starts after those it depends on; a *single* is run by exactly one thread;
*copyprivate* and *reduce* deliver the values of this construct; a *loop* runs
every iteration once, ordered parts in order; a *critical section* or a *lock*
loses no update and nobody waits for ever; a *threadprivate* variable has one copy
for each thread, which is still there in the next region; an *atomic* is atomic.

## 2. The modules

| Module | What it is |
|---|---|
| `ForkMain`, `ForkMainProofs` | `start_backend`, `start_hpx`, `fork`, `fork_and_sync`: the program's own threads start HPX and hand regions to it |
| `ParallelRegion` | abstract: a region as the program sees it. Actors are idle, run, in a taskwait, in a barrier or at their end; the waits are given by what they wait for, without counters. |
| `TeamTasks`, `TeamTasksProofs` | `fork_worker`, `thread_setup`, `create_task`, `task_setup`, `task_wait`, `barrier_wait`, one step per access to a counter |
| `TaskOrder` | abstract: a growing order between tasks, which start when those before them have ended |
| `TaskDeps`, `TaskDepsProofs` | `create_df_task` with `df_map`, taskgroups, and the counters they share with `create_task` |
| `TeamSingle`, `TeamSingleProofs` | `single`, `copyprivate`, `reduce` without atomics, on the contract of the barrier |
| `TeamLocks`, `TeamLocksProofs` | `critical`, locks, `reduce` with atomics |
| `ThreadPrivate`, `ThreadPrivateProofs` | `__kmpc_threadprivate_cached` in the teams of a program |
| `Schedule` | the arithmetic of `omp_static_init` in `int` of a chosen width |
| `StaticLoop` | a team that runs a static loop by it |
| `LoopDispatch` | `scheduler_init`, `kmp_next`, `__kmpc_ordered`, with `loop_list` and its storage |
| `LoopProofs` | the proofs about `Schedule`, `StaticLoop` and `LoopDispatch` |
| `AtomicCalls` | the calls on a variable and what they should do to it |
| `AtomicCell` | abstract: a variable on which every call takes effect in one step |
| `AtomicOps`, `AtomicOpsProofs` | the code the macros of `kmp_atomic.cpp` generate, on one variable |
| `MC...` | the small instances for TLC |

`TeamTasks` implements `ParallelRegion`, `TaskDeps` implements `TaskOrder`,
`AtomicOps` implements `AtomicCell` (`INSTANCE ... WITH`, checked by TLC and
proved). The components meet in their contracts: `TeamSingle`,
`TeamLocks` and `LoopDispatch` take the barrier as the step `TeamTasks` shows it to
be, which happens when the whole team has called it; `ForkMain` takes a region as
threads that end and count themselves down and tasks that end, which is what
`TeamTasks` shows of it;
the atomic update in `TeamLocks` is the one step `AtomicOps` shows it to be.

In each module a definition that starts with the comment "Mutant" is a bug the
code does not have; it is used to show that a property can fail, and no action
of the specification refers to it.

### TeamTasks

| Model | Code |
|---|---|
| `pc[a]` | where an implicit thread or a task is in `thread_setup`, `task_setup` and the calls the user's code makes |
| `parent[t]` | the `parent_task_counter` a task holds |
| `num_child_tasks`, `num_tasks`, `running_threads` | the atomics of these names |
| `fork_pc` | where `fork_worker` is |
| `CreateTask`, `CountTask`, `ApplyTask` | the three statements of `create_task`: count for the parent, count for the team, hand over to HPX |
| `EndTask`, `LeaveParent`, `LeaveTeam` | the end of `task_setup`: two decrements |
| `TaskWait`, `TaskWaitReturn` | `task_wait` |
| `BarrierWait`, `BarrierChildren`, `BarrierTeam`, `GlobalBarrier` | `barrier_wait`: children, then the team's tasks, then `globalBarrier` |
| `EndThread`, `ExitChildren`, `ExitDecrement`, `ExitNotify` | the end of `thread_setup` |
| `ForkRegister`, `ForkCheck`, `ForkSleep`, `ForkReturn` | `fork_worker` |

A loop that yields or sleeps until a counter is 0 is one step guarded by that
test: the counters it reads change in steps of other threads, and reading a
positive value changes nothing. `cond.wait` is split in two (leaving the test,
joining the queue), because the notifier does not hold the mutex. Left out: the
values the tasks compute, the length of the sleeps, `delete[]` of the thunk.

### ForkMain

| Model | Code |
|---|---|
| `pc[c]` | where a thread outside HPX is in `start_backend`, the constructor, `start_hpx`, `omp_set_num_threads`, `fork` |
| `hpx_backend`, `startup[c]` | the pointer, and where `wait_for_startup` of the start that `c` has made is |
| `threads_requested`, `current_task` | that of each `initial_thread`, and whose a region was forked from |
| `worker[c]`, `num_threads`, `running_threads`, `made`, `live` | `fork_and_sync` and `fork_worker`: the three reads of `threads_requested`, the threads registered and not counted down |
| `notifiers[c]`, `tasks_left[c]` | the last thread between its decrement and its `notify_all`; whether `num_tasks` is above 0 |
| `woken` | history: the callers whose wait in `start_hpx` woke up by itself |
| `Enter`, `StartBackend`, `Construct`, `StartLock`, `StartRelock`, `ResetBackend` | the way into a call |
| `StartWakeEarly` | the wake-up nobody sent, which the `if` of `start_hpx` (108-109) does not bear |
| `Startup` | `wait_for_startup`: lock and set the flag, notify, unlock |
| `Fork`, `ForkLock`, `ForkWakeEarly`, `ForkReset` | `fork`; a condition variable may wake up by itself, which its `while` bears |
| `WorkerTeam`, `WorkerCount`, `WorkerRegister` | the three reads of `fork_worker` |
| `WorkerCheck`, `WorkerSleep`, `WorkerDrain` | its wait for the threads (602-603), which can miss the notification, and for the tasks (615-625) |
| `WorkerLock`, `WorkerNotify`, `WorkerUnlock` | `fork_and_sync` |
| `EndThread`, `NotifyAll`, `CreateTasks`, `FinishTasks` | the region: a thread counts itself down, the last one notifies, tasks come and go |

Three places where the code does not keep what one would like to state, and how the
properties say it:

* `start_hpx` has an `if` where `fork` has a `while` (108). After a wake-up that
  nobody sent it returns before HPX has started, and its frame is gone while
  `wait_for_startup` uses it. `StartedBeforeUse` and `FramesOutlive` except the callers
  in `woken`, and only those; without the exception TLC refutes both. For the frame
  of `fork` there is no exception.
* The last thread counts itself down and then calls `notify_all` (563-566), and
  `fork` may return in between. `RegionEndsFirst` says that the threads have counted
  themselves down, not that they are gone; a state with `notifiers[c] > 0` after
  `fork` is reachable.
* `fork_worker` can miss that `notify_all` (run `fork_returns`). `CallsReturn` says that a
  call returns *or* its region is such a one (`Missed`: it sleeps, its counter is 0
  and nobody is left to wake it), *or* some start-up did not wait for HPX (`woken`), so
  that nothing else can hold a call up.

Two definitions of the module's constants say where the code does and does not
keep its properties. `FirstCaller` are the threads that may call while no first
call has returned: with one of them `OneRuntime` and `StartedBeforeUse` hold and
are proved, with two both are violated (`hpx_backend` is tested without a lock,
`intel_hpxMP.cpp:21`). `Programs` are what the callers ask for: when one asks for
a number of threads while another forks, `TeamSizeAgrees` is violated (the run
`team_size`).

### TaskDeps and TaskOrder

| Model | Code |
|---|---|
| `df_map[a][x]` | `omp_task_data::df_map`: the future of the last task that writes `x` |
| `dep_futures[t]` | the futures `create_df_task` gathers for a task |
| `in_taskgroup[a]`, `num_child_tasks`, `num_tasks` | the members of these names |
| `elders`, `grouped` | history: the tasks of the same parent created earlier; the tasks made in a taskgroup |
| `CreateTask`, `CountTask`, `Launch` | `create_df_task`: gather and count for the parent, count for the team, `dataflow` and the new entries of `df_map` |
| `StartTask`, `EndTask`, `LeaveParent`, `LeaveTeam` | `df_task_wrapper` and `task_setup` |
| `StartTaskgroup`, `EndTaskgroup` | `in_taskgroup`; `end_taskgroup` waits for `tg_num_tasks`, which nothing ever counts up, so it never waits |
| `TaskWait` ... `GlobalBarrier` | as in `TeamTasks` |

What the code promises is narrower than what OpenMP's depend clauses do, and the
properties say exactly how narrow: a task comes after the earlier tasks *that
write* an address it names (`DependsOn`). A task that writes is not held back by
earlier readers, as `df_map` keeps writers only. In a taskgroup `create_df_task`
does not count the task for its parent while `task_setup` counts it down, so
`num_child_tasks` goes below 0: `CountersExact` states by how much, and
`TaskwaitCompletesChildren` leaves out callers that have made such tasks, because
for them it is false. The barrier is not affected (`BarrierCompletesTasks`,
`RegionEnds`): `num_tasks` counts every task. Tasks not yet created are alike, and
`Fresh` picks one, which only removes copies of the same behaviours under other
names.

### TeamSingle

Every thread meets the same sequence of constructs, of any kinds (`program`).
`SingleLock`, `SingleTest`, `SingleCount`, `SingleUnlock`, `SingleLeave` are the
statements of `__kmpc_single`; `Publish` and `Copy` those of `__kmpc_copyprivate`;
`Store`, `Combine`, `Merge` those of `__kmpc_reduce` and of the compiled code and
`__kmpc_end_reduce` after it. `ReleaseFirst` and `ReleaseSecond` are the two
barriers. A pointer to a variable of a thread is the name of the thread. `acc`
counts how often each thread's share has been added into each thread's data, so
that forgetting a share and adding it twice both show.

### TeamLocks

A program gives each thread a sequence of sections and reductions. A section has
one guard or several inside one another (a `critical` of a name, `omp_set_lock`,
`omp_test_lock`), and its body loads and stores the variable that belongs to the
innermost. `owner` is who holds each mutex; all critical sections of a team, of
whatever name, are the one `crit_mtx` (`MutexOf`). A nest lock is a plain mutex in
this code (`intel_hpxMP.cpp:564`), as is a `__kmpc_` lock, so they have no actions of
their own. A `TestLock` that fails goes on without the body. `Reduce`, `Add`,
`EndReduce` are `__kmpc_reduce` and `__kmpc_end_reduce` where the compiler has
atomics: a barrier, the updates, a barrier.

Programs may nest guards in any way. `HoldersGoOn` says that while a thread spins for
a mutex, somebody inside a guard can go on, so that the holders do not wait for each
other, for themselves or for nobody. It depends on the program: since critical
names share one mutex, a critical section inside one of another name, which OpenMP
allows, waits for itself, and TLC refutes `HoldersGoOn` and `ProgramsComplete` for such
a program. The run's programs have none; one of them nests two locks in opposite
orders, which only the critical section around them makes safe.

### ThreadPrivate

`pc[k][t]` is where the thread of number `t` of team `k` is in
`__kmpc_threadprivate_cached`, statement by statement: test `*cache`, take the
team's `thread_mtx`, test again, allocate, unlock, test the slot, `new`, `memcpy`,
read the slot again and return. `cache` is the range of the array, `slot` the copy
in each slot; copies are numbered, so that two of them are never confused.
`given` is what the calls have returned. `Together = FALSE` and sizes that do not grow are
what the properties need: with nested regions (`Together`) the mutexes of two teams
do not exclude each other and `OwnCopy` and `InBounds` fail, and a team larger than the first indexes beyond the array.

### Schedule and StaticLoop

`Schedule` computes in two's complement of `IntMax` (`Wrap`), with the division of
C++ (`Quot`). `StaticInit` and `StaticInitChunked` are the two branches of
`omp_static_init`. `StaticLoop` lets a team of each size call them for each loop
and run the blocks as compiled code does. Its variables `p_lower`, `p_upper`,
`p_stride` are what the call leaves in `*p_lower`, `*p_upper`, `*p_stride`; `stage` is
where each thread is and `run_count` how often each iteration was run.

### LoopDispatch

`heap` is the sequence of the storages `team->loop_list` has had; `EmplaceBack`
doubles, and copies the loops with the copy constructor of `loop_data`, which
resets the counters. `loop_sched[i]` is the pointer a thread takes in `kmp_next`
(`TakePointer`) and uses in `NextStatic`, `NextChunked`, `Fetch`, `Bounds` and
`NextOther`. A pointer into a former storage still finds what was last there, one
of the things the program may see.

### AtomicOps

The tables of `kmp_atomic.cpp` give each operation on each type one of seven
shapes (`Routine`): fetch-and-add, compare-and-store loop, compare-and-store as a
read, exchange, max by compare-and-store, max under a lock, any operation under a
lock. A shape is modelled load by load and store by store. A lock is its owner;
the queuing lock of the code hands itself on in order, of which the model only
uses that it excludes. Values are numbers modulo `Modulus`. The types stand for
classes: `fixed4` integers of 4 and 8 bytes, `float4` floats of these sizes and
short integers, `float10` everything under a lock, `cmplx4`, `float16`. A `_Quad`
is stored in two halves: its unlocked test in `max` may come out either way while
another thread stores (`TestMax`).

## 3. The runs

Passing runs (no error; deadlock is checked for the atomics, where threads may
always call again; elsewhere a team that has finished its program stops, which
is no error, and the liveness properties say that it does finish):

| Run | Instance | Shows |
|---|---|---|
| `team_tasks` | 2 threads, 2 tasks, siblings or one created by the other, 2 barriers | counters are exact; barriers and taskwaits complete what they wait for; tasks and threads end; the team outlives its tasks; the region is that of `ParallelRegion` |
| `task_deps` | 2 threads and 3 tasks; one thread gives its tasks depend clauses on 2 addresses, the other none; taskgroups anywhere | a task starts only after the writers of what it names; counters are what `create_df_task` makes of them; the barrier completes all tasks, those made after one thread has seen none left too, and opens; the order is that of `TaskOrder` |
| `fork_main` | 2 callers, one of which makes the first call; up to 2 regions each or numbers asked for; either wait may wake up by itself; HPX run by hpxMP or by the application | one runtime, started before use unless `start_hpx` woke by itself; `fork` never returns while its partner uses its frame, `start_hpx` only then; a region has the threads asked for, which have counted themselves down, and its tasks are done, before `fork` returns; every call returns whose region's last notification is not lost, if no start-up woke by itself |
| `team_single` | 3 threads, every program of 2 constructs | one winner per construct, exact reductions, the right copyprivate value, and everybody gets through |
| `team_locks` | 3 threads, 2 critical names, 2 locks, four programs: guards in guards, tested locks, opposite orders inside a critical section, two reductions | no update is lost; a thread past a reduction finds all of it and nothing more; while a thread spins some holder goes on; everybody gets through |
| `thread_private` | 2 teams of up to 3 threads, 2 uses by each thread | one allocation that is large enough; one filled copy for each number, the same in both teams; every call returns |
| `static_loop` | up to 10 iterations, 4 threads, steps 1 to 3, chunks 1 to 3 | loops that count up and whose blocks fit an `int` (`SafeUpper`), with chunks those of step 1, are covered exactly, with fewer iterations than threads, as many, multiples and non-multiples |
| `loop_dispatch` | 3 threads, up to 3 loops, with barriers | loops of all schedules are shared out exactly, ordered parts come in order, and the waits end; the vector moves at the second and the third loop |
| `atomics` | 3 threads, for each class of types the routines it has | calls linearize, and some call always returns |

Three threads are enough for the atomics: one to read, one to store in between
and one to store again the value read. Two barriers let the counters be used a
second time while a late thread is still leaving the first barrier. Three tasks
give a writer that replaces another in `df_map` and a task that names both. Two
teams let the second find the cache of the first. Two callers let one come while
the other starts the runtime, sleeps in `fork` or has just been woken.

Runs that end in a violation show where the code does not do what a comment of it
says:

| Run | Property | What happens |
|---|---|---|
| `fork_returns` | `ForkReturns` | the last thread's `notify_all` is sent without the mutex and falls between `fork_worker`'s test and its sleep (`hpx_runtime.cpp:563, 602-603`); nobody wakes it again |
| `loop_nowait` | `NoIterationTwice` | a loop still in progress is copied when the next one is added, and its chunks are handed out again |
| `team_size` | `TeamSizeAgrees` | `threads_requested` of the shared `initial_thread` changes between the three reads of `fork_worker` (581, 589, 591): the team says another number than it has, and waits for threads that were never made |

What the code does elsewhere that a user may not expect. The first items follow
from the same modules with other constants than those of the runs, the others
from the text of the code; `PROJECT.json` lists all of them under the hazards:

* a wait of `start_hpx` that wakes up by itself lets a region be handed over before HPX
  has started, and takes away a frame that is in use (`ForkMain`, without the
  exception for `woken`; `hpx_runtime.cpp:108`);
* a critical section inside one of another name waits for itself (`TeamLocks` with such
  a program; `intel_hpxMP.cpp:341`);
* two first calls at once start HPX twice (`ForkMain`, `FirstCaller` of two;
  `intel_hpxMP.cpp:21`);
* a threadprivate cache is not large enough for a larger second team, and not
  protected against another team (`ThreadPrivate`; `intel_hpxMP.cpp:396`);
* a loop of `StaticLoop` with a negative increment runs beyond its end
  (`loop_schedule.cpp:29`);
* a dynamic loop of `LoopDispatch` that ends at `IntMax` starts again below its
  beginning (`loop_schedule.cpp:228`); no thread runs any of a loop whose schedule
  has no case, `auto` for one (245), which is why `AllIterationsRun` leaves those
  out; `schedule(static, 2) ordered` compares chunks with iterations (195);
* a capturing `max` of `AtomicOps` returns its operand though the variable is
  already larger (`kmp_atomic.cpp:1800-1801`); on a `_Quad`, when it finds under
  the lock that there is nothing to do, it returns a variable it has not set (1771);
* updates of a `complex<float>` by routines with the lock and by routines with
  compare-and-store lose each other (`kmp_atomic.cpp:1287`);
* `fork_worker` may see 0 and return before the last thread calls `notify_all` on
  `cond` in its frame (`TeamTasks` and `ForkMain` reach it; `hpx_runtime.cpp:566`);
* the reduction without atomics, called a "blocking reduce" (`intel_hpxMP.cpp:447`),
  lets threads go before its result is stored (486).

Bounds: `NumBarriers`, `NumConstructs`, the lengths of `Programs`, `MaxTrip`,
`MaxThreads`, `MaxChunk`, `IntMax` (an `int` of 4 to 6 bits), `Modulus`, the calls of
`AtomicOps`' programs, `Depends`, `NumTeams`, `NumCalls`. None is a bound of the
code; each theorem below is free of them.

Fairness. HPX runs every ready thread, and all waits of the runtime give the
processor up (`yield`, `sleep_for`, `cond.wait`, HPX mutexes), so each thread's
next step is weakly fair. `TeamTasks` and `TaskDeps` also assume that user code
ends and closes its taskgroups: strong fairness of `EndTask`, `ThreadEnds`,
`BarrierWait` and `EndTaskgroup`, as the code may go into any number of `taskwait`s
before. In `TeamLocks` and `ThreadPrivate` weak fairness is enough for who spins
for a mutex, as it is taken finitely often. In `ForkMain` and `AtomicOps` no thread
needs to make a call or a task, and no condition variable needs to wake up early;
`ForkMain`'s `fork_worker` is fair only in steps it can take, so it sleeps for ever
when its notification is lost. In `TaskDeps` `EndTask` of a task that creates none is
only weakly fair: nothing in its code could keep it from ending.
`ForkReturns` fails under fairness; it is not a lack of it.

## 4. The proofs

Every safety property, action property and refinement of the passing runs is also
proved. The type invariant of each module is part of the inductive invariants named
below (`SingleType`, `DepsType`, `CountType`, `ForkType`, `RegionType`, `CacheType`,
`StaticType`, `DispatchType`, `AtomicType`, `TypeOK`). TLC has checked the inductive
invariants on the instances of the runs; the runs keep to the properties that
follow from them.

Assumptions are those the modules state: finite sets of threads and tasks, more
than one thread in `TeamTasks` and `TaskDeps` (with one, tasks run inline), any number of barriers,
constructs, calls, addresses, teams, any width of `int`. Where a theorem needs more
of the program, its statement names it, as the code does not keep the property in
every program:

| Hypothesis | Says | Without it |
|---|---|---|
| `OneFirst` | no two callers make their first calls at once | HPX is started twice |
| `Unmixed` | nobody asks for a number of threads, or one caller makes all the calls | run `team_size` |
| `TeamsShrink` | teams one after the other, none larger than one before it | `InBounds`, `OwnCopy` fail |
| `Linearizable` | one lock or none on a variable, no `max` on a `_Quad`, the variable only rises beside a capturing `max`, and not above the operand of one that captures the value after | lost updates, wrong captures |
| `Barriers` | only the last loop of a program may be `nowait` | run `loop_nowait` |
| `AllUpward` | loops count up and have an iteration, chunked ones by 1; the chunks computed after the last fit an `int` | overflow (228), decreasing loops (236), the `FIXME` (204) |
| `AllInRange` | ordered chunks have one iteration; ordered static loops begin below their step | ordered parts out of order (196) |
| `Ordered(r)` | `r` gives the mutexes, `crit_mtx` as one of them, numbers along which all programs nest their guards | `HoldersGoOn` fails: critical sections of two names inside one another |
| `Forward` | static loops count up and their length fits an `int` | blocks beyond the end (29) |

The last column is what happens otherwise; numbers are lines of
`loop_schedule.cpp`. The instances of the passing runs satisfy all of them,
except that `team_locks` also has a program with opposite orders inside a critical
section, for which there is no `r` and TLC shows `HoldersGoOn` all the same.

`TeamTasksProofs`, for any team, tasks and number of barriers:

* `Invariant`: `Spec => []IInv`. `IInv` is `TypeOK`, `CountersExact` (each counter
  is the cardinality of the set of tasks or threads that are still to count
  themselves down), `CreatorInv` (a task being created belongs to one call of
  `create_task`, so no two steps count it), `BarrierInv` (once all threads have
  seen `num_tasks = 0`, no task is left) and `JoinInv`. `BarrierCompletesTasks` alone
  is not inductive: a thread may have seen 0 long before the others create more
  tasks; it is the last thread to look that matters, and it needs the exactness of
  `num_tasks`. The argument at that step is `DrainedTeam`: with all threads in the
  barrier or at their end and `num_tasks` exact and 0, no task is between its
  creation and its last decrement.
* `TypeCorrect`, `CountersCorrect`, `TeamSafe`, `BarrierCorrect`, `TaskwaitCorrect`
  follow from it.
* `RegionImplemented`: `Spec => ImplementsRegion`. Each step of `TeamTasks` is a
  step of `ParallelRegion` or leaves its variables alone; the waits need `IInv` to
  turn "the counter is 0" into "the tasks are done".

`TeamSingleProofs`, for any team and any program: `SingleInvariant`
(`Spec => []SingleInv`) and from it `SingleCorrect`: at most one winner for each
construct and none without (`SingleExactlyOnce`). The invariant says that a thread's
counter is the number of the construct it is in, never above the team's, that the
team's counter is the number of constructs that have a winner, and that the
thread between the test and the increment owns the lock, so that nobody else
moves the team's counter under it. `DataInvariant` (`Spec => []DataInv`) gives
`ReduceCorrect` and `CopyprivateCorrect`. Its core is `SyncInv`, how far threads are
apart: by `nowait` singles only, except for the thread that merges a reduction after
the others have left it, and never across the two barriers of a construct. That is
why the team's one `copyprivate_data` and `reduce_data` still belong to this
construct when they are read (`CopyInv`), and why the shares the last thread adds
up are those it has not yet been through plus what it has (`SumInv`).

`TaskDepsProofs`, for any threads, tasks, addresses and depend clauses, and any
creators: `DepsInvariant` (`Spec => []DepsInv`), `DependencesCorrect` and
`OrderImplemented`. `DependencesHold` is not inductive, as a task keeps the future
of the *last* writer only. `DepsInv` adds that an address has the entry of the last
of its launched writers (`MapInv`), that a task's futures hold the last of its
elders that writes each address it names (`FuturesInv`), and that a task being
created belongs to one call of `create_df_task` (`CreatorInv`). The step that
matters is `StartTask`: the last writer is done, so it has started, so by
`DependencesHold` itself the writers before it, which it depended on, are done.
`CountInvariant` (`Spec => []CountInv`) is about the counters: `DepsCountersCorrect`
says by how much tasks made in a taskgroup put `num_child_tasks` below 0,
`DepsTaskwaitCorrect` and `DepsBarrierCorrect` what the waits still complete. The
barrier rests on the last thread to look, as in `TeamTasksProofs`, except that a
task may also be waiting for others.

`ForkMainProofs`, for any callers, programs and numbers: `ForkInvariant`
(`Spec => []ForkInv`) and from it `FramesSafe`, `StartedOnce` and, if no two callers
make first calls at once, `StartedFirst`. Whoever is in `woken` is excepted from what
these say of `start_hpx`; what `FramesSafe` says of `fork` has no condition. `FlagInv`
says that the flags are set only at the far end of each handshake; `StartInv`, which `OneFirst`
makes inductive, that while one caller starts HPX all others are outside.
`RegionInvariant` (`Spec => []RegionInv`, under `Unmixed`) gives `RegionEnds`,
`TeamSizeCorrect`, `RequestCorrect`. It follows the three reads of `threads_requested`
from one to the next: the number registered, the counter and the team's number
agree because all that is in any `initial_thread` is the default, or because the
one caller is in `fork` while they are read.

`ThreadPrivateProofs`, for any number of teams, threads and calls: `CacheInvariant`
(`TeamsShrink /\ Spec => []CacheInv`), `CacheFits` and `CopiesCorrect`. The invariant
says who is inside the lock and that only the first of them finds no array
(`LockInv`), that the array is as long as some team that has begun (`ArrayInv`), and
that a slot is filled once and holds what the threads of its number have been
given (`SlotInv`); `OrderInv` gives that a team begins after the ones before it,
so that a slot has one thread.

`TeamLocksProofs`, for any team, names, locks and programs, critical sections inside
one another included: `LocksInvariant` (`Spec => []LocksInv`), `NoLostUpdate`,
`ReductionComplete`. The invariant says that a mutex is held by exactly the thread
inside one of its guards and by no two of them (`HoldsOnce`), which makes what a body
has loaded still true when it stores, and that the whole team is in one reduction or
in none. `NoDeadlock` (`Spec => []HoldersGoOn`) has the hypothesis `Ordered(r)` in its
statement. Of the mutexes that are waited for it takes the lowest in `r` (the numbers
go down inwards): its holder is inside a guard by the invariant, so no thread ends
with it, and if it waited too, it would want a lower one.

`LoopProofs`, for any width of `int`, team, step and chunk. `StaticInvariant`
(`StaticSpec => []StaticInv`, under `Forward`) and `StaticLoopExact`: the pieces that
have been run are those the threads are past. Below it are lemmas about the
arithmetic of `omp_static_init`: nothing wraps, the pieces are disjoint and their
union is the loop, whether the threads divide the iterations or are more than
them. For `LoopDispatch` there are three invariants, each resting on the one before:

* `RoundInvariant` (`RoundInv`, under `Barriers`): the team is in one loop at a time, so
  that `loop_list` grows only while nobody points into it (`PointersCorrect`).
* `WorkInvariant` (`WorkInv`, `AllUpward` also): an iteration has been run once if it
  is in a chunk that was handed out and that its thread is not still at
  (`RunOrLeft`), and no two threads hold the same chunk (`Shared`). That a thread past
  the loop was told that nothing is left (`Exhausted`) gives `WorkComplete`; that each
  thread fetches beyond the end once at most (`OverOnce`) bounds what `Bounds`
  computes, so that it does not overflow. `WorkOnce` is the other half.
* `OrderInvariant` (`OrderInv`, `AllInRange` also): `ordered_count` is the number of
  ordered parts that have ended, `first_iter` the number of the first iteration of
  a thread's chunk, and the iterations run are an initial segment. Hence the thread
  that `Ordered` lets in is at the next iteration (`OrderCorrect`).

`AtomicOpsProofs`, for any threads, `Modulus` and programs that `Linearizable` admits:
`AtomicInvariant` (`Spec => []AtomicInv`) and `AtomicLinearizes` (`Spec => Linearizes`).
A compare-and-store takes effect where it succeeds, whatever happened since the
load; a locked update where it stores, as nobody else stores while it holds the
lock (`HoldsLock`); a `max` that finds nothing to do where it reads, and one that
captures where it has stored or given up, for which `KnowsMax` and `NotAbove` say
what it may have missed. `NoCall` must not be a thread, as it is also "no owner".

Only model-checked is liveness, which is beyond the prover: `TasksEnd`,
`ThreadsEnd`, `TeamCompletes`, `LoopsComplete`, `SomeCallReturns`, `RegionEnds`,
`CallsReturn`, `ProgramsComplete`. The three violations are TLC's as well. What a
recursive definition computes for every input would be beyond it too; the modules
have none.

## 5. Not modelled, and what is left

* `fini_runtime` and the end of the program; nested regions with their levels and
  `active_levels`; the `omp_` functions that read or set one variable.
* A team of one thread, which runs its tasks inside the call: sequential, and
  described under the hazards where it goes wrong (`hpx_runtime.cpp:365`).
* `master` and `omp_get_thread_num`: they are the number of HPX's worker, and what
  they promise is the scheduler's matter.
* Nested taskgroups; depend clauses that name an address twice.
* Of loops: decreasing ones (the compilers pass increasing ones), `p_last`, bounds of
  64 bits, ordered parts that are skipped.
* `__kmpc_reduce_nowait`, which the code makes the same as `__kmpc_reduce`, and
  `__kmpc_atomic_start` and `_end`.
* OMPT (`ompt*.h`, `ompt_hpx-general.cpp`): a table of callbacks, off in this build.
* `asm_functions.s` (registers and stack), the wording of what is printed, the
  tests, examples and benchmarks, HPX itself (used through its contract), the
  builds `OMP_COMPLIANT` and `FUTURIZE_TASKS`.

Next, in this order: hypotheses nearer to what the code bears, namely loops of
`LoopDispatch` that are `nowait` but do not make the vector move, programs of
`ForkMain` in which several callers ask for the same number, threadprivate teams that
grow but stay within the first; the region of `ParallelRegion` with the tasks of
`TaskDeps`, whose taskwaits are weaker when there are taskgroups; nested regions and
the end of the program, with the internal control variables they share.
