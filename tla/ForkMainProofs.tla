--------------------------- MODULE ForkMainProofs ---------------------------
(***************************************************************************)
(* Theorems about ForkMain for any set of callers and any programs: both   *)
(* handshakes outlive their HPX thread, that of start_hpx unless its wait  *)
(* wakes up by itself; if no two callers make their first calls at once,   *)
(* HPX is started once, and with the same exception before it is used; and *)
(* if no caller asks for a number of threads beside the regions of         *)
(* another, each region has the threads asked for, and all of them have    *)
(* counted themselves down and all tasks are done before fork returns.     *)
(***************************************************************************)
EXTENDS ForkMain, TLAPS

\* The invariant holds at first.
LEMMA InitForkInv == Init => ForkInv
BY NoneAssumption
   DEF Init, ForkInv, ForkType, StartInv, FlagInv, OneRuntime, StartedBeforeUse,
       Started, FramesOutlive, CallerPC, StartPC, WorkerPC, StartFrame, ForkFrame, InStartup,
       Constructing

\* The steps of start_backend and start_hpx preserve it.
LEMMA StartStep ==
  ASSUME ForkInv, NEW c \in Caller,
         Enter(c) \/ StartBackend(c) \/ Construct(c) \/ StartLock(c) \/ StartRelock(c)
           \/ StartWakeEarly(c) \/ ResetBackend(c) \/ Startup(c)
  PROVE  ForkInv'
<1> USE DEF ForkInv, ForkType, StartInv, FlagInv, OneRuntime, StartedBeforeUse,
            Started, FramesOutlive, OneFirst, Constructing, CallerPC, StartPC, WorkerPC,
            StartFrame, ForkFrame, InStartup, Goto, startVars, regionVars
<1>1. CASE Enter(c)
  BY <1>1, NoneAssumption DEF Enter
<1>2. CASE StartBackend(c)
  BY <1>2, NoneAssumption DEF StartBackend
<1>3. CASE Construct(c)
  BY <1>3, NoneAssumption DEF Construct
<1>4. CASE StartLock(c)
  BY <1>4, NoneAssumption DEF StartLock, StartupMtxFree
<1>5. CASE StartRelock(c)
  BY <1>5, NoneAssumption DEF StartRelock, StartupMtxFree
<1>6. CASE ResetBackend(c)
  BY <1>6, NoneAssumption DEF ResetBackend
<1>7. CASE Startup(c)
  BY <1>7, NoneAssumption DEF Startup, StartupNotify
<1>8. CASE StartWakeEarly(c)
  BY <1>8, NoneAssumption DEF StartWakeEarly
<1>9. QED
  BY <1>1, <1>2, <1>3, <1>4, <1>5, <1>6, <1>7, <1>8

\* The steps of the caller's calls preserve it.
LEMMA CallStep ==
  ASSUME ForkInv, NEW c \in Caller,
         SetThreadsRequested(c) \/ Fork(c) \/ ForkLock(c) \/ ForkWakeEarly(c) \/ ForkReset(c)
  PROVE  ForkInv'
<1> USE DEF ForkInv, ForkType, StartInv, FlagInv, OneRuntime, StartedBeforeUse,
            Started, FramesOutlive, OneFirst, Constructing, CallerPC, StartPC, WorkerPC,
            StartFrame, ForkFrame, InStartup, Goto, startVars, regionVars
<1>1. CASE SetThreadsRequested(c)
  BY <1>1, NoneAssumption DEF SetThreadsRequested
<1>2. CASE Fork(c)
  BY <1>2, NoneAssumption DEF Fork
<1>3. CASE ForkLock(c)
  BY <1>3, NoneAssumption DEF ForkLock, ForkMtxFree
<1>4. CASE ForkWakeEarly(c)
  BY <1>4, NoneAssumption DEF ForkWakeEarly
<1>5. CASE ForkReset(c)
  BY <1>5, NoneAssumption DEF ForkReset
<1>6. QED
  BY <1>1, <1>2, <1>3, <1>4, <1>5

\* The steps of fork_and_sync and of its region preserve it.
LEMMA WorkerForkStep ==
  ASSUME ForkInv, NEW c \in Caller, WorkerStep(c) \/ RegionStep(c)
  PROVE  ForkInv'
<1> USE DEF ForkInv, ForkType, StartInv, FlagInv, OneRuntime, StartedBeforeUse,
            Started, FramesOutlive, OneFirst, Constructing, CallerPC, StartPC, WorkerPC,
            StartFrame, ForkFrame, InStartup, WorkerGoto, startVars, regionVars
<1>1. CASE WorkerTeam(c) \/ WorkerCount(c)
  BY <1>1, NoneAssumption DEF WorkerTeam, WorkerCount
<1>2. CASE WorkerRegister(c)
  BY <1>2, NoneAssumption DEF WorkerRegister
<1>3. CASE WorkerCheck(c) \/ WorkerSleep(c) \/ WorkerDrain(c)
  BY <1>3, NoneAssumption DEF WorkerCheck, WorkerSleep, WorkerDrain
<1>4. CASE WorkerLock(c)
  <2>1. /\ worker[c] = "lock"
        /\ worker' = [worker EXCEPT ![c] = "notify"]
        /\ running' = [running EXCEPT ![c] = TRUE]
        /\ UNCHANGED <<pc, external, hpx_backend, startup, woken>>
    BY <1>4 DEF WorkerLock
  <2>2. ForkType'
    BY <2>1
  <2>3. FlagInv'
    BY <2>1, <2>2
  <2>4. OneFirst => StartInv' /\ OneRuntime' /\ StartedBeforeUse'
    BY <2>1
  <2>5. FramesOutlive'
    BY <2>1
  <2>6. QED
    BY <2>2, <2>3, <2>4, <2>5
<1>5. CASE WorkerNotify(c)
  BY <1>5, NoneAssumption DEF WorkerNotify
<1>6. CASE WorkerUnlock(c)
  BY <1>6, NoneAssumption DEF WorkerUnlock
<1>7. CASE NotifyAll(c)
  BY <1>7, NoneAssumption DEF NotifyAll
<1>8. CASE EndThread(c) \/ CreateTasks(c) \/ FinishTasks(c)
  BY <1>8, NoneAssumption DEF EndThread, CreateTasks, FinishTasks
<1>9. QED
  BY <1>1, <1>2, <1>3, <1>5, <1>6, <1>7, <1>8, <1>4 DEF WorkerStep, RegionStep

\* Both handshakes keep their invariant: see ForkInv.
THEOREM ForkInvariant == Spec => []ForkInv
<1>1. ForkInv /\ [Next]_vars => ForkInv'
  <2> SUFFICES ASSUME ForkInv, [Next]_vars PROVE ForkInv'
    OBVIOUS
  <2>1. CASE Next
    BY <2>1, StartStep, CallStep, WorkerForkStep DEF Next, CallerStep
  <2>2. CASE UNCHANGED vars
    BY <2>2 DEF vars, startVars, regionVars, ForkInv, ForkType, StartInv, FlagInv,
                Started, OneRuntime, StartedBeforeUse, FramesOutlive
  <2>3. QED
    BY <2>1, <2>2
<1>2. QED
  BY <1>1, InitForkInv, PTL DEF Spec

\* HPX is started once, if one caller's first call comes before the others'.
THEOREM StartedOnce ==
  ASSUME OneFirst
  PROVE  Spec => []OneRuntime
<1>1. ForkInv => OneRuntime
  BY DEF ForkInv
<1>2. QED
  BY <1>1, ForkInvariant, PTL

\* No region is handed to HPX before wait_for_startup has run, unless the wait
\* of start_hpx has woken up by itself.
THEOREM StartedFirst ==
  ASSUME OneFirst
  PROVE  Spec => []StartedBeforeUse
<1>1. ForkInv => StartedBeforeUse
  BY DEF ForkInv
<1>2. QED
  BY <1>1, ForkInvariant, PTL

\* fork never returns while the HPX thread that wakes it still uses the mutex,
\* the condition variable and the flag in its frame, and start_hpx does not
\* unless its wait has woken up by itself.
THEOREM FramesSafe == Spec => []FramesOutlive
<1>1. ForkInv => FramesOutlive
  BY DEF ForkInv
<1>2. QED
  BY <1>1, ForkInvariant, PTL


-----------------------------------------------------------------------------
(* The size of a region: RegionInv, for programs in which no caller asks    *)
(* for a number of threads beside the regions of another.                  *)

\* It holds at first.
LEMMA InitRegionInv == ASSUME Unmixed PROVE Init => RegionInv
<1> SUFFICES ASSUME Init PROVE RegionInv
  OBVIOUS
<1>1. RegionType /\ CallInv /\ CountedInv
  BY ProgramsAssumption, NumberAssumption
     DEF Init, RegionType, CallInv, CountedInv, ForkFrame
<1>2. RegionEndsFirst /\ TeamSizeAgrees /\ RequestHonoured
  BY DEF Init, Registered, RegionEndsFirst, TeamSizeAgrees, RequestHonoured
<1>3. CASE \A c \in Caller : \A k \in DOMAIN program[c] : program[c][k] = Region
  BY <1>1, <1>2, <1>3 DEF Init, RegionInv, AllDefault
<1>4. CASE \E c \in Caller : \A d \in Caller \ {c} : program[d] = <<>>
  <2> PICK c \in Caller : \A d \in Caller \ {c} : program[d] = <<>>
    BY <1>4
  <2>1. Alone(c)
    BY DEF Init, Alone, ForkFrame, Constructing
  <2>2. QED
    BY <1>1, <1>2, <2>1 DEF RegionInv
<1>5. QED
  BY <1>3, <1>4 DEF Init, Unmixed

\* While a caller's region runs, its initial_thread holds the number the
\* caller has asked for.
LEMMA RequestedIsAsked ==
  ASSUME ForkInv, RegionInv, NEW c \in Caller,
         worker[c] # "none" \/ pc[c] = "fork_reset"
  PROVE  /\ current_task[c] \in Caller
         /\ Requested(c) = asked[c]
<1>1. pc[c] \in ForkFrame \cup {"fork_reset"}
  BY DEF ForkInv, FramesOutlive
<1>2. current_task[c] \in Caller /\ pc[c] # "idle" /\ program[c] # <<>>
  BY <1>1 DEF RegionInv, CallInv, ForkFrame
<1>3. CASE AllDefault
  BY <1>2, <1>3 DEF AllDefault, Requested
<1>4. ASSUME NEW d \in Caller, Alone(d) PROVE Requested(c) = asked[c]
  BY <1>1, <1>2, <1>4 DEF Alone, Requested
<1>5. QED
  BY <1>2, <1>3, <1>4 DEF RegionInv

\* What start_backend, start_hpx and wait_for_startup leave alone.
LEMMA RegionStartStep ==
  ASSUME ForkInv, RegionInv, NEW c \in Caller,
         Enter(c) \/ StartBackend(c) \/ Construct(c) \/ StartLock(c) \/ StartRelock(c)
           \/ StartWakeEarly(c) \/ ResetBackend(c) \/ Startup(c)
  PROVE  RegionInv'
<1> USE NumberAssumption, NoneAssumption
    DEF ForkType, CallerPC, Goto, startVars, regionVars
<1>1. ForkType /\ RegionType /\ CallInv /\ CountedInv
  BY DEF ForkInv, RegionInv
<1>2. /\ UNCHANGED <<program, worker, current_task, num_threads, running_threads, made,
                     live, notifiers, tasks_left, asked>>
      /\ \/ threads_requested' = threads_requested
         \/ /\ pc[c] = "construct"
            /\ threads_requested' = [threads_requested EXCEPT ![c] = InitialNumThreads]
  <2>1. CASE Construct(c)
    BY <2>1 DEF Construct
  <2>2. CASE Startup(c)
    BY <2>2 DEF Startup, StartupNotify
  <2>3. CASE Enter(c) \/ StartBackend(c) \/ StartLock(c)
    BY <2>3 DEF Enter, StartBackend, StartLock
  <2>4. CASE StartRelock(c) \/ StartWakeEarly(c) \/ ResetBackend(c)
    BY <2>4 DEF StartRelock, StartWakeEarly, ResetBackend
  <2>5. QED
    BY <2>1, <2>2, <2>3, <2>4
<1>3. RegionType'
  <2>1. threads_requested \in [Caller -> Nat]
    BY <1>1 DEF RegionType
  <2>2. threads_requested' \in [Caller -> Nat]
    BY <1>2, <2>1
  <2>3. QED
    BY <1>1, <1>2, <2>2 DEF RegionType
<1>4. CountedInv' /\ TeamSizeAgrees' /\ RequestHonoured'
  BY <1>2 DEF RegionInv, CountedInv, TeamSizeAgrees, RequestHonoured
<1>5. /\ hpx_backend' = hpx_backend \/ (pc[c] = "reset" /\ hpx_backend' = c)
      /\ \A d \in Caller \ {c} : pc'[d] = pc[d]
      /\ pc[c] = "idle" => program[c] # <<>> \/ pc'[c] = "idle"
      /\ pc'[c] = "call" => pc[c] = "call" \/ hpx_backend' \in Caller
      /\ pc'[c] \in ForkFrame \cup {"fork_reset"} => pc'[c] = pc[c]
      /\ pc'[c] \in Constructing =>
           /\ hpx_backend' = hpx_backend
           /\ pc[c] \in Constructing \/ hpx_backend = None
  <2> USE <1>1 DEF ForkFrame, Constructing
  <2>1. CASE Enter(c)
    BY <2>1 DEF Enter
  <2>2. CASE StartBackend(c)
    BY <2>2 DEF StartBackend
  <2>3. CASE Construct(c)
    BY <2>3 DEF Construct
  <2>4. CASE StartLock(c)
    BY <2>4 DEF StartLock
  <2>5. CASE StartRelock(c)
    BY <2>5 DEF StartRelock
  <2>6. CASE ResetBackend(c)
    BY <2>6 DEF ResetBackend
  <2>7. CASE Startup(c)
    BY <2>7 DEF Startup, StartupNotify
  <2>8. CASE StartWakeEarly(c)
    BY <2>8 DEF StartWakeEarly
  <2>9. QED
    BY <2>1, <2>2, <2>3, <2>4, <2>5, <2>6, <2>7, <2>8
<1>6. CallInv'
  BY <1>1, <1>2, <1>5 DEF CallInv
<1>7. RegionEndsFirst'
  BY <1>2, <1>5 DEF RegionInv, RegionEndsFirst
<1>8. CASE AllDefault
  <2>1. AllDefault'
    BY <1>1, <1>2, <1>8 DEF AllDefault, RegionType
  <2>2. QED
    BY <1>3, <1>4, <1>6, <1>7, <2>1 DEF RegionInv
<1>9. ASSUME NEW d \in Caller, Alone(d) PROVE Alone(d)'
  <2>1. \A e \in Caller \ {d} : program'[e] = <<>> /\ pc[e] = "idle"
    BY <1>1, <1>2, <1>9 DEF Alone, CallInv
  <2>2. hpx_backend' = hpx_backend \/ hpx_backend' = d
    BY <1>5, <2>1
  <2>3. pc'[d] \in Constructing => hpx_backend' = None
    BY <1>5, <1>9, <2>1 DEF Alone, Constructing
  <2>4. threads_requested'[d] = asked'[d]
    BY <1>1, <1>2, <1>9, <2>1 DEF Alone, RegionType, Constructing
  <2>5. hpx_backend' = None => asked'[d] = InitialNumThreads
    BY <1>2, <1>5, <1>9 DEF Alone
  <2>6. pc'[d] \in ForkFrame \cup {"fork_reset"} => current_task'[d] = d
    BY <1>2, <1>5, <1>9 DEF Alone
  <2>7. QED
    BY <1>9, <2>1, <2>2, <2>3, <2>4, <2>5, <2>6 DEF Alone
<1>10. QED
  BY <1>3, <1>4, <1>6, <1>7, <1>8, <1>9 DEF RegionInv

\* The calls of a caller keep it: one that asks, and fork up to its wait.
LEMMA RegionAskStep ==
  ASSUME ForkInv, RegionInv, NEW c \in Caller, SetThreadsRequested(c)
  PROVE  RegionInv'
<1> USE NoneAssumption DEF Goto, startVars, regionVars
<1>1. ForkType /\ RegionType /\ CallInv /\ CountedInv /\ FramesOutlive
  BY DEF ForkInv, RegionInv
<1> DEFINE n == Head(program[c])
<1>2. /\ pc[c] = "call" /\ hpx_backend \in Caller /\ program[c] # <<>>
      /\ program[c] \in Seq(Nat)
      /\ worker[c] = "none"
  BY <1>1 DEF SetThreadsRequested, CallInv, FramesOutlive, ForkFrame, RegionType
<1>3. n \in Nat /\ n = program[c][1] /\ 1 \in DOMAIN program[c] /\ n # Region
  BY <1>2 DEF SetThreadsRequested
<1>4. Tail(program[c]) \in Seq(Nat)
  BY <1>2
<1> HIDE DEF n
<1>5. /\ UNCHANGED <<worker, current_task, hpx_backend, num_threads, running_threads,
                     made, live, notifiers, tasks_left>>
      /\ threads_requested' = [threads_requested EXCEPT ![hpx_backend] = n]
      /\ asked' = [asked EXCEPT ![c] = n]
      /\ program' = [program EXCEPT ![c] = Tail(program[c])]
      /\ pc' = [pc EXCEPT ![c] = "idle"]
  BY DEF SetThreadsRequested, n
<1>6. RegionType'
  BY <1>1, <1>2, <1>3, <1>4, <1>5 DEF RegionType
<1>7. CountedInv' /\ TeamSizeAgrees' /\ RequestHonoured'
  <2>1. \A d \in Caller : (d = c /\ worker[d] = "none") \/ asked'[d] = asked[d]
    BY <1>1, <1>2, <1>5 DEF RegionType
  <2>2. CountedInv'
    BY <1>1, <1>2, <1>5, <2>1 DEF CountedInv
  <2>3. QED
    BY <1>1, <1>2, <1>5, <2>2, <2>1 DEF RegionInv, Registered, TeamSizeAgrees, RequestHonoured
<1>8. CallInv' /\ RegionEndsFirst'
  BY <1>1, <1>2, <1>5
     DEF RegionInv, CallInv, RegionEndsFirst, ForkType, RegionType, ForkFrame
<1>9. ~AllDefault
  BY <1>3 DEF AllDefault
<1>10. ASSUME NEW d \in Caller, Alone(d) PROVE Alone(d)'
  <2>1. d = c
    BY <1>2, <1>10 DEF Alone
  <2>2. hpx_backend = c
    BY <1>2, <1>10, <2>1 DEF Alone
  <2>3. threads_requested'[c] = n /\ asked'[c] = n /\ pc'[c] = "idle"
    BY <1>1, <1>5, <2>2 DEF RegionType, ForkType
  <2>4. \A e \in Caller \ {c} : program'[e] = <<>>
    BY <1>1, <1>5, <1>10, <2>1 DEF Alone, RegionType
  <2>5. QED
    BY <1>5, <2>1, <2>2, <2>3, <2>4 DEF Alone, ForkFrame, Constructing
<1>11. QED
  BY <1>6, <1>7, <1>8, <1>9, <1>10 DEF RegionInv

\* fork up to its wait, and the wait.
LEMMA RegionForkStep ==
  ASSUME ForkInv, RegionInv, NEW c \in Caller,
         Fork(c) \/ ForkLock(c) \/ ForkWakeEarly(c)
  PROVE  RegionInv'
<1> USE NoneAssumption DEF Goto, startVars, regionVars
<1>1. ForkType /\ RegionType /\ CallInv /\ CountedInv /\ FramesOutlive
  BY DEF ForkInv, RegionInv
<1>2. CASE Fork(c)
  <2>1. /\ pc[c] = "call" /\ hpx_backend \in Caller /\ worker[c] = "none"
    BY <1>1, <1>2 DEF Fork, CallInv, FramesOutlive, ForkFrame
  <2>2. /\ UNCHANGED <<program, threads_requested, hpx_backend, num_threads,
                       running_threads, made, live, notifiers, tasks_left, asked>>
        /\ current_task' = [current_task EXCEPT ![c] = hpx_backend]
        /\ worker' = [worker EXCEPT ![c] = "team"]
        /\ pc' = [pc EXCEPT ![c] = "fork_lock"]
    BY <1>2 DEF Fork
  <2>3. RegionType'
    BY <1>1, <2>1, <2>2 DEF RegionType
  <2>4. CountedInv' /\ TeamSizeAgrees' /\ RequestHonoured'
    <3>1. /\ worker'[c] = "team"
          /\ \A d \in Caller \ {c} : worker'[d] = worker[d]
      BY <1>1, <2>2 DEF ForkType
    <3>2. CountedInv'
      BY <1>1, <2>1, <2>2, <3>1 DEF CountedInv
    <3>3. QED
      BY <2>2, <3>1, <3>2 DEF RegionInv, Registered, TeamSizeAgrees, RequestHonoured
  <2>5. CallInv'
    BY <1>1, <2>1, <2>2 DEF CallInv, ForkType, RegionType, ForkFrame
  <2>6. RegionEndsFirst'
    BY <1>1, <2>1, <2>2 DEF RegionInv, RegionEndsFirst, ForkType
  <2>7. AllDefault => AllDefault'
    BY <2>2 DEF AllDefault
  <2>8. ASSUME NEW d \in Caller, Alone(d) PROVE Alone(d)'
    <3>1. d = c /\ hpx_backend = c
      BY <1>1, <2>1, <2>8 DEF Alone, CallInv
    <3>2. pc'[c] = "fork_lock" /\ current_task'[c] = c
      BY <1>1, <2>2, <3>1 DEF ForkType, RegionType
    <3>3. QED
      BY <2>2, <2>8, <3>1, <3>2 DEF Alone, Constructing
  <2>9. QED
    BY <2>3, <2>4, <2>5, <2>6, <2>7, <2>8 DEF RegionInv
<1>3. CASE ForkLock(c) \/ ForkWakeEarly(c)
  <2>1. /\ UNCHANGED <<program, threads_requested, hpx_backend, num_threads, worker,
                       current_task, running_threads, made, live, notifiers,
                       tasks_left, asked>>
        /\ pc[c] \in ForkFrame
        /\ pc'[c] \in ForkFrame \/ (pc'[c] = "fork_reset" /\ running[c] /\ ForkMtxFree(c))
        /\ \A d \in Caller \ {c} : pc'[d] = pc[d]
    BY <1>1, <1>3 DEF ForkLock, ForkWakeEarly, ForkType, ForkFrame
  <2>2. CallInv'
    BY <1>1, <2>1 DEF CallInv, ForkFrame
  <2>3. RegionEndsFirst'
    BY <1>1, <2>1
       DEF ForkInv, RegionInv, RegionEndsFirst, FlagInv, ForkMtxFree, CountedInv, ForkFrame
  <2>4. CountedInv' /\ TeamSizeAgrees' /\ RequestHonoured' /\ RegionType'
    BY <2>1 DEF RegionInv, CountedInv, TeamSizeAgrees, RequestHonoured, RegionType
  <2>5. AllDefault => AllDefault'
    BY <2>1 DEF AllDefault
  <2>6. ASSUME NEW d \in Caller, Alone(d) PROVE Alone(d)'
    BY <2>1, <2>6 DEF Alone, Constructing, ForkFrame
  <2>7. QED
    BY <2>2, <2>3, <2>4, <2>5, <2>6 DEF RegionInv
<1>4. QED
  BY <1>2, <1>3

\* The end of fork.
LEMMA RegionResetStep ==
  ASSUME ForkInv, RegionInv, NEW c \in Caller, ForkReset(c)
  PROVE  RegionInv'
<1> USE NoneAssumption, NumberAssumption DEF Goto, startVars, regionVars
<1>1. ForkType /\ RegionType /\ CallInv /\ CountedInv /\ FramesOutlive
  BY DEF ForkInv, RegionInv
<1>2. /\ pc[c] = "fork_reset" /\ current_task[c] \in Caller /\ program[c] # <<>>
      /\ program[c] \in Seq(Nat)
      /\ worker[c] = "none"
  BY <1>1 DEF ForkReset, CallInv, FramesOutlive, ForkFrame, RegionType
<1>3. /\ Tail(program[c]) \in Seq(Nat)
      /\ \A k \in DOMAIN Tail(program[c]) :
           k + 1 \in DOMAIN program[c] /\ Tail(program[c])[k] = program[c][k + 1]
  BY <1>2
<1> DEFINE t == Tail(program[c])
<1>4. /\ UNCHANGED <<worker, current_task, hpx_backend, num_threads, running_threads,
                     made, live, notifiers, tasks_left>>
      /\ threads_requested' =
           [threads_requested EXCEPT ![current_task[c]] = InitialNumThreads]
      /\ asked' = [asked EXCEPT ![c] = InitialNumThreads]
      /\ program' = [program EXCEPT ![c] = t]
      /\ pc' = [pc EXCEPT ![c] = "idle"]
  BY DEF ForkReset
<1> HIDE DEF t
<1>5. RegionType'
  <2>1. t \in Seq(Nat)
    BY <1>3 DEF t
  <2>2. QED
    BY <1>1, <1>2, <1>4, <2>1 DEF RegionType
<1>6. CountedInv' /\ TeamSizeAgrees' /\ RequestHonoured'
  <2>1. \A d \in Caller : (d = c /\ worker[d] = "none") \/ asked'[d] = asked[d]
    BY <1>1, <1>2, <1>4 DEF RegionType
  <2>2. CountedInv'
    BY <1>1, <1>2, <1>4, <2>1 DEF CountedInv
  <2>3. QED
    BY <1>1, <1>2, <1>4, <2>2, <2>1 DEF RegionInv, Registered, TeamSizeAgrees, RequestHonoured
<1>7. CallInv' /\ RegionEndsFirst'
  BY <1>1, <1>2, <1>4
     DEF RegionInv, CallInv, RegionEndsFirst, ForkType, RegionType, ForkFrame
<1>8. ASSUME AllDefault PROVE AllDefault'
  <2>1. \A d \in Caller : \A k \in DOMAIN program'[d] : program'[d][k] = Region
    BY <1>1, <1>3, <1>4, <1>8 DEF AllDefault, RegionType, t
  <2>2. \A d \in Caller : threads_requested'[d] = InitialNumThreads
                          /\ asked'[d] = InitialNumThreads
    BY <1>1, <1>2, <1>4, <1>8 DEF AllDefault, RegionType
  <2>3. QED
    BY <2>1, <2>2 DEF AllDefault
<1>9. ASSUME NEW d \in Caller, Alone(d) PROVE Alone(d)'
  <2>1. d = c /\ current_task[c] = c
    BY <1>2, <1>9 DEF Alone
  <2>2. /\ threads_requested'[c] = InitialNumThreads /\ asked'[c] = InitialNumThreads
        /\ pc'[c] = "idle"
    BY <1>1, <1>4, <2>1 DEF RegionType, ForkType
  <2>3. \A e \in Caller \ {c} : program'[e] = <<>>
    BY <1>1, <1>4, <1>9, <2>1 DEF Alone, RegionType
  <2>4. QED
    BY <1>4, <1>9, <2>1, <2>2, <2>3 DEF Alone, ForkFrame, Constructing
<1>10. QED
  BY <1>5, <1>6, <1>7, <1>8, <1>9 DEF RegionInv

\* fork_worker and the threads of the region: the three reads of
\* threads_requested find the same number.
LEMMA RegionWorkerStep ==
  ASSUME ForkInv, RegionInv, NEW c \in Caller, WorkerStep(c) \/ EndThread(c) \/ NotifyAll(c)
  PROVE  RegionInv'
<1> USE NoneAssumption DEF WorkerGoto, startVars, regionVars
<1>1. ForkType /\ RegionType /\ CallInv /\ CountedInv /\ FramesOutlive
  BY DEF ForkInv, RegionInv
<1>2. /\ pc \in [Caller -> CallerPC] /\ worker \in [Caller -> WorkerPC]
      /\ num_threads \in [Caller -> Nat] /\ running_threads \in [Caller -> Int]
      /\ made \in [Caller -> Nat] /\ live \in [Caller -> Nat]
      /\ num_threads[c] \in Nat /\ made[c] \in Nat /\ live[c] \in Nat
      /\ running_threads[c] \in Int
  BY <1>1 DEF ForkType, RegionType
<1>3. UNCHANGED <<program, threads_requested, hpx_backend, current_task, asked, tasks_left>>
  BY DEF WorkerStep, WorkerTeam, WorkerCount, WorkerRegister, WorkerCheck, WorkerSleep,
         WorkerDrain, WorkerLock, WorkerNotify, WorkerUnlock, EndThread, NotifyAll
<1>4. worker[c] # "none" =>
        Requested(c) = asked[c] /\ Requested(c) \in Nat /\ asked[c] \in Nat
  BY <1>1, RequestedIsAsked DEF RegionType
<1>5. \A d \in Caller : pc'[d] = pc[d] \/ (pc[d] \in ForkFrame /\ pc'[d] \in ForkFrame)
  <2>1. CASE WorkerNotify(c)
    BY <1>2, <2>1 DEF WorkerNotify, ForkFrame
  <2>2. CASE pc' = pc
    BY <2>2
  <2>3. QED
    BY <2>1, <2>2 DEF WorkerStep, WorkerTeam, WorkerCount, WorkerRegister,
         WorkerCheck, WorkerSleep, WorkerDrain, WorkerLock, WorkerUnlock, EndThread, NotifyAll
<1>6. \E w \in WorkerPC, n, m, l \in Nat, r \in Int :
        /\ worker' = [worker EXCEPT ![c] = w]
        /\ num_threads' = [num_threads EXCEPT ![c] = n]
        /\ made' = [made EXCEPT ![c] = m]
        /\ live' = [live EXCEPT ![c] = l]
        /\ running_threads' = [running_threads EXCEPT ![c] = r]
  <2> USE <1>2, <1>4 DEF WorkerPC
  <2>0. /\ [worker EXCEPT ![c] = worker[c]] = worker
        /\ [num_threads EXCEPT ![c] = num_threads[c]] = num_threads
        /\ [made EXCEPT ![c] = made[c]] = made
        /\ [live EXCEPT ![c] = live[c]] = live
        /\ [running_threads EXCEPT ![c] = running_threads[c]] = running_threads
    OBVIOUS
  <2>1. CASE WorkerTeam(c)
    <3>1. Requested(c) \in Nat
      BY <2>1 DEF WorkerTeam
    <3> WITNESS "count" \in WorkerPC, Requested(c) \in Nat, made[c] \in Nat,
                live[c] \in Nat, running_threads[c] \in Int
    <3> QED
      BY <2>0, <2>1 DEF WorkerTeam
  <2>2. CASE WorkerCount(c)
    <3>1. Requested(c) \in Int
      BY <2>2 DEF WorkerCount
    <3> WITNESS "register" \in WorkerPC, num_threads[c] \in Nat, 0 \in Nat,
                live[c] \in Nat, Requested(c) \in Int
    <3> QED
      BY <2>0, <2>2 DEF WorkerCount
  <2>3. CASE WorkerRegister(c) /\ made[c] < Requested(c)
    <3> WITNESS worker[c] \in WorkerPC, num_threads[c] \in Nat, made[c] + 1 \in Nat,
                live[c] + 1 \in Nat, running_threads[c] \in Int
    <3> QED
      BY <2>0, <2>3 DEF WorkerRegister
  <2>4. CASE WorkerRegister(c) /\ ~(made[c] < Requested(c))
    <3> WITNESS "check" \in WorkerPC, num_threads[c] \in Nat, made[c] \in Nat,
                live[c] \in Nat, running_threads[c] \in Int
    <3> QED
      BY <2>0, <2>4 DEF WorkerRegister
  <2>5. CASE WorkerCheck(c) \/ WorkerSleep(c) \/ WorkerDrain(c) \/ WorkerLock(c)
               \/ WorkerNotify(c) \/ WorkerUnlock(c) \/ NotifyAll(c)
    <3>1. \E w \in WorkerPC : worker' = [worker EXCEPT ![c] = w]
      <4>1. CASE NotifyAll(c)
        <5>1. CASE worker[c] = "asleep"
          BY <4>1, <5>1 DEF NotifyAll
        <5>2. CASE worker[c] # "asleep"
          BY <2>0, <4>1, <5>2 DEF NotifyAll
        <5>3. QED
          BY <5>1, <5>2
      <4>2. CASE WorkerCheck(c)
        BY <4>2 DEF WorkerCheck
      <4>3. CASE WorkerSleep(c) \/ WorkerDrain(c) \/ WorkerLock(c)
        BY <4>3 DEF WorkerSleep, WorkerDrain, WorkerLock
      <4>4. CASE WorkerNotify(c) \/ WorkerUnlock(c)
        BY <4>4 DEF WorkerNotify, WorkerUnlock
      <4>5. QED
        BY <2>5, <4>1, <4>2, <4>3, <4>4
    <3>2. PICK w \in WorkerPC : worker' = [worker EXCEPT ![c] = w]
      BY <3>1
    <3>3. UNCHANGED <<num_threads, made, live, running_threads>>
      BY <2>5 DEF WorkerCheck, WorkerSleep, WorkerDrain, WorkerLock, WorkerNotify,
         WorkerUnlock, NotifyAll
    <3> WITNESS w \in WorkerPC, num_threads[c] \in Nat, made[c] \in Nat,
                live[c] \in Nat, running_threads[c] \in Int
    <3> QED
      BY <2>0, <3>2, <3>3
  <2>6. CASE EndThread(c)
    <3>1. live[c] - 1 \in Nat
      BY <2>6 DEF EndThread
    <3> WITNESS worker[c] \in WorkerPC, num_threads[c] \in Nat, made[c] \in Nat,
                live[c] - 1 \in Nat, running_threads[c] - 1 \in Int
    <3> QED
      BY <2>0, <2>6 DEF EndThread
  <2>7. QED
    BY <2>1, <2>2, <2>3, <2>4, <2>5, <2>6 DEF WorkerStep
<1>7. \A d \in Caller \ {c} : worker'[d] = worker[d] /\ num_threads'[d] = num_threads[d]
        /\ running_threads'[d] = running_threads[d] /\ made'[d] = made[d]
        /\ live'[d] = live[d]
  BY <1>6, <1>2
<1>8. RegionType'
  <2>1. notifiers' \in [Caller -> Nat]
    <3>1. notifiers \in [Caller -> Nat] /\ notifiers[c] + 1 \in Nat
      BY <1>1 DEF RegionType
    <3>2. \/ notifiers' = notifiers
          \/ notifiers' = [notifiers EXCEPT ![c] = IF running_threads[c] = 1 THEN @ + 1 ELSE @]
          \/ notifiers[c] > 0 /\ notifiers' = [notifiers EXCEPT ![c] = @ - 1]
      BY DEF WorkerStep, WorkerTeam, WorkerCount, WorkerRegister, WorkerCheck, WorkerSleep,
         WorkerDrain, WorkerLock, WorkerNotify, WorkerUnlock, EndThread, NotifyAll
    <3>3. QED
      BY <3>1, <3>2
  <2>2. /\ num_threads' \in [Caller -> Nat] /\ made' \in [Caller -> Nat]
        /\ live' \in [Caller -> Nat] /\ running_threads' \in [Caller -> Int]
    BY <1>2, <1>6
  <2>3. QED
    BY <1>1, <1>3, <2>1, <2>2 DEF RegionType
<1>9. CallInv'
  BY <1>1, <1>3, <1>5 DEF CallInv, ForkFrame
<1>10. /\ worker'[c] \in {"count", "register"} => num_threads'[c] = asked[c]
       /\ worker'[c] = "register" =>
            made'[c] <= asked[c] /\ running_threads'[c] = asked[c] - (made'[c] - live'[c])
       /\ worker'[c] \notin {"register", "check", "wait", "asleep"} => live'[c] = 0
       /\ worker'[c] \notin {"register", "check", "wait", "asleep", "drain"} => ~tasks_left[c]
       /\ worker'[c] \in Registered =>
            /\ num_threads'[c] = made'[c] /\ running_threads'[c] = live'[c]
            /\ made'[c] = asked[c]
       /\ pc'[c] = "fork_reset" => worker'[c] = "none" /\ live'[c] = 0 /\ ~tasks_left[c]
  <2>1. /\ pc[c] = "fork_reset" => worker[c] = "none" /\ live[c] = 0 /\ ~tasks_left[c]
        /\ worker[c] \in Registered =>
             /\ num_threads[c] = made[c] /\ running_threads[c] = live[c]
             /\ made[c] = asked[c]
        /\ num_threads[c] \in Nat /\ made[c] \in Nat /\ live[c] \in Nat
        /\ running_threads[c] \in Int
    BY <1>1 DEF RegionInv, RegionEndsFirst, TeamSizeAgrees, RequestHonoured, RegionType
  <2> USE <1>2, <1>3, <1>4, <1>5, <2>1 DEF Registered
  <2>0. /\ worker[c] \in {"count", "register"} => num_threads[c] = asked[c]
        /\ worker[c] = "register" =>
             made[c] <= asked[c] /\ running_threads[c] = asked[c] - (made[c] - live[c])
        /\ worker[c] \notin {"register", "check", "wait", "asleep"} => live[c] = 0
        /\ worker[c] \notin {"register", "check", "wait", "asleep", "drain"} => ~tasks_left[c]
        /\ worker[c] # "none" => pc[c] # "fork_reset" /\ pc'[c] # "fork_reset"
    BY <1>1 DEF CountedInv, FramesOutlive, ForkFrame
  <2> USE <2>0
  <2>2. CASE WorkerTeam(c)
    BY <2>2 DEF WorkerTeam
  <2>3. CASE WorkerCount(c)
    BY <2>3 DEF WorkerCount
  <2>4. CASE WorkerRegister(c)
    BY <2>4 DEF WorkerRegister
  <2>5. CASE WorkerCheck(c) \/ WorkerSleep(c) \/ WorkerDrain(c)
    BY <2>5 DEF WorkerCheck, WorkerSleep, WorkerDrain
  <2>6. CASE WorkerLock(c) \/ WorkerUnlock(c)
    BY <2>6 DEF WorkerLock, WorkerUnlock
  <2>7. CASE WorkerNotify(c)
    BY <2>7 DEF WorkerNotify
  <2>8. CASE EndThread(c)
    BY <2>8 DEF EndThread
  <2>9. CASE NotifyAll(c)
    BY <2>9 DEF NotifyAll
  <2>10. QED
    BY <2>2, <2>3, <2>4, <2>5, <2>6, <2>7, <2>8, <2>9 DEF WorkerStep
<1>11. CountedInv'
  BY <1>1, <1>3, <1>7, <1>10 DEF CountedInv
<1>12. TeamSizeAgrees'
  BY <1>3, <1>7, <1>10 DEF RegionInv, TeamSizeAgrees
<1>13. RequestHonoured'
  BY <1>3, <1>7, <1>10 DEF RegionInv, RequestHonoured
<1>14. RegionEndsFirst'
  BY <1>3, <1>5, <1>7, <1>10 DEF RegionInv, RegionEndsFirst, ForkFrame
<1>15. AllDefault => AllDefault'
  BY <1>3 DEF AllDefault
<1>16. ASSUME NEW d \in Caller, Alone(d) PROVE Alone(d)'
  BY <1>3, <1>5, <1>16 DEF Alone, Constructing, ForkFrame
<1>17. QED
  BY <1>8, <1>9, <1>11, <1>12, <1>13, <1>14, <1>15, <1>16 DEF RegionInv

\* A region has tasks only while it has threads, or fork_worker waits for them.
LEMMA RegionTasksStep ==
  ASSUME ForkInv, RegionInv, NEW c \in Caller, CreateTasks(c) \/ FinishTasks(c)
  PROVE  RegionInv'
<1> USE DEF startVars, regionVars
<1>1. ForkType /\ RegionType /\ CountedInv /\ FramesOutlive
  BY DEF ForkInv, RegionInv
<1>2. /\ UNCHANGED <<program, pc, hpx_backend, threads_requested, current_task, worker,
                     num_threads, running_threads, made, live, notifiers, asked>>
      /\ \/ live[c] > 0 /\ tasks_left' = [tasks_left EXCEPT ![c] = TRUE]
         \/ tasks_left' = [tasks_left EXCEPT ![c] = FALSE]
      /\ tasks_left \in [Caller -> BOOLEAN]
  BY <1>1 DEF CreateTasks, FinishTasks, RegionType
<1>3. RegionType' /\ CallInv' /\ TeamSizeAgrees' /\ RequestHonoured'
  <2>1. tasks_left' \in [Caller -> BOOLEAN]
    BY <1>2
  <2>2. QED
    BY <1>1, <1>2, <2>1
       DEF RegionInv, RegionType, CallInv, TeamSizeAgrees, RequestHonoured
<1>4. live[c] = 0 => ~tasks_left'[c]
  BY <1>2
<1>5. \A d \in Caller \ {c} : tasks_left'[d] = tasks_left[d]
  BY <1>2
<1>6. CountedInv'
  BY <1>2, <1>4, <1>5 DEF RegionInv, CountedInv
<1>7. RegionEndsFirst'
  BY <1>2, <1>4, <1>5 DEF RegionInv, RegionEndsFirst
<1>8. AllDefault => AllDefault'
  BY <1>2 DEF AllDefault
<1>9. ASSUME NEW d \in Caller, Alone(d) PROVE Alone(d)'
  BY <1>2, <1>9 DEF Alone
<1>10. QED
  BY <1>3, <1>6, <1>7, <1>8, <1>9 DEF RegionInv

\* The regions keep their invariant for any callers, also if several make
\* their first calls at once: see RegionInv.
THEOREM RegionInvariant ==
  ASSUME Unmixed
  PROVE  Spec => []RegionInv
<1>1. ForkInv /\ RegionInv /\ [Next]_vars => RegionInv'
  <2> SUFFICES ASSUME ForkInv, RegionInv, [Next]_vars PROVE RegionInv'
    OBVIOUS
  <2>1. CASE Next
    BY <2>1, RegionStartStep, RegionAskStep, RegionForkStep, RegionResetStep,
       RegionWorkerStep, RegionTasksStep DEF Next, CallerStep, RegionStep
  <2>2. CASE UNCHANGED vars
    BY <2>2 DEF vars, startVars, regionVars, RegionInv, RegionType, CallInv, CountedInv,
                AllDefault, Alone, RegionEndsFirst, TeamSizeAgrees, RequestHonoured
  <2>3. QED
    BY <2>1, <2>2
<1>2. Init => RegionInv
  BY InitRegionInv
<1>3. QED
  BY <1>1, <1>2, ForkInvariant, PTL DEF Spec

\* When fork returns, all threads of its region have counted themselves down,
\* its tasks are done and fork_and_sync is over, in every such program.
THEOREM RegionEnds ==
  ASSUME Unmixed
  PROVE  Spec => []RegionEndsFirst
<1>1. RegionInv => RegionEndsFirst
  BY DEF RegionInv
<1>2. QED
  BY <1>1, RegionInvariant, PTL

\* fork_worker registers as many threads as the team counts and as it waits
\* for, if no caller asks for a number while another's region is started.
THEOREM TeamSizeCorrect ==
  ASSUME Unmixed
  PROVE  Spec => []TeamSizeAgrees
<1>1. RegionInv => TeamSizeAgrees
  BY DEF RegionInv
<1>2. QED
  BY <1>1, RegionInvariant, PTL

\* Then, too, a region gets the number of threads its caller has asked for.
THEOREM RequestCorrect ==
  ASSUME Unmixed
  PROVE  Spec => []RequestHonoured
<1>1. RegionInv => RequestHonoured
  BY DEF RegionInv
<1>2. QED
  BY <1>1, RegionInvariant, PTL
=============================================================================
