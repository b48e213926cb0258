------------------------------ MODULE TeamSingle ------------------------------
(***************************************************************************)
(* The constructs of intel_hpxMP.cpp in which one thread of a team acts    *)
(* for all: single (__kmpc_single), single with copyprivate                *)
(* (__kmpc_copyprivate) and the reduction in the runtime (__kmpc_reduce    *)
(* without atomics).  Every thread of the team meets the same constructs   *)
(* in the same order, one at a time; a "nowait" single has no barrier, so  *)
(* threads may be in different constructs.  The compiler's code around the *)
(* calls is part of the model: the winner runs the single's body, and      *)
(* after __kmpc_reduce the thread that got 1 updates the shared variable.  *)
(*                                                                         *)
(* barrier_wait is its contract, proved in TeamTasksProofs: it lets the    *)
(* team go when the whole team has called it.                              *)
(***************************************************************************)
EXTENDS Integers, FiniteSets

CONSTANTS
  Thread,        \* the threads of the team
  NumConstructs, \* how many constructs the program of the team has
  None           \* no thread, no pointer

ASSUME ThreadAssumption == IsFiniteSet(Thread) /\ Thread # {}
ASSUME NumConstructsAssumption == NumConstructs \in Nat
ASSUME NoneAssumption == None \notin Thread

Construct == 1..NumConstructs

Kind == {"nowait", "single", "copyprivate", "reduce"}

VARIABLES
  program,              \* the kind of each construct of the team's program
  at,                   \* the construct each thread is in, or comes to next
  pc,                   \* where in it each thread is
  team_single_counter,  \* parallel_region::single_counter
  task_single_counter,  \* omp_task_data::single_counter of each thread
  single_mtx,           \* parallel_region::single_mtx: its owner
  do_work,              \* what __kmpc_single returned to each thread
  winners,              \* the threads each construct's __kmpc_single returned 1 to
  copyprivate_data,     \* the thread whose variable copyprivate_data points to
  value,                \* the construct each thread's private variable comes from
  reduce_data,          \* the thread whose data each slot of reduce_data points to
  acc,                  \* how often each thread's share is in each thread's data
  todo,                 \* the slots the combining thread has not combined yet
  result                \* what each reduction added to the shared variable

singleVars == <<team_single_counter, task_single_counter, single_mtx, do_work, winners>>
copyVars == <<copyprivate_data, value>>
reduceVars == <<reduce_data, acc, todo, result>>
vars == <<program, at, pc, singleVars, copyVars, reduceVars>>

NoShare == [i \in Thread |-> 0]

PC == {"body", "lock", "test", "count", "unlock", "leave", "work", "publish", "store",
       "bar1", "copy", "combine", "bar2", "merge"}

Init ==
  /\ program \in [Construct -> Kind]
  /\ at = [i \in Thread |-> 1]
  /\ pc = [i \in Thread |-> "body"]
  /\ team_single_counter = 0
  /\ task_single_counter = [i \in Thread |-> 0]
  /\ single_mtx = None
  /\ do_work = [i \in Thread |-> FALSE]
  /\ winners = [k \in Construct |-> {}]
  /\ copyprivate_data = None
  /\ value = [i \in Thread |-> 0]
  /\ reduce_data = [i \in Thread |-> None]
  /\ acc = [i \in Thread |-> NoShare]
  /\ todo = [i \in Thread |-> {}]
  /\ result = [k \in Construct |-> NoShare]

Goto(i, from, to) ==
  /\ pc[i] = from
  /\ pc' = [pc EXCEPT ![i] = to]

\* The thread leaves the construct it is in.
Finish(i, from) ==
  /\ Goto(i, from, "body")
  /\ at' = [at EXCEPT ![i] = @ + 1]

-----------------------------------------------------------------------------
(* __kmpc_single                                                           *)

\* The thread comes to its next construct; for a reduction its private data
\* holds its own share, computed in the body, and is gone when it leaves.
Enter(i) ==
  /\ at[i] <= NumConstructs
  /\ Goto(i, "body", "lock")
  /\ acc' = [acc EXCEPT ![i] = [NoShare EXCEPT ![i] = 1]]
  /\ UNCHANGED <<program, at, singleVars, copyVars, reduce_data, todo, result>>

\* User code between constructs writes its private variable.
UserWrite(i) ==
  /\ pc[i] = "body" /\ value[i] # 0
  /\ value' = [value EXCEPT ![i] = 0]
  /\ UNCHANGED <<program, at, pc, singleVars, copyprivate_data, reduceVars>>

\* Mutant: the counters are compared without the lock.
SingleUnlocked(i) ==
  /\ Goto(i, "lock", "test")
  /\ UNCHANGED <<program, at, singleVars, copyVars, reduceVars>>

\* team->single_mtx.lock()
SingleLock(i) ==
  /\ single_mtx = None
  /\ Goto(i, "lock", "test")
  /\ single_mtx' = i
  /\ UNCHANGED <<program, at, team_single_counter, task_single_counter, do_work,
                 winners, copyVars, reduceVars>>

\* team->single_counter == task->single_counter
SingleTest(i) ==
  LET first == team_single_counter = task_single_counter[i] IN
  /\ Goto(i, "test", IF first THEN "count" ELSE "unlock")
  /\ do_work' = [do_work EXCEPT ![i] = first]
  /\ UNCHANGED <<program, at, team_single_counter, task_single_counter, single_mtx,
                 winners, copyVars, reduceVars>>

\* team->single_counter++: this thread is the one.
SingleCount(i) ==
  /\ Goto(i, "count", "unlock")
  /\ team_single_counter' = team_single_counter + 1
  /\ winners' = [winners EXCEPT ![at[i]] = @ \cup {i}]
  /\ UNCHANGED <<program, at, task_single_counter, single_mtx, do_work, copyVars,
                 reduceVars>>

\* Mutant: the lock is only released by the winner.
SingleUnlockWinner(i) ==
  /\ Goto(i, "unlock", "leave")
  /\ single_mtx' = IF do_work[i] THEN None ELSE single_mtx
  /\ UNCHANGED <<program, at, team_single_counter, task_single_counter, do_work,
                 winners, copyVars, reduceVars>>

\* team->single_mtx.unlock()
SingleUnlock(i) ==
  /\ Goto(i, "unlock", "leave")
  /\ single_mtx' = None
  /\ UNCHANGED <<program, at, team_single_counter, task_single_counter, do_work,
                 winners, copyVars, reduceVars>>

\* task->single_counter++; return do_work
SingleLeave(i) ==
  /\ Goto(i, "leave", IF program[at[i]] = "reduce" THEN "store" ELSE "work")
  /\ task_single_counter' = [task_single_counter EXCEPT ![i] = @ + 1]
  /\ UNCHANGED <<program, at, team_single_counter, single_mtx, do_work, winners,
                 copyVars, reduceVars>>

-----------------------------------------------------------------------------
(* The body of the single, and __kmpc_copyprivate after it.                *)

\* The winner's body sets the variable; a nowait single ends here.
Work(i) ==
  /\ pc[i] = "work"
  /\ \/ /\ program[at[i]] = "nowait"
        /\ Finish(i, "work")
        /\ UNCHANGED <<value, reduceVars>>
     \/ /\ program[at[i]] = "single"
        /\ Goto(i, "work", "bar2")
        /\ UNCHANGED <<at, value, reduceVars>>
     \/ /\ program[at[i]] = "copyprivate"
        /\ Goto(i, "work", "publish")
        /\ value' = IF do_work[i] THEN [value EXCEPT ![i] = at[i]] ELSE value
        /\ UNCHANGED <<at, reduceVars>>
  /\ UNCHANGED <<program, singleVars, copyprivate_data>>

\* Mutant: the pointer is set whoever the single thread was.
PublishAlways(i) ==
  /\ Goto(i, "publish", "bar1")
  /\ copyprivate_data' = i
  /\ UNCHANGED <<program, at, singleVars, value, reduceVars>>

\* if(didit) *data_ptr = cpy_data
Publish(i) ==
  /\ Goto(i, "publish", "bar1")
  /\ copyprivate_data' = IF do_work[i] THEN i ELSE copyprivate_data
  /\ UNCHANGED <<program, at, singleVars, value, reduceVars>>

\* cpy_func(cpy_data, *data_ptr)
Copy(i) ==
  /\ Goto(i, "copy", "bar2")
  /\ value' = [value EXCEPT ![i] = value[copyprivate_data]]
  /\ UNCHANGED <<program, at, singleVars, copyprivate_data, reduceVars>>

-----------------------------------------------------------------------------
(* __kmpc_reduce and the code the compiler puts behind it.                 *)

\* team->reduce_data[gtid] = data
Store(i) ==
  /\ Goto(i, "store", "bar1")
  /\ reduce_data' = [reduce_data EXCEPT ![i] = i]
  /\ UNCHANGED <<program, at, singleVars, copyVars, acc, todo, result>>

\* func(data, team->reduce_data[j]) for every other slot j.
Combine(i) ==
  \/ /\ pc[i] = "combine"
     /\ \E j \in todo[i] :
          /\ acc' = [acc EXCEPT ![i] = [t \in Thread |-> @[t] + acc[reduce_data[j]][t]]]
          /\ todo' = [todo EXCEPT ![i] = @ \ {j}]
     /\ UNCHANGED <<program, at, pc, singleVars, copyVars, reduce_data, result>>
  \/ /\ todo[i] = {}
     /\ Goto(i, "combine", "bar2")
     /\ UNCHANGED <<program, at, singleVars, copyVars, reduceVars>>

\* The thread __kmpc_reduce returned 1 to updates the shared variable, and
\* calls __kmpc_end_reduce, which without atomics does nothing.
Merge(i) ==
  /\ Finish(i, "merge")
  /\ result' = [result EXCEPT ![at[i]] = [t \in Thread |-> @[t] + acc[i][t]]]
  /\ acc' = [acc EXCEPT ![i] = NoShare]
  /\ UNCHANGED <<program, singleVars, copyVars, reduce_data, todo>>

-----------------------------------------------------------------------------
(* barrier_wait, called by the whole team: the first or the second barrier *)
(* of the construct they are in.                                           *)

AfterFirst(i) ==
  IF program[at[i]] = "copyprivate" THEN "copy"
  ELSE IF do_work[i] THEN "combine" ELSE "bar2"

AfterSecond(i) ==
  IF program[at[i]] = "reduce" /\ do_work[i] THEN "merge" ELSE "body"

\* Mutant: the loop over the slots does not skip the caller's own.
ReleaseFirstOwnToo ==
  /\ \A i \in Thread : pc[i] = "bar1"
  /\ pc' = [i \in Thread |-> AfterFirst(i)]
  /\ todo' = [i \in Thread |-> IF AfterFirst(i) = "combine" THEN Thread ELSE {}]
  /\ UNCHANGED <<program, at, singleVars, copyVars, reduce_data, acc, result>>

\* A barrier of HPX: a caller that is not the last sleeps at "bar1" or "bar2".
ReleaseFirst ==
  /\ \A i \in Thread : pc[i] = "bar1"
  /\ pc' = [i \in Thread |-> AfterFirst(i)]
  /\ todo' = [i \in Thread |-> IF AfterFirst(i) = "combine" THEN Thread \ {i} ELSE {}]
  /\ UNCHANGED <<program, at, singleVars, copyVars, reduce_data, acc, result>>

ReleaseSecond ==
  /\ \A i \in Thread : pc[i] = "bar2"
  /\ pc' = [i \in Thread |-> AfterSecond(i)]
  /\ at' = [i \in Thread |-> IF AfterSecond(i) = "body" THEN at[i] + 1 ELSE at[i]]
  /\ acc' = [i \in Thread |-> IF AfterSecond(i) = "body" THEN NoShare ELSE acc[i]]
  /\ UNCHANGED <<program, singleVars, copyVars, reduce_data, todo, result>>

-----------------------------------------------------------------------------

Step(i) ==
  \/ Enter(i)
  \/ SingleLock(i) \/ SingleTest(i) \/ SingleCount(i) \/ SingleUnlock(i) \/ SingleLeave(i)
  \/ Work(i) \/ Publish(i) \/ Copy(i)
  \/ Store(i) \/ Combine(i) \/ Merge(i)

Release == ReleaseFirst \/ ReleaseSecond

Next == (\E i \in Thread : Step(i) \/ UserWrite(i)) \/ Release

Spec == Init /\ [][Next]_vars

\* HPX runs every ready thread; single_mtx is taken finitely often, so a thread
\* that spins for it gets it.
FairSpec == Spec /\ WF_vars(Release) /\ \A i \in Thread : WF_vars(Step(i))

-----------------------------------------------------------------------------
(* Properties.                                                             *)

\* The state of __kmpc_single.
SingleType ==
  /\ program \in [Construct -> Kind]
  /\ at \in [Thread -> 1..(NumConstructs + 1)]
  /\ pc \in [Thread -> PC]
  /\ team_single_counter \in 0..NumConstructs
  /\ task_single_counter \in [Thread -> 0..NumConstructs]
  /\ single_mtx \in Thread \cup {None}
  /\ do_work \in [Thread -> BOOLEAN]
  /\ winners \in [Construct -> SUBSET Thread]

\* __kmpc_single returns 1 to at most one thread of the team per construct,
\* however far apart nowait singles let the threads drift.
SingleAtMostOnce ==
  \A k \in Construct : \A i, j \in winners[k] : i = j

\* No construct is skipped: a thread is past a construct only if some thread
\* was chosen for it.
SingleNotSkipped ==
  \A i \in Thread, k \in Construct : k < at[i] => winners[k] # {}

\* The body of each single is run once, by the thread __kmpc_single picks.
SingleExactlyOnce == SingleAtMostOnce /\ SingleNotSkipped

\* A thread comes out of copyprivate with what that construct's winner computed:
\* not an older value, and not what the winner writes to its variable later.
CopyprivateDelivers ==
  [][\A i \in Thread :
       pc[i] = "bar2" /\ at'[i] # at[i] /\ program[at[i]] = "copyprivate" =>
         value[i] = at[i]]_vars

\* A reduction adds every thread's share to the shared variable exactly once.
ReduceExact ==
  \A k \in Construct : result[k] \in {NoShare, [i \in Thread |-> 1]}

-----------------------------------------------------------------------------
(* The inductive invariant of the single construct.                        *)

\* Where a thread has not yet counted the construct it is in for itself.
Uncounted == {"body", "lock", "test", "count", "unlock", "leave"}

\* A thread's counter says which construct it is in; it never exceeds the
\* team's, and is below it once the thread has compared them.
CounterInv ==
  \A i \in Thread :
    /\ task_single_counter[i] = IF pc[i] \in Uncounted THEN at[i] - 1 ELSE at[i]
    /\ task_single_counter[i] <= team_single_counter
    /\ pc[i] \in {"unlock", "leave"} => task_single_counter[i] < team_single_counter
    /\ pc[i] = "count" => task_single_counter[i] = team_single_counter
    /\ pc[i] # "body" => at[i] <= NumConstructs

\* Only the owner of single_mtx is between the lock and the unlock.
LockInv ==
  \A i \in Thread : pc[i] \in {"test", "count", "unlock"} <=> single_mtx = i

\* The team's counter is the number of constructs that have their winner.
WinnersInv ==
  \A k \in Construct :
    /\ k > team_single_counter => winners[k] = {}
    /\ k <= team_single_counter => winners[k] # {}
    /\ \A i, j \in winners[k] : i = j

\* What the theorems of TeamSingleProofs rest on.
SingleInv == SingleType /\ CounterInv /\ LockInv /\ WinnersInv

-----------------------------------------------------------------------------
(* The inductive invariant of copyprivate and the reduction, kept by every *)
(* step from a state in which SingleInv holds.                             *)

\* Between the two barriers of the construct the thread is in.
Past(i) ==
  \/ pc[i] \in {"copy", "combine"}
  \/ /\ pc[i] = "bar2"
     /\ program[at[i]] # "single"

\* Each kind of construct has its own calls.
KindInv ==
  \A i \in Thread :
    /\ pc[i] = "work" => program[at[i]] # "reduce"
    /\ pc[i] \in {"publish", "copy"} => program[at[i]] = "copyprivate"
    /\ pc[i] \in {"store", "combine", "merge"} => program[at[i]] = "reduce"
    /\ pc[i] = "bar1" => program[at[i]] \in {"copyprivate", "reduce"}
    /\ pc[i] = "bar2" => program[at[i]] # "nowait"

\* A thread is ahead of another by nowait singles only, but for the thread that
\* merges a reduction after everybody else has left it; and between the two
\* barriers of a construct there is the whole team or nobody.
SyncInv ==
  /\ \A i, j \in Thread, k \in Construct :
       at[i] <= k /\ k < at[j] => program[k] = "nowait" \/ (k = at[i] /\ pc[i] = "merge")
  /\ \A i, j \in Thread : pc[i] = "merge" /\ i # j => at[i] < at[j]
  /\ \A i, j \in Thread : Past(i) => Past(j) /\ at[i] = at[j]

\* do_work says who was chosen; nobody is chosen for a construct to come.
ChosenInv ==
  \A i \in Thread :
    /\ \A k \in Construct : i \in winners[k] =>
         k < at[i] \/ (k = at[i] /\ pc[i] \notin {"body", "lock", "test", "count"})
    /\ pc[i] = "count" => do_work[i]
    /\ pc[i] \notin {"body", "lock", "test", "count"} =>
         (do_work[i] <=> i \in winners[at[i]])
    /\ pc[i] \in {"combine", "merge"} => do_work[i]

\* The pointer and the variable are the winner's, and a copy is what it points to.
CopyInv ==
  /\ copyprivate_data \in Thread \cup {None}
  /\ value \in [Thread -> Int]
  /\ \A i \in Thread :
       /\ /\ pc[i] \in {"publish", "bar1", "copy", "bar2"}
          /\ program[at[i]] = "copyprivate" /\ do_work[i]
          => value[i] = at[i] /\ (pc[i] # "publish" => copyprivate_data = i)
       /\ pc[i] = "bar2" /\ program[at[i]] = "copyprivate" => value[i] = at[i]

\* The shares in what a thread's data points to: its own, unless it combines,
\* and then those of the slots it has been through.
Shares(i) ==
  [t \in Thread |-> IF (pc[i] = "merge" \/ (Past(i) /\ do_work[i])) /\ program[at[i]] = "reduce"
                    THEN IF t \in todo[i] THEN 0 ELSE 1
                    ELSE IF t = i THEN 1 ELSE 0]

SumInv ==
  /\ reduce_data \in [Thread -> Thread \cup {None}]
  /\ acc \in [Thread -> [Thread -> Nat]]
  /\ todo \in [Thread -> SUBSET Thread]
  /\ result \in [Construct -> {NoShare, [t \in Thread |-> 1]}]
  /\ \A i \in Thread :
       /\ pc[i] # "body" => acc[i] = Shares(i)
       /\ i \notin todo[i]
       /\ pc[i] # "combine" => todo[i] = {}
       /\ (pc[i] = "bar1" \/ Past(i)) /\ program[at[i]] = "reduce" => reduce_data[i] = i
       /\ \A k \in Construct : at[i] <= k => result[k] = NoShare

DataInv == KindInv /\ SyncInv /\ ChosenInv /\ CopyInv /\ SumInv

-----------------------------------------------------------------------------

\* Every thread gets through its whole program.
TeamCompletes == \A i \in Thread : <>(at[i] > NumConstructs)
=============================================================================
