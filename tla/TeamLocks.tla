------------------------------ MODULE TeamLocks ------------------------------
(***************************************************************************)
(* What keeps the threads of a team out of each other's way: critical,     *)
(* the locks of the omp_ library (omp_set_lock and its like, which the     *)
(* __kmpc_ ones and those of nest locks repeat), and __kmpc_reduce where   *)
(* the compiler has atomics: a barrier before every thread's atomic        *)
(* update and one after it.                                                *)
(*                                                                         *)
(* All critical sections of a team share crit_mtx, whatever their names.   *)
(* A program is a sequence of sections and reductions for each thread; the *)
(* body of a section runs inside one or more guards and adds 1 to a        *)
(* variable that belongs to the innermost, by a load and a store.          *)
(* barrier_wait is its contract, as in TeamSingle.                         *)
(***************************************************************************)
EXTENDS Integers, Sequences

CONSTANTS
  Thread,    \* the threads of the team
  Name,      \* the names of critical sections
  Lock,      \* the variables of type omp_lock_t
  Programs,  \* the programs of the team: for each thread a sequence of items
  None       \* no thread

crit_mtx == "crit_mtx"   \* parallel_region::crit_mtx
Mutex == Lock \cup {crit_mtx}
Place == Name \cup Lock

Guard == [by : {"critical"}, on : Name] \cup [by : {"set", "test"}, on : Lock]
Item == [kind : {"section"}, guards : Seq(Guard) \ {<<>>}] \cup [kind : {"reduce"}]

MutexOf(place) == IF place \in Name THEN crit_mtx ELSE place

ASSUME NoneAssumption == None \notin Thread
ASSUME PlaceAssumption == crit_mtx \notin Lock /\ Name \cap Lock = {}
ASSUME ProgramsAssumption == \A p \in Programs :
  DOMAIN p = Thread /\ \A i \in Thread : p[i] \in Seq(Item)

VARIABLES
  program,  \* the program of the team
  at,       \* the item of its program each thread is in, or comes to next
  pc,       \* where in it each thread is
  depth,    \* how many guards it is inside
  owner,    \* who holds each mutex
  reg,      \* what the body of each thread has loaded
  value,    \* the variable of each name and lock
  stores,   \* history: how often it was stored to
  result,   \* how often each thread's share is in the variable of the reductions
  reduced   \* history: the reductions each thread has behind it

bodyVars == <<reg, value, stores>>
reduceVars == <<result, reduced>>
vars == <<program, at, pc, depth, owner, bodyVars, reduceVars>>

PC == {"next", "enter", "load", "store", "exit", "bar1", "add", "bar2"}

Init ==
  /\ program \in Programs
  /\ at = [i \in Thread |-> 1]
  /\ pc = [i \in Thread |-> "next"]
  /\ depth = [i \in Thread |-> 0]
  /\ owner = [m \in Mutex |-> None]
  /\ reg = [i \in Thread |-> 0]
  /\ value = [v \in Place |-> 0]
  /\ stores = [v \in Place |-> 0]
  /\ result = [i \in Thread |-> 0]
  /\ reduced = [i \in Thread |-> 0]

Goto(i, from, to) ==
  /\ pc[i] = from
  /\ pc' = [pc EXCEPT ![i] = to]

\* The thread is through with its item.
Finish(i, from) ==
  /\ Goto(i, from, "next")
  /\ at' = [at EXCEPT ![i] = @ + 1]

ItemOf(i) == program[i][at[i]]
Guards(i) == ItemOf(i).guards
Wanted(i) == Guards(i)[depth[i] + 1]      \* the guard the thread comes to
Inside(i) == Guards(i)[depth[i]]          \* the one it has come into last
Variable(i) == Guards(i)[Len(Guards(i))].on

-----------------------------------------------------------------------------
(* The program.                                                            *)

Begin(i) ==
  /\ at[i] <= Len(program[i])
  /\ Goto(i, "next", IF ItemOf(i).kind = "section" THEN "enter" ELSE "bar1")
  /\ UNCHANGED <<program, at, depth, owner, bodyVars, reduceVars>>

Load(i) ==
  /\ Goto(i, "load", "store")
  /\ reg' = [reg EXCEPT ![i] = value[Variable(i)]]
  /\ UNCHANGED <<program, at, depth, owner, value, stores, reduceVars>>

Store(i) ==
  /\ Goto(i, "store", "exit")
  /\ value' = [value EXCEPT ![Variable(i)] = reg[i] + 1]
  /\ stores' = [stores EXCEPT ![Variable(i)] = @ + 1]
  /\ UNCHANGED <<program, at, depth, owner, reg, reduceVars>>

-----------------------------------------------------------------------------
(* critical and the locks.                                                 *)

\* The thread is inside one more guard; the body follows the last.
Come(i) ==
  /\ Goto(i, "enter", IF depth[i] + 1 = Len(Guards(i)) THEN "load" ELSE "enter")
  /\ depth' = [depth EXCEPT ![i] = @ + 1]
  /\ UNCHANGED <<program, at, bodyVars, reduceVars>>

\* hpx::lcos::local::spinlock::lock(), when it returns, and a try_lock() that succeeds.
Acquire(i, place) ==
  /\ owner[MutexOf(place)] = None
  /\ owner' = [owner EXCEPT ![MutexOf(place)] = i]

\* The thread has left a guard, and with the first of them the section.
Go(i) ==
  /\ IF depth[i] = 1
     THEN Finish(i, "exit")
     ELSE Goto(i, "exit", "exit") /\ UNCHANGED at
  /\ depth' = [depth EXCEPT ![i] = @ - 1]
  /\ UNCHANGED <<program, bodyVars, reduceVars>>

\* spinlock::unlock()
Free(place) == owner' = [owner EXCEPT ![MutexOf(place)] = None]

\* Mutant: a mutex for each name that nobody else uses.
CriticalUnlocked(i) ==
  /\ pc[i] = "enter" /\ Wanted(i).by = "critical"
  /\ UNCHANGED owner
  /\ Come(i)

\* __kmpc_critical
Critical(i) ==
  /\ pc[i] = "enter" /\ Wanted(i).by = "critical"
  /\ Acquire(i, Wanted(i).on)
  /\ Come(i)

\* __kmpc_end_critical
EndCritical(i) ==
  /\ pc[i] = "exit" /\ Inside(i).by = "critical"
  /\ Free(Inside(i).on)
  /\ Go(i)

\* omp_set_lock
SetLock(i) ==
  /\ pc[i] = "enter" /\ Wanted(i).by = "set"
  /\ Acquire(i, Wanted(i).on)
  /\ Come(i)

\* omp_test_lock: with 0 the program goes without the body; one that tries again
\* is a thread that has not come here yet.
TestLock(i) ==
  /\ pc[i] = "enter" /\ Wanted(i).by = "test"
  /\ \/ Acquire(i, Wanted(i).on) /\ Come(i)
     \/ /\ owner[MutexOf(Wanted(i).on)] # None
        /\ IF depth[i] = 0
           THEN Finish(i, "enter")
           ELSE Goto(i, "enter", "exit") /\ UNCHANGED at
        /\ UNCHANGED <<program, depth, owner, bodyVars, reduceVars>>

\* Mutant: the mutex is kept.
UnsetLockNothing(i) ==
  /\ pc[i] = "exit" /\ Inside(i).by \in {"set", "test"}
  /\ UNCHANGED owner
  /\ Go(i)

\* omp_unset_lock
UnsetLock(i) ==
  /\ pc[i] = "exit" /\ Inside(i).by \in {"set", "test"}
  /\ Free(Inside(i).on)
  /\ Go(i)

-----------------------------------------------------------------------------
(* __kmpc_reduce and __kmpc_end_reduce with atomics.                       *)

\* barrier_wait(); return 2
Reduce ==
  /\ \A i \in Thread : pc[i] = "bar1"
  /\ pc' = [i \in Thread |-> "add"]
  /\ UNCHANGED <<program, at, depth, owner, bodyVars, reduceVars>>

\* The compiler's atomic update: AtomicOps.
Add(i) ==
  /\ Goto(i, "add", "bar2")
  /\ result' = [result EXCEPT ![i] = @ + 1]
  /\ UNCHANGED <<program, at, depth, owner, bodyVars, reduced>>

\* Mutant: no barrier after the updates.
EndReduceNoBarrier ==
  /\ \E i \in Thread : Finish(i, "bar2") /\ reduced' = [reduced EXCEPT ![i] = @ + 1]
  /\ UNCHANGED <<program, depth, owner, bodyVars, result>>

\* barrier_wait()
EndReduce ==
  /\ \A i \in Thread : pc[i] = "bar2"
  /\ pc' = [i \in Thread |-> "next"]
  /\ at' = [i \in Thread |-> at[i] + 1]
  /\ reduced' = [i \in Thread |-> reduced[i] + 1]
  /\ UNCHANGED <<program, depth, owner, bodyVars, result>>

-----------------------------------------------------------------------------

Step(i) ==
  \/ Begin(i) \/ Load(i) \/ Store(i)
  \/ Critical(i) \/ EndCritical(i)
  \/ SetLock(i) \/ TestLock(i) \/ UnsetLock(i)
  \/ Add(i)

Next == (\E i \in Thread : Step(i)) \/ Reduce \/ EndReduce

Spec == Init /\ [][Next]_vars

\* HPX runs every ready thread, and a program takes a mutex finitely often: who
\* spins for one gets it.
FairSpec == Spec /\ WF_vars(Reduce) /\ WF_vars(EndReduce) /\ \A i \in Thread : WF_vars(Step(i))

-----------------------------------------------------------------------------
(* Properties.                                                             *)

\* The mutexes a thread is inside of.
Holds(i) == {MutexOf(Guards(i)[d].on) : d \in 1..depth[i]}

InSection == {"enter", "load", "store", "exit"}

\* Every variable is in its domain, and a thread is in an item that has its place.
LocksType ==
  /\ program \in Programs
  /\ at \in [Thread -> Nat \ {0}]
  /\ pc \in [Thread -> PC]
  /\ depth \in [Thread -> Nat]
  /\ owner \in [Mutex -> Thread \cup {None}]
  /\ reg \in [Thread -> Nat] /\ value \in [Place -> Nat] /\ stores \in [Place -> Nat]
  /\ result \in [Thread -> Nat] /\ reduced \in [Thread -> Nat]
  /\ \A i \in Thread :
       /\ pc[i] # "next" => at[i] <= Len(program[i])
       /\ pc[i] \in InSection => ItemOf(i).kind = "section"
       /\ pc[i] \notin InSection => depth[i] = 0
       /\ pc[i] = "enter" => depth[i] < Len(Guards(i))
       /\ pc[i] \in {"load", "store"} => depth[i] = Len(Guards(i))
       /\ pc[i] = "exit" => depth[i] \in 1..Len(Guards(i))

\* No two guards a thread is inside of have the same mutex: it does not get into
\* the second.
HoldsOnce(i) ==
  \A d, e \in 1..depth[i] : MutexOf(Guards(i)[d].on) = MutexOf(Guards(i)[e].on) => d = e

\* Besides, each mutex is held by exactly the thread that is inside one of its guards.
TypeOK ==
  /\ LocksType
  /\ \A m \in Mutex, i \in Thread : owner[m] = i <=> m \in Holds(i)
  /\ \A i \in Thread : HoldsOnce(i)

\* No body's update is lost, whichever critical names and locks the program uses.
UpdatesExact == \A v \in Place : value[v] = stores[v]

\* A thread outside a reduction, reading its variable, finds the shares of all
\* threads in all reductions it has behind it, and none of the next.
ReduceComplete ==
  \A i \in Thread : pc[i] \notin {"add", "bar2"} =>
    \A t \in Thread : result[t] = reduced[i]

\* The thread spins for the mutex of the guard it comes to.
Waits(i) == pc[i] = "enter" /\ Wanted(i).by # "test"

\* Somebody, perhaps the thread itself, has that mutex.
Blocked(i) == Waits(i) /\ owner[MutexOf(Wanted(i).on)] # None

\* While a thread spins for a mutex that is taken, some thread that is inside a
\* guard does not: no thread has ended with a mutex, and the holders do not wait
\* for each other or for themselves.
HoldersGoOn ==
  (\E i \in Thread : Blocked(i)) => \E j \in Thread : depth[j] > 0 /\ ~Blocked(j)

\* Every thread gets through its program.
ProgramsComplete == \A i \in Thread : <>(at[i] > Len(program[i]))

-----------------------------------------------------------------------------
(* The inductive invariant.                                                *)

\* What a body has loaded is still there when it stores.
BodyInv ==
  /\ UpdatesExact
  /\ \A i \in Thread : pc[i] = "store" => reg[i] = value[Variable(i)]

\* The team is in one reduction or in none.
ReduceInv ==
  /\ \A i, j \in Thread :
       /\ reduced[i] = reduced[j]
       /\ pc[i] \in {"add", "bar2"} => pc[j] \in {"add", "bar2"}
  /\ \A i \in Thread : result[i] = IF pc[i] = "bar2" THEN reduced[i] + 1 ELSE reduced[i]

\* What the theorems of TeamLocksProofs rest on.
LocksInv == TypeOK /\ BodyInv /\ ReduceInv
=============================================================================
